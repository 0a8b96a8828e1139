SPECIFICATION Spec
CONSTANTS
  DirectUserActdead = FALSE
  HomeIsEncrypted = FALSE
  RdMode = FALSE
  BatteryLevels = {2, 3}
  BootStates = {"USER", "ACT_DEAD", "TEST", "BOOT"}
  Senders = {"dsme"}
  FailingTimers = {}
  Inputs = {"SHUTDOWN", "REBOOT", "ACTDEAD", "USER", "charger", "usb", "alarm", "thermal", "emergency", "battery_level", "battery_state", "block"}
INVARIANTS RunlevelTimerMatchesState EmergencyHoldsRunlevel
PROPERTIES NoReturnFromDown EmergencyFreezesState BlockedUnlessCritical
CHECK_DEADLOCK FALSE
