SPECIFICATION PSpec
CONSTANTS
  DirectUserActdead = TRUE
  HomeIsEncrypted = FALSE
  RdMode = FALSE
  BatteryLevels = {3}
  BootStates = {"SHUTDOWN", "USER+malf"}
  Senders = {"dsme"}
  FailingTimers = {}
  Inputs = {"SHUTDOWN", "thermal", "emergency", "block", "battery_state", "battery_level"}
  MaxQueue = 2
  CommandsMayFail = TRUE
INVARIANTS ProxyCatchesUp TrackerCatchesUp SaveBeforeDown
CHECK_DEADLOCK FALSE
