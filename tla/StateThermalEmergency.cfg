SPECIFICATION FairSpec
CONSTANTS
  DirectUserActdead = FALSE
  HomeIsEncrypted = FALSE
  RdMode = TRUE
  BatteryLevels = {3}
  BootStates = {"USER"}
  Senders = {"dsme"}
  FailingTimers = {}
  Inputs = {"thermal", "emergency"}
PROPERTIES FatalThermalStatusShutsDown
CHECK_DEADLOCK FALSE
