SPECIFICATION FairSpec
CONSTANTS
  DirectUserActdead = TRUE
  HomeIsEncrypted = TRUE
  RdMode = FALSE
  BatteryLevels = {3}
  BootStates = {"USER+malf", "ACT_DEAD+malf", "MALF", "unknown"}
  Senders = {"dsme", "privileged", "unprivileged"}
  FailingTimers = {"delayed_shutdown", "delayed_actdead", "delayed_user", "overheat", "charger_disconnect", "battery_empty"}
  Inputs = {"SHUTDOWN", "USER", "charger", "thermal", "emergency", "battery_level", "battery_state", "switch_done", "quit"}
PROPERTIES CriticalShutdownHappens
CHECK_DEADLOCK FALSE
