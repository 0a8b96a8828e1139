SPECIFICATION Spec
CONSTANTS
  Modes = {"mass_storage", "undefined"}
  UsbEvents = 5
  AlarmTimes <- MCAlarmTimes
  SnoozeTimeout = 2
  SaveWindow = 2
  AlarmMaxTime = 9
  AlarmEvents = 4
  BuiltinTime = 3
  Jitter = 1
  StartupEstimate = 1
  ShutdownEstimate = 1
  SetTimes = {4, 7}
  PowerupTimes = {0, 6}
  Devices <- MCDevices
  LastTime = 8
  TimeEvents = 4
  Plugins = {p1, p2}
  DbusEvents = 5
INVARIANTS MountTracked AlarmFileWhole AlarmAnnounced AlarmPowersUp BusInStep
PROPERTIES MountForgotten TimeKept BusReached
CHECK_DEADLOCK FALSE
