SPECIFICATION Spec
CONSTANTS
  Queries <- MCQueries
  DeviceStates = {"ACTDEAD"}
  Values <- MCValues
  StartValues <- MCStartValues
  ConfigFiles <- MCConfigFiles
  MaxEvents = 5
INVARIANTS ReportsCurrent TracksMce
PROPERTY EmptyBatteryReported
CHECK_DEADLOCK FALSE
