SPECIFICATION FairSpec
CONSTANTS
  Period = 20
  Interval = 12
  TermWait = 8
  KillWait = 3
  MaxPing = 5
  PipeSize = 2
  MaxSignals = 1
INVARIANTS WatchdogsFed WatchdogsGuardSurvivor
PROPERTIES NoHastyVerdict HungServerReplaced
CHECK_DEADLOCK FALSE
