SPECIFICATION PFairSpec
CONSTANTS
  Process = {p1}
  MAXPING = 3
  MaxUnread = 2
  MaxQueue = 3
  TimerMayFail = TRUE
PROPERTIES NoEscapeAfterAbort AbortOnlyUnresponsive HungProcessRemoved
CHECK_DEADLOCK FALSE
