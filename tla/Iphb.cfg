SPECIFICATION Spec
CONSTANTS
  Externals = {e1}
  Internals = {i1}
  Requests <- MCRequests
  InternalRequests <- MCInternalRequests
  PowerupTimes = {0, 2}
  ResumeTimes = {0}
  Interfaces = {"timerfd", "android", "rtc"}
  TPS = 2
  HEARTBEAT_INTERVAL = 2
  PERIOD_SLOTSIZE = 2
  MAXIMUM_WAKEUP = 3
  BOOT_ESTIMATE = 1
  KernelDevice = TRUE
  LateRtc = TRUE
  Lut <- MCLut
  UpdateRounds = 1
  LastRequest = 1
  MaxTime = 8
INVARIANTS CheckHoldsLock AlarmCovers WokenInTime
CHECK_DEADLOCK FALSE
