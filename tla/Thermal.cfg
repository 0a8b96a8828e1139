SPECIFICATION Spec
CONSTANTS
  core0 = core0
  core1 = core1
  surface = surface
  bad = bad
  Lines <- MCLines
  Raw = {296, 895}
  FirstRaw <- MCFirstRaw
  Restless = {core0}
  UNIT = 5
  POLL_DELAY_TRANSITION_MAXIMUM = 5
  IGNORE_TEMP_BELOW <- MCBelow
  IGNORE_TEMP_ABOVE = 200
INVARIANTS PollAlive ReportIsWorst OverheatReported
PROPERTIES NoGlitch
