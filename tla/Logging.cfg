SPECIFICATION Spec
CONSTANTS
  ENTRY_COUNT = 4
  COUNT_MODULUS = 8
  Callers = {c1}
  Patterns <- MCPatterns
  Prios = {3, 7}
  Faults = TRUE
  MaxRules = 2
  MaxMessages = 7
INVARIANTS NoTornEntry FlushedOnClose
PROPERTY ImplementsChannel
CHECK_DEADLOCK FALSE
