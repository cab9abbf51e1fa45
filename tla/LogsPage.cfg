SPECIFICATION Spec
CONSTANTS
  Items = {1, 2}
  Durations = {}
  MaxRecent = 1
  MaxNow = 3
  MaxHistory = 2
  MaxCalls = 2
  MaxEvents = 4
INVARIANTS PageConsistent RestIsConsistent
PROPERTY ComesToRest
CHECK_DEADLOCK FALSE
