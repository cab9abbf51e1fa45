SPECIFICATION Spec
CONSTANTS
  Metrics = {1, 2}
  NumSeries = 2
  Default = 1
  Fixed = {"fixed"}
  Live = {"preset"}
  Columns = {1, 2}
  MaxEvents = 6
INVARIANTS PageSettles NothingStaleShown
PROPERTY ComesToRest
CHECK_DEADLOCK FALSE
