SPECIFICATION Spec
CONSTANTS
  Sums = {1}
  Histograms = {2}
  NumSeries = 3
  Default = 1
  Cap = 2
  MaxHistory = 3
  MaxEvents = 7
INVARIANTS ViewConsistent SkippedEchoMatches
PROPERTY ColoursStable
CHECK_DEADLOCK FALSE
