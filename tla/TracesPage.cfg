SPECIFICATION Spec
CONSTANTS
  Traces = {1, 2}
  Queries = {"q"}
  MaxSeq = 4
  MaxMounts = 2
  MaxDeletes = 1
INVARIANT PageSettles
PROPERTIES SharedLinkKept LoadingEnds
CHECK_DEADLOCK FALSE
