\* A call between the service and the server
CONSTANTS
  Absent = Absent
  Null = Null
  Ms = 2
  Exact = 4
  Number <- MCNumber
  Series <- MCSeries
  Spans <- MCSpans
  QueryTrees <- MCQueryTrees
  Resources <- MCResources
  MaxAt = 9
  ReadingTimes <- MCReadingTimes
  SpanTimes <- MCSpanTimes
SPECIFICATION Spec
INVARIANTS AskedIsAnswered TraceAsStored OutcomesToldApart
CHECK_DEADLOCK FALSE
