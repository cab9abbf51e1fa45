SPECIFICATION Spec
CONSTANTS
  Metrics = {"counter", "level", "latency", "size", "totals"}
  Type <- MCType
  Samples <- MCSamples
  Bounds <- MCBounds
  Ladder = {2, 4, 8, 16}
  Buckets = 5
  Window <- MCWindow
  NsPerMs = 2
  MinCell = 4
  MaxSteps = 3
  Panes = {7, 20}
  Pixels = {0, 3, 6, 7, 13}
  Heights = {0, 3, 6}
  MaxEvents = 4
INVARIANTS MarksAgree SamplesAddUp ClicksHit
CHECK_DEADLOCK FALSE
