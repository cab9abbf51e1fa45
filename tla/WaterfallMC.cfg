SPECIFICATION Spec
CONSTANTS
  Traces = {1, 2}
  Shapes <- MCShapes
  MaxTracked = 1
  PageStep = 2
  MaxEvents = 4
  Times <- MCTimes
  Durations <- MCDurations
  Units <- MCUnits
  TickSteps = {2, 4, 6}
  LabelSlot = 80
  RulerPadding = 48
  MaxAxisTicks = 100
  Columns <- MCColumns
  PaneWidths = {700, 1400}
  Drags <- MCDrags
INVARIANTS CollapseKept TreeDrawnWhole ColumnsFill RulerTellsTime
PROPERTY SelectionMovesOnScreen
CHECK_DEADLOCK FALSE
