SPECIFICATION Spec
CONSTANTS
  Ids = {a, b, c}
  Sizes = {1, 2, 4}
  HeapSize = 8
  Breaks = {0, 4, 6, 8}
  Alignment = 2
  Uint = 16
  NULL = NULL
VIEW DriverView
INVARIANTS RangesAreLive NoFalseAlarm TotalIsLive
CHECK_DEADLOCK FALSE
