SPECIFICATION MCSpec
CONSTANTS
  Blocks = {b1, b2, b3, b4}
  Values = {x, y}
  MaxReps = 2
  SizeT = 5
  MaxAlarms = 2
  FewBlocks = {b1, b2, b3}
  FewValues = {x}
  NULL = NULL
  FILL = FILL
INVARIANTS TypeOK Disarmed Accounted
PROPERTIES CommandsEnd OnlyInsertTailBreaks ImplementsFifo
CHECK_DEADLOCK FALSE
