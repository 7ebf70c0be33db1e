SPECIFICATION EvalSpec
CONSTANTS
  Shapes <- MCShapes
  Cells = 736
INVARIANTS Transposes VerdictIsTrue
PROPERTY EveryRunEnds
CHECK_DEADLOCK FALSE
