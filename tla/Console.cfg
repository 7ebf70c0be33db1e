SPECIFICATION FairSpec
CONSTANTS
  MaxFiles = 3
  MaxLines = 2
  Limits = {0, 1, 2, 3}
  MaxTimes = 2
  ListBlocks = 2
  ErrLimit = 3
INVARIANTS Balanced QuitsOnce ExitTellsErrors ErrorsAreLimited
PROPERTY StopEnds
CHECK_DEADLOCK FALSE
