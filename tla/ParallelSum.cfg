SPECIFICATION FairSpec
CONSTANTS
  MaxThreads = 3
  MaxN = 5
  Values = {1, 4}
  Junk = {0, 7}
INVARIANTS SharesOK SumsAgree
PROPERTY AllJoin
CHECK_DEADLOCK FALSE
