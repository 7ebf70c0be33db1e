SPECIFICATION HistorySpec
CONSTANTS
  s = 1
  E = 2
  b = 1
  Addresses = {0, 1, 2, 4, 6, 8, 12, 14}
  MaxAccesses = 6
PROPERTY LeastRecentlyUsed
CHECK_DEADLOCK FALSE
