SPECIFICATION Spec
CONSTANTS
  TEST_RANGE = 4
  Randoms = {{2, 15, 31}}
  MaxLate = 2
INVARIANTS VerdictsAreRight ChargedOnce
PROPERTIES OnlyLateAlarms
CHECK_DEADLOCK FALSE
