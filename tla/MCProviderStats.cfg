SPECIFICATION Spec
CONSTANTS
  Readers = {"r1", "r2"}
  MaxRefreshes = 4
INVARIANTS
  TimeIsCounted
  CountedIsVisible
CHECK_DEADLOCK FALSE
