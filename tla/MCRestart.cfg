SPECIFICATION Spec
CONSTANTS
  Absent = Absent
  RawValues = {"1", "6", "99"}
  Number <- MCNumber
  Accepts <- MCAccepts
  Single <- MCSingle
  WordHalf = 8
  NarrowHalf = 2
  Types <- MCTypes
  BaseText = "base"
  ZeroText = ""
  MaxRefreshes = 2
INVARIANTS
  RestartRequiredIsKept
CHECK_DEADLOCK FALSE
