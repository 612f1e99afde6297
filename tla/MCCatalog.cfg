SPECIFICATION Spec
CONSTANTS
  Absent = Absent
  RawValues = {"1", "6", "99"}
  Number <- MCNumber
  Accepts <- MCAccepts
  Single <- MCSingle
  WordHalf = 8
  NarrowHalf = 2
  Types <- MCTypes
  BaseText = "base"
  ZeroText = ""
  MaxRefreshes = 2
INVARIANTS
  TypeOK
  CatalogIsComplete
  FieldIsFoundByKey
  UnsharedIsPointInTime
  SnapshotSpellsOverrides
  NilSectionStaysNil
  OnlyUnassignablePanics
CHECK_DEADLOCK FALSE
