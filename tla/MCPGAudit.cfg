SPECIFICATION Spec
CONSTANTS
  Namespaces = {"ns"}
  NS = "ns"
  Keys = {"k"}
  RawValues = {"", "a"}
  Empty = ""
  Absent = Absent
  FieldValues = {"base", "", "a"}
  Invalid = Invalid
  Base <- MCBase
  Strategy <- MCStrategy
  Parse <- MCParse
  Writers = {w1, w2}
  MaxTx = 3
  StoreStates <- Overrides
  WatchBuf = 1
  MaxStates = 4
  w1 = w1
  w2 = w2
INVARIANTS
  AuditRecordsPreviousValue
CHECK_DEADLOCK FALSE
