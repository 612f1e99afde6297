SPECIFICATION FairSpec
CONSTANTS
  Namespaces = {"ns"}
  NS = "ns"
  Keys = {"k"}
  RawValues = {"", "a"}
  Empty = ""
  Absent = Absent
  FieldValues = {"base", "", "a"}
  Invalid = Invalid
  Base <- MCBase
  Strategy <- MCStrategy
  Parse <- MCParse
  Writers = {w1}
  MaxTx = 1
  StoreStates <- Overrides
  WatchBuf = 1
  MaxStates = 4
  w1 = w1
  w2 = w2
PROPERTIES
  ListenResumes
CHECK_DEADLOCK FALSE
