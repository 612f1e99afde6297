SPECIFICATION LPFairSpec
CONSTANTS
  Namespaces = {"ns"}
  NS = "ns"
  Keys = {"r", "l"}
  RawValues = {"", "a"}
  Empty = ""
  Absent = Absent
  FieldValues = {"base", "", "a"}
  Invalid = Invalid
  Base <- MCBase
  Strategy <- MCStrategy
  Parse <- MCParse
  Subs = {}
  Closers = {"c1"}
  SubBuf = 1
  StoreStates <- MCStates
  WatchBuf = 1
  MaxStates = 3
INVARIANTS
  LPTypeOK
  DifferenceWakesLoop
  ReplayGivesList
PROPERTIES
  ImplementsLiveStore
  PollLoopExits
CHECK_DEADLOCK FALSE
