SPECIFICATION EventSpec
CONSTANTS
  Namespaces = {"ns", "other"}
  NS = "ns"
  Keys = {"r"}
  RawValues = {""}
  Empty = ""
  Absent = Absent
  FieldValues = {"base", ""}
  Invalid = Invalid
  Base <- MCBase
  Strategy <- MCStrategy
  Parse <- MCParse
  Subs = {"s1"}
  Closers = {"c1"}
  SubBuf = 1
  Watchers = {"w"}
  WatchNs <- MCWatchNs
  Self = "w"
  WatchBuf = 1
  MaxWrites = 2
INVARIANTS
  TypeOK
  NoPanic
  NoLostWakeup
  NoMissedRebuild
PROPERTIES
  ImplementsLiveStore
  EventsKeepCurrent
CHECK_DEADLOCK FALSE
