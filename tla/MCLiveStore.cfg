SPECIFICATION FairSpec
CONSTANTS
  Namespaces = {"ns"}
  NS = "ns"
  Keys <- MCKeys
  RawValues <- MCRaw
  Empty <- MCEmpty
  Absent = Absent
  FieldValues <- MCFields
  Invalid = Invalid
  Base <- MCBase
  Strategy <- MCStrategy
  Parse <- MCParse
  Subs = {s1}
  Closers = {c1, c2}
  SubBuf = 1
  StoreStates <- MCStates
  WatchBuf = 1
  MaxStates = 2
  r = r
  l = l
  s1 = s1
  c1 = c1
  c2 = c2
INVARIANTS
  TypeOK
  NoPanic
  EventsNotAhead
  OverflowIsHarmless
  NoLostRefresh
PROPERTIES
  ImplementsLiveView
  CloseIsFinal
  CloseTerminates
  CancelledChannelCloses
  SnapshotConverges
CHECK_DEADLOCK FALSE
