SPECIFICATION Spec
CONSTANTS
  Namespaces = {"ns1", "ns2"}
  Keys = {"k"}
  RawValues = {"", "a"}
  Empty = ""
  Absent = Absent
  FieldValues = {"base", "", "a"}
  Invalid = Invalid
  Base <- MCBase
  Strategy <- MCStrategy
  Parse <- MCParse
  Watchers = {"w1", "w2"}
  WatchNs <- MCWatchNs
  WatchBuf = 2
  MaxWrites = 3
  PageKey <- MCPageKey
  PageSize = 1
INVARIANTS
  AuditExplainsData
  EventsGenuine
  PagingMissesNothing
CHECK_DEADLOCK FALSE
