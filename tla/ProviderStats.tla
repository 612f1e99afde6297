--------------------------- MODULE ProviderStats ---------------------------
(***************************************************************************)
(* The counters of Provider.Stats at the grain of their atomic operations: *)
(* the event loop's refresh stores them one after the other while callers  *)
(* of Stats and Get load them one after the other, without a lock.         *)
(*                                                                         *)
(* Refreshes are numbered: lastRefresh holds the number of the refresh     *)
(* whose time it is.  p.refreshCount is a uint64 and MaxRefreshes far from *)
(* its limit.                                                              *)
(***************************************************************************)
EXTENDS Naturals

CONSTANTS
  Readers,      \* goroutines that call Stats and then Get
  MaxRefreshes  \* bound: number of calls of refresh

ASSUME StatsAssumption == MaxRefreshes \in Nat

VARIABLES
  step,          \* next atomic operation of refresh
  calls,         \* calls of refresh so far
  installed,     \* successful refreshes whose snapshot p.current points to
  refreshCount,  \* p.refreshCount
  lastRefresh,   \* p.lastRefresh
  lastErr,       \* p.lastErrText holds an error
  at,            \* next load of each reader
  local,         \* what each reader has loaded in the running call
  result,        \* what its last completed Stats returned
  got            \* number of the snapshot its Get after that returned

refreshVars == <<step, calls, installed, refreshCount, lastRefresh, lastErr>>
readerVars  == <<at, local, result, got>>
vars == <<refreshVars, readerVars>>

Stats == [lastErr : BOOLEAN, lastRefresh : Nat, refreshCount : Nat]

NoStats == [lastErr |-> FALSE, lastRefresh |-> 0, refreshCount |-> 0]

Init ==
  /\ step = "list"
  /\ calls = 0
  /\ installed = 0
  /\ refreshCount = 0
  /\ lastRefresh = 0
  /\ lastErr = FALSE
  /\ at = [r \in Readers |-> "idle"]
  /\ local = [r \in Readers |-> NoStats]
  /\ result = [r \in Readers |-> NoStats]
  /\ got = [r \in Readers |-> 0]

-----------------------------------------------------------------------------
\* Seeded fault: the refresh is counted before its snapshot is stored.
Fault_CountFirst ==
  [list |-> "count", count |-> "current", current |-> "time", time |-> "err",
   err |-> "list"]

\* Seeded fault: the time is stored before the refresh is counted.
Fault_TimeFirst ==
  [list |-> "current", current |-> "time", time |-> "count", count |-> "err",
   err |-> "list"]

\* The order of refresh's operations after a successful List.
After ==
  [list |-> "current", current |-> "count", count |-> "time", time |-> "err",
   err |-> "list"]

\* store.List answers.
ListOK ==
  /\ step = "list"
  /\ calls < MaxRefreshes
  /\ calls' = calls + 1
  /\ step' = After.list
  /\ UNCHANGED <<installed, refreshCount, lastRefresh, lastErr, readerVars>>

\* store.List fails; a failure of New's refresh leaves no Provider to ask.
ListError ==
  /\ step = "list"
  /\ calls < MaxRefreshes
  /\ refreshCount > 0
  /\ calls' = calls + 1
  /\ lastErr' = TRUE
  /\ UNCHANGED <<step, installed, refreshCount, lastRefresh, readerVars>>

\* p.current.Store
StoreCurrent ==
  /\ step = "current"
  /\ step' = After.current
  /\ installed' = installed + 1
  /\ UNCHANGED <<calls, refreshCount, lastRefresh, lastErr, readerVars>>

\* p.refreshCount.Add
AddCount ==
  /\ step = "count"
  /\ step' = After.count
  /\ refreshCount' = refreshCount + 1
  /\ UNCHANGED <<calls, installed, lastRefresh, lastErr, readerVars>>

\* p.lastRefresh.Store
StoreTime ==
  /\ step = "time"
  /\ step' = After.time
  /\ lastRefresh' = installed
  /\ UNCHANGED <<calls, installed, refreshCount, lastErr, readerVars>>

\* p.lastErrText.Store
StoreErr ==
  /\ step = "err"
  /\ step' = After.err
  /\ lastErr' = FALSE
  /\ UNCHANGED <<calls, installed, refreshCount, lastRefresh, readerVars>>

-----------------------------------------------------------------------------
\* Stats is called once New has returned; the stores left to New show nothing.
LoadErr(r) ==
  /\ at[r] = "idle"
  /\ lastRefresh > 0
  /\ at' = [at EXCEPT ![r] = "time"]
  /\ local' = [local EXCEPT ![r].lastErr = lastErr]
  /\ UNCHANGED <<refreshVars, result, got>>

LoadTime(r) ==
  /\ at[r] = "time"
  /\ at' = [at EXCEPT ![r] = "count"]
  /\ local' = [local EXCEPT ![r].lastRefresh = lastRefresh]
  /\ UNCHANGED <<refreshVars, result, got>>

\* The last load, and the return of Stats.
LoadCount(r) ==
  /\ at[r] = "count"
  /\ at' = [at EXCEPT ![r] = "get"]
  /\ local' = [local EXCEPT ![r].refreshCount = refreshCount]
  /\ result' = [result EXCEPT ![r] = local'[r]]
  /\ UNCHANGED <<refreshVars, got>>

\* The same goroutine calls Get.
Get(r) ==
  /\ at[r] = "get"
  /\ at' = [at EXCEPT ![r] = "idle"]
  /\ got' = [got EXCEPT ![r] = installed]
  /\ UNCHANGED <<refreshVars, local, result>>

RefreshNext ==
  ListOK \/ ListError \/ StoreCurrent \/ AddCount \/ StoreTime \/ StoreErr

ReaderNext ==
  \E r \in Readers : LoadErr(r) \/ LoadTime(r) \/ LoadCount(r) \/ Get(r)

Next == RefreshNext \/ ReaderNext

Spec == Init /\ [][Next]_vars

-----------------------------------------------------------------------------
(***************************************************************************)
(* The three loads of Stats are not atomic, but a torn result is never     *)
(* absurd: RefreshCount includes the refresh whose time LastRefresh shows. *)
(***************************************************************************)
TimeIsCounted ==
  \A r \in Readers : result[r].lastRefresh <= result[r].refreshCount

(***************************************************************************)
(* Who sees a refresh counted in Stats and then calls Get gets a snapshot  *)
(* at least that new.                                                      *)
(***************************************************************************)
CountedIsVisible ==
  \A r \in Readers : at[r] = "idle" => result[r].refreshCount <= got[r]

=============================================================================
