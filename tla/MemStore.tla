------------------------------ MODULE MemStore ------------------------------
(***************************************************************************)
(* memstore.MemStore.  Set and Delete change data and audit in one         *)
(* critical section of mu and broadcast their event in another one of      *)
(* watchMu, so that a writer between the two is a member of "unsent" and   *)
(* concurrent writers may broadcast in any order.                          *)
(*                                                                         *)
(* An audit record's id is its position in audit: seq is incremented under *)
(* mu.  Write number i leads to store state number i + 1.                  *)
(***************************************************************************)
EXTENDS ConfigData

CONSTANTS
  Watchers,   \* calls of Watch
  WatchNs,    \* the namespace each of them is scoped to
  WatchBuf,   \* capacity of a watch channel (64 in the code)
  MaxWrites   \* bound: number of effective calls of Set and Delete

ASSUME MemAssumption ==
  /\ WatchNs \in [Watchers -> Namespaces]
  /\ WatchBuf \in Nat \ {0}
  /\ MaxWrites \in Nat

VARIABLES
  data,      \* namespace -> overrides
  audit,     \* the audit trail, oldest first
  unsent,    \* events of writers that have yet to broadcast
  watchers,  \* s.watchers
  wch,       \* contents of each watch channel
  wState,    \* "none" before Watch, then "open", then "closed"
  wPanicked  \* a send on, or a close of, a closed watch channel happened

memVars == <<data, audit, unsent, watchers, wch, wState, wPanicked>>

AuditRecord == [ns : Namespaces, key : Keys, old : RawValues, new : RawValues]

MemTypeOK ==
  /\ data \in [Namespaces -> Overrides]
  /\ audit \in Seq(AuditRecord)
  /\ unsent \in SUBSET ChangeEvent
  /\ watchers \in SUBSET Watchers
  /\ wch \in [Watchers -> Seq(ChangeEvent)]
  /\ wState \in [Watchers -> {"none", "open", "closed"}]
  /\ wPanicked \in BOOLEAN

MemInit ==
  /\ data = [ns \in Namespaces |-> NoOverrides]
  /\ audit = << >>
  /\ unsent = {}
  /\ watchers = {}
  /\ wch = [w \in Watchers |-> << >>]
  /\ wState = [w \in Watchers |-> "none"]
  /\ wPanicked = FALSE

-----------------------------------------------------------------------------
\* Get: the value, or Absent for "not found".
MemGet(ns, k) == data[ns][k]

\* Seeded fault: the overrides of all namespaces are mixed.
Fault_ListAll(ns) ==
  [k \in Keys |-> IF \E n \in Namespaces : data[n][k] # Absent
                  THEN data[CHOOSE n \in Namespaces : data[n][k] # Absent][k]
                  ELSE Absent]

\* List: all overrides of a namespace.
MemList(ns) == data[ns]

\* The part of Set and Delete under mu: v is the new value or Absent.
Write(ns, k, v) ==
  LET rec == [ns |-> ns, key |-> k, old |-> TextOf(data[ns][k]), new |-> TextOf(v)]
  IN  /\ Len(audit) < MaxWrites
      /\ data' = [data EXCEPT ![ns][k] = v]
      /\ audit' = Append(audit, rec)
      /\ unsent' = unsent \cup
           {[ns |-> ns, key |-> k, old |-> rec.old, new |-> rec.new,
             ver |-> Len(audit) + 2]}
      /\ UNCHANGED <<watchers, wch, wState, wPanicked>>

Set(ns, k, v) == Write(ns, k, v)

\* Seeded fault: the override is removed and nothing is recorded.
Fault_DeleteUnrecorded(ns, k) ==
  /\ data[ns][k] # Absent
  /\ data' = [data EXCEPT ![ns][k] = Absent]
  /\ UNCHANGED <<audit, unsent, watchers, wch, wState, wPanicked>>

\* Deleting a key without an override changes nothing.
Delete(ns, k) == data[ns][k] # Absent /\ Write(ns, k, Absent)

\* Seeded fault: the event goes to the watchers of every namespace.
Fault_BroadcastAll(ev) ==
  /\ unsent' = unsent \ {ev}
  /\ wch' = [w \in Watchers |->
               IF w \in watchers /\ Len(wch[w]) < WatchBuf
               THEN Append(wch[w], ev) ELSE wch[w]]
  /\ wPanicked' = (wPanicked \/ \E w \in watchers : wState[w] = "closed")
  /\ UNCHANGED <<data, audit, watchers, wState>>

\* Seeded fault: the last free slot of a channel is never used.
Fault_BroadcastKeepsSlot(ev) ==
  /\ unsent' = unsent \ {ev}
  /\ wch' = [w \in Watchers |->
               IF /\ w \in watchers /\ WatchNs[w] = ev.ns
                  /\ Len(wch[w]) < WatchBuf - 1
               THEN Append(wch[w], ev) ELSE wch[w]]
  /\ wPanicked' = (wPanicked \/ \E w \in watchers : wState[w] = "closed")
  /\ UNCHANGED <<data, audit, watchers, wState>>

\* broadcast, under watchMu: a full channel drops the event.
Broadcast(ev) ==
  /\ unsent' = unsent \ {ev}
  /\ wch' = [w \in Watchers |->
               IF /\ w \in watchers /\ WatchNs[w] = ev.ns
                  /\ Len(wch[w]) < WatchBuf
               THEN Append(wch[w], ev) ELSE wch[w]]
  /\ wPanicked' = (wPanicked \/
       \E w \in watchers : WatchNs[w] = ev.ns /\ wState[w] = "closed")
  /\ UNCHANGED <<data, audit, watchers, wState>>

\* Watch registers a new channel.
Watch(w) ==
  /\ wState[w] = "none"
  /\ wState' = [wState EXCEPT ![w] = "open"]
  /\ watchers' = watchers \cup {w}
  /\ UNCHANGED <<data, audit, unsent, wch, wPanicked>>

\* Seeded fault: the channel is closed and stays in s.watchers.
Fault_CloseRegistered(w) ==
  /\ w \in watchers
  /\ wPanicked' = (wPanicked \/ wState[w] = "closed")
  /\ wState' = [wState EXCEPT ![w] = "closed"]
  /\ UNCHANGED <<data, audit, unsent, watchers, wch>>

\* Watch's cleanup goroutine, once the context of w is cancelled.
WatchCleanup(w) ==
  /\ w \in watchers
  /\ watchers' = watchers \ {w}
  /\ wPanicked' = (wPanicked \/ wState[w] = "closed")
  /\ wState' = [wState EXCEPT ![w] = "closed"]
  /\ UNCHANGED <<data, audit, unsent, wch>>

\* The owner of w receives the oldest event.
WatchRecv(w) ==
  /\ wch[w] # << >>
  /\ wch' = [wch EXCEPT ![w] = Tail(@)]
  /\ UNCHANGED <<data, audit, unsent, watchers, wState, wPanicked>>

-----------------------------------------------------------------------------
\* Ids of the audit records of a key.
MatchingIds(ns, k) ==
  {i \in 1..Len(audit) : audit[i].ns = ns /\ audit[i].key = k}

\* Those that History meets before record i, on its way from the newest.
NewerIds(ns, k, i) == {j \in MatchingIds(ns, k) : j > i}

\* The records after the first off ones, at most limit of them.
Page(ns, k, off, limit) ==
  {i \in MatchingIds(ns, k) :
     Cardinality(NewerIds(ns, k, i)) \in off..(off + limit - 1)}

\* Seeded fault: every page but the first starts one record too late.
Fault_HistorySkips(ns, k, limit, offset) ==
  Page(ns, k, IF offset > 0 THEN offset + 1 ELSE 0, limit)

\* History: the ids of one page.
History(ns, k, limit, offset) ==
  Page(ns, k, NormalOffset(offset), NormalLimit(limit))

=============================================================================
