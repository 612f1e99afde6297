------------------------------- MODULE MemUse -------------------------------
(***************************************************************************)
(* A MemStore with its users: concurrent writers, owners of watch channels *)
(* that cancel their contexts at any time, and one client that reads the   *)
(* history of a key page by page while the writers go on.                  *)
(***************************************************************************)
EXTENDS MemStore

CONSTANTS
  PageKey,   \* <<namespace, key>> whose history is read
  PageSize   \* the Limit the reader passes, positive

ASSUME UseAssumption ==
  /\ PageKey \in Namespaces \X Keys
  /\ PageSize \in Nat \ {0}

VARIABLES
  wDone,        \* watch channels whose context is cancelled
  reading,      \* "idle", "paging" or "finished"
  offset,       \* offset of the next page
  seen,         \* ids the reader got so far
  expected      \* ids that existed when the reader started

readerVars == <<reading, offset, seen, expected>>
vars == <<memVars, wDone, readerVars>>

Init ==
  /\ MemInit
  /\ wDone = {}
  /\ reading = "idle"
  /\ offset = 0
  /\ seen = {}
  /\ expected = {}

Writers ==
  \E ns \in Namespaces, k \in Keys :
    (\E v \in RawValues : Set(ns, k, v)) \/ Delete(ns, k)

Broadcasts == \E ev \in unsent : Broadcast(ev)

Cancel(w) ==
  /\ wState[w] # "none"
  /\ w \notin wDone
  /\ wDone' = wDone \cup {w}
  /\ UNCHANGED <<memVars, readerVars>>

Cleanup(w) ==
  w \in wDone /\ WatchCleanup(w) /\ UNCHANGED <<wDone, readerVars>>

StartReading ==
  /\ reading = "idle"
  /\ reading' = "paging"
  /\ expected' = MatchingIds(PageKey[1], PageKey[2])
  /\ UNCHANGED <<memVars, wDone, offset, seen>>

\* The reader asks for the next page; an empty page ends the reading.
ReadPage ==
  LET page == History(PageKey[1], PageKey[2], PageSize, offset)
  IN  /\ reading = "paging"
      /\ seen' = seen \cup page
      /\ offset' = offset + PageSize
      /\ reading' = IF page = {} THEN "finished" ELSE "paging"
      /\ UNCHANGED <<memVars, wDone, expected>>

StoreNext ==
  /\ \/ Writers
     \/ Broadcasts
     \/ \E w \in Watchers : Watch(w) \/ WatchRecv(w)
  /\ UNCHANGED <<wDone, readerVars>>

Next ==
  \/ StoreNext
  \/ \E w \in Watchers : Cancel(w) \/ Cleanup(w)
  \/ StartReading
  \/ ReadPage

Spec == Init /\ [][Next]_vars

-----------------------------------------------------------------------------
\* The text is the new value of the last of these records, if there is one.
LastNew(text, ids) ==
  \/ ids = {} /\ text = Empty
  \/ \E i \in ids : (\A j \in ids : j <= i) /\ text = audit[i].new

(***************************************************************************)
(* The audit trail tells the whole story of every key: each record's old   *)
(* value is the new value of the record before it, and the last new value  *)
(* is what Get returns.                                                    *)
(***************************************************************************)
AuditExplainsData ==
  \A ns \in Namespaces, k \in Keys :
    LET ids == MatchingIds(ns, k)
    IN  /\ \A i \in ids : LastNew(audit[i].old, {j \in ids : j < i})
        /\ LastNew(TextOf(MemGet(ns, k)), ids)

(***************************************************************************)
(* Watch: a channel carries only changes of its own namespace, each of     *)
(* them as it was recorded, and none of them twice, however the broadcasts *)
(* of concurrent writers interleave.                                       *)
(***************************************************************************)
EventsGenuine ==
  \A w \in Watchers :
    /\ \A i \in 1..Len(wch[w]) :
         LET ev == wch[w][i]
         IN  /\ ev.ns = WatchNs[w]
             /\ ev \notin unsent
             /\ audit[ev.ver - 1] =
                  [ns |-> ev.ns, key |-> ev.key, old |-> ev.old, new |-> ev.new]
    /\ \A i, j \in 1..Len(wch[w]) : i # j => wch[w][i].ver # wch[w][j].ver

(***************************************************************************)
(* History pages by offset while new records shift the pages: a reader who *)
(* goes on to the first empty page may see a record twice, yet misses none *)
(* that existed when it began.                                             *)
(***************************************************************************)
PagingMissesNothing == reading = "finished" => expected \subseteq seen

=============================================================================
