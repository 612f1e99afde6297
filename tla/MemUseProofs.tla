---------------------------- MODULE MemUseProofs ----------------------------
(***************************************************************************)
(* Proofs about a MemStore and its users: the events in a watch channel    *)
(* are genuine, the audit trail explains the data, and paging through      *)
(* History during writes misses nothing, for every value of the constants. *)
(***************************************************************************)
EXTENDS MemUse, FiniteSetTheorems, TLAPS

(***************************************************************************)
(* The inductive invariant.  An event is genuine if the audit record of    *)
(* its number says the same; two genuine events with the same number are   *)
(* therefore equal, and a queued event is no longer unsent.                *)
(***************************************************************************)
Types ==
  /\ MemTypeOK
  /\ reading \in {"idle", "paging", "finished"}
  /\ offset \in Nat

Genuine(ev) ==
  /\ ev.ver \in 2..(Len(audit) + 1)
  /\ audit[ev.ver - 1] = [ns |-> ev.ns, key |-> ev.key, old |-> ev.old, new |-> ev.new]

UnsentGenuine == \A ev \in unsent : Genuine(ev)

QueuedGenuine == \A w \in Watchers : \A i \in 1..Len(wch[w]) : Genuine(wch[w][i])

(***************************************************************************)
(* What the reader may rely on: a record of expected with fewer than       *)
(* offset newer records of its key has been read.  A write can only move   *)
(* records to later pages.                                                 *)
(***************************************************************************)
PagedIsSeen ==
  /\ reading = "idle" => offset = 0
  /\ reading = "paging" =>
       \A x \in expected :
         /\ x \in MatchingIds(PageKey[1], PageKey[2])
         /\ Cardinality(NewerIds(PageKey[1], PageKey[2], x)) < offset => x \in seen

UseInv ==
  /\ Types
  /\ UnsentGenuine
  /\ QueuedGenuine
  /\ EventsGenuine
  /\ AuditExplainsData
  /\ PagedIsSeen
  /\ PagingMissesNothing

-----------------------------------------------------------------------------
\* Set and Delete are writes.
LEMMA WritersWrite ==
  ASSUME Writers
  PROVE  \E ns \in Namespaces, k \in Keys, v \in RawValues \cup {Absent} : Write(ns, k, v)
BY DEF Writers, Set, Delete

\* The record, the event and the new value of one write.
LEMMA WriteEffect ==
  ASSUME MemTypeOK, NEW ns \in Namespaces, NEW k \in Keys,
         NEW v \in RawValues \cup {Absent}, Write(ns, k, v)
  PROVE  /\ MemTypeOK'
         /\ UNCHANGED <<watchers, wch, wState, wPanicked>>
         /\ data'[ns][k] = v
         /\ \A n \in Namespaces, j \in Keys : n # ns \/ j # k => data'[n][j] = data[n][j]
         /\ \E rec \in AuditRecord, ev \in ChangeEvent :
              /\ audit' = Append(audit, rec) /\ unsent' = unsent \cup {ev}
              /\ rec.ns = ns /\ rec.key = k
              /\ rec.old = TextOf(data[ns][k]) /\ rec.new = TextOf(v)
              /\ rec = [ns |-> ev.ns, key |-> ev.key, old |-> ev.old, new |-> ev.new]
              /\ ev.ver = Len(audit) + 2
<1> DEFINE old == TextOf(data[ns][k])
           new == TextOf(v)
           rec == [ns |-> ns, key |-> k, old |-> old, new |-> new]
           ev  == [ns |-> ns, key |-> k, old |-> old, new |-> new, ver |-> Len(audit) + 2]
<1>1. old \in RawValues /\ new \in RawValues /\ Len(audit) + 2 \in Nat
  BY DataAssumption DEF MemTypeOK, TextOf, Overrides
<1>2. rec \in AuditRecord /\ ev \in ChangeEvent
  BY <1>1 DEF AuditRecord, ChangeEvent
<1>3. audit' = Append(audit, rec) /\ unsent' = unsent \cup {ev}
  BY DEF Write
<1>4. UNCHANGED <<watchers, wch, wState, wPanicked>>
  BY DEF Write
<1>5. data' \in [Namespaces -> Overrides]
  BY DEF Write, MemTypeOK, Overrides
<1>6. /\ data'[ns][k] = v
      /\ \A n \in Namespaces, j \in Keys : n # ns \/ j # k => data'[n][j] = data[n][j]
  BY DEF Write, MemTypeOK, Overrides
<1>7. MemTypeOK'
  BY <1>2, <1>3, <1>4, <1>5 DEF MemTypeOK
<1>8. /\ rec.ns = ns /\ rec.key = k /\ rec.old = old /\ rec.new = new
      /\ rec = [ns |-> ev.ns, key |-> ev.key, old |-> ev.old, new |-> ev.new]
      /\ ev.ver = Len(audit) + 2
  OBVIOUS
<1> QED
  BY <1>2, <1>3, <1>4, <1>6, <1>7, <1>8

\* Every step preserves the types.
LEMMA NextTypes ==
  ASSUME Types, [Next]_vars
  PROVE  Types'
<1> USE DEF Types, readerVars
<1>1. CASE Writers /\ UNCHANGED <<wDone, readerVars>>
  BY <1>1, WritersWrite, WriteEffect
<1>2. CASE Broadcasts /\ UNCHANGED <<wDone, readerVars>>
  <2>1. PICK ev \in unsent : Broadcast(ev)
    BY <1>2 DEF Broadcasts
  <2>2. wch' \in [Watchers -> Seq(ChangeEvent)]
    BY <2>1 DEF Broadcast, MemTypeOK
  <2> QED
    BY <1>2, <2>1, <2>2 DEF Broadcast, MemTypeOK
<1>3. ASSUME NEW w \in Watchers, Watch(w) \/ Cleanup(w), UNCHANGED readerVars
      PROVE  Types'
  BY <1>3 DEF Watch, Cleanup, WatchCleanup, MemTypeOK
<1>4. ASSUME NEW w \in Watchers, WatchRecv(w), UNCHANGED readerVars PROVE Types'
  <2>1. wch[w] \in Seq(ChangeEvent) /\ wch[w] # << >>
    BY <1>4 DEF WatchRecv, MemTypeOK
  <2>2. Tail(wch[w]) \in Seq(ChangeEvent)
    BY <2>1
  <2> QED
    BY <1>4, <2>2 DEF WatchRecv, MemTypeOK
<1>5. CASE (\E w \in Watchers : Cancel(w)) \/ UNCHANGED vars
  BY <1>5 DEF Cancel, vars, memVars, MemTypeOK
<1>6. CASE StartReading
  BY <1>6 DEF StartReading, memVars, MemTypeOK
<1>7. CASE ReadPage
  BY <1>7, UseAssumption DEF ReadPage, memVars, MemTypeOK
<1>8. ASSUME NEW w \in Watchers, Cleanup(w) PROVE UNCHANGED readerVars
  BY <1>8 DEF Cleanup
<1> QED
  BY <1>1, <1>2, <1>3, <1>4, <1>5, <1>6, <1>7, <1>8 DEF Next, StoreNext

-----------------------------------------------------------------------------
\* A step that is no write leaves the data, the trail and its numbers alone.
LEMMA NonWriteFrame ==
  ASSUME [Next]_vars, ~Writers
  PROVE  UNCHANGED <<data, audit>> /\ unsent' \subseteq unsent
BY DEF Next, StoreNext, Broadcasts, Broadcast, Watch, WatchRecv, Cancel, Cleanup,
       WatchCleanup, StartReading, ReadPage, vars, memVars

\* A genuine event stays genuine.
LEMMA GenuineKept ==
  ASSUME Types, [Next]_vars, NEW ev, Genuine(ev)
  PROVE  Genuine(ev)'
<1>1. CASE ~Writers
  BY <1>1, NonWriteFrame DEF Genuine
<1>2. CASE Writers
  <2>1. PICK rec \in AuditRecord : audit' = Append(audit, rec)
    BY <1>2, WritersWrite, WriteEffect DEF Types
  <2>2. /\ Len(audit) \in Nat /\ Len(audit') = Len(audit) + 1
        /\ \A i \in 1..Len(audit) : audit'[i] = audit[i]
    BY <2>1 DEF Types, MemTypeOK
  <2>3. ev.ver - 1 \in 1..Len(audit) /\ ev.ver \in 2..(Len(audit') + 1)
    BY <2>2 DEF Genuine
  <2> QED
    BY <2>2, <2>3 DEF Genuine
<1> QED
  BY <1>1, <1>2

\* The event a write leaves to be broadcast is genuine and has a new number.
LEMMA NextUnsent ==
  ASSUME Types, UnsentGenuine, [Next]_vars
  PROVE  UnsentGenuine'
<1> SUFFICES ASSUME NEW ev \in unsent' PROVE Genuine(ev)'
  BY DEF UnsentGenuine
<1>1. CASE ev \in unsent
  BY <1>1, GenuineKept DEF UnsentGenuine
<1>2. CASE ev \notin unsent
  <2>1. Writers
    BY <1>2, NonWriteFrame
  <2>2. PICK rec \in AuditRecord, new \in ChangeEvent :
          /\ audit' = Append(audit, rec) /\ unsent' = unsent \cup {new}
          /\ rec = [ns |-> new.ns, key |-> new.key, old |-> new.old, new |-> new.new]
          /\ new.ver = Len(audit) + 2
    BY <2>1, WritersWrite, WriteEffect DEF Types
  <2>3. ev = new
    BY <1>2, <2>2
  <2>4. /\ Len(audit) \in Nat /\ Len(audit') = Len(audit) + 1
        /\ audit'[Len(audit) + 1] = rec
    BY <2>2 DEF Types, MemTypeOK
  <2>5. ev.ver - 1 = Len(audit) + 1 /\ ev.ver \in 2..(Len(audit') + 1)
    BY <2>2, <2>3, <2>4
  <2> QED
    BY <2>2, <2>3, <2>4, <2>5 DEF Genuine
<1> QED
  BY <1>1, <1>2

\* Genuine events with the same number are the same event.
LEMMA GenuineUnique ==
  ASSUME NEW e \in ChangeEvent, NEW f \in ChangeEvent, Genuine(e), Genuine(f),
         e.ver = f.ver
  PROVE  e = f
<1>1. [ns |-> e.ns, key |-> e.key, old |-> e.old, new |-> e.new] =
      [ns |-> f.ns, key |-> f.key, old |-> f.old, new |-> f.new]
  BY DEF Genuine
<1>2. e.ns = f.ns /\ e.key = f.key /\ e.old = f.old /\ e.new = f.new
  BY <1>1
<1> QED
  BY <1>2 DEF ChangeEvent

\* A step receives from a queue, broadcasts into it, or leaves it alone.
LEMMA QueueSteps ==
  ASSUME Types, [Next]_vars, NEW w \in Watchers
  PROVE  \/ wch'[w] = wch[w]
         \/ wch[w] # << >> /\ wch'[w] = Tail(wch[w])
         \/ \E ev \in unsent : /\ ev.ns = WatchNs[w]
                               /\ wch'[w] = Append(wch[w], ev)
                               /\ unsent' = unsent \ {ev}
<1>0. wch \in [Watchers -> Seq(ChangeEvent)]
  BY DEF Types, MemTypeOK
<1>1. CASE Writers
  BY <1>1, WritersWrite, WriteEffect DEF Types
<1>2. CASE Broadcasts
  <2>1. PICK ev \in unsent : Broadcast(ev)
    BY <1>2 DEF Broadcasts
  <2> QED
    BY <1>0, <2>1 DEF Broadcast
<1>3. ASSUME NEW v \in Watchers, WatchRecv(v)
      PROVE  wch'[w] = wch[w] \/ (wch[w] # << >> /\ wch'[w] = Tail(wch[w]))
  BY <1>0, <1>3 DEF WatchRecv
<1>4. CASE ~Writers /\ ~Broadcasts /\ ~(\E v \in Watchers : WatchRecv(v))
  BY <1>4 DEF Next, StoreNext, Watch, Cancel, Cleanup, WatchCleanup, StartReading,
              ReadPage, vars, memVars
<1> QED
  BY <1>1, <1>2, <1>3, <1>4

\* An event with an old number never becomes unsent again.
LEMMA SentStaysSent ==
  ASSUME Types, [Next]_vars, NEW ev, Genuine(ev), ev \notin unsent
  PROVE  ev \notin unsent'
<1>1. CASE ~Writers
  BY <1>1, NonWriteFrame
<1>2. CASE Writers
  <2>1. PICK new \in ChangeEvent : unsent' = unsent \cup {new} /\ new.ver = Len(audit) + 2
    BY <1>2, WritersWrite, WriteEffect DEF Types
  <2>2. ev.ver # new.ver
    BY <2>1 DEF Genuine, Types, MemTypeOK
  <2> QED
    BY <2>1, <2>2
<1> QED
  BY <1>1, <1>2

\* What the invariant says of one element of a watch channel.
Queued(w, ev) == Genuine(ev) /\ ev.ns = WatchNs[w] /\ ev \notin unsent

\* QueuedGenuine and EventsGenuine, channel by channel.
QueueOK(w) ==
  /\ \A i \in 1..Len(wch[w]) : Queued(w, wch[w][i])
  /\ \A i, j \in 1..Len(wch[w]) : i # j => wch[w][i].ver # wch[w][j].ver

\* The two invariants together are QueueOK of every channel.
LEMMA QueueOKMeaning ==
  QueuedGenuine /\ EventsGenuine <=> \A w \in Watchers : QueueOK(w)
<1>1. ASSUME QueuedGenuine, EventsGenuine, NEW w \in Watchers PROVE QueueOK(w)
  BY <1>1 DEF QueuedGenuine, EventsGenuine, QueueOK, Queued
<1>2. ASSUME NEW w \in Watchers, QueueOK(w)
      PROVE  /\ \A i \in 1..Len(wch[w]) : Genuine(wch[w][i])
             /\ \A i \in 1..Len(wch[w]) :
                  LET ev == wch[w][i]
                  IN  /\ ev.ns = WatchNs[w]
                      /\ ev \notin unsent
                      /\ audit[ev.ver - 1] =
                           [ns |-> ev.ns, key |-> ev.key, old |-> ev.old, new |-> ev.new]
             /\ \A i, j \in 1..Len(wch[w]) : i # j => wch[w][i].ver # wch[w][j].ver
  BY <1>2 DEF QueueOK, Queued, Genuine
<1> QED
  BY <1>1, <1>2 DEF QueuedGenuine, EventsGenuine

\* An event that satisfies Queued goes on to do so.
LEMMA QueuedKept ==
  ASSUME Types, [Next]_vars, NEW w \in Watchers, NEW ev, Queued(w, ev)
  PROVE  Queued(w, ev)'
BY GenuineKept, SentStaysSent DEF Queued

\* Every step preserves QueueOK.
LEMMA NextQueue ==
  ASSUME Types, UnsentGenuine, [Next]_vars, NEW w \in Watchers, QueueOK(w)
  PROVE  QueueOK(w)'
<1> DEFINE q == wch[w]
<1>0. q \in Seq(ChangeEvent) /\ Len(q) \in Nat
  BY DEF Types, MemTypeOK
<1>1. ASSUME NEW i \in 1..Len(q), NEW j \in 1..Len(q'), q'[j] = q[i]
      PROVE  Queued(w, q[j])'
  <2>1. PICK ev : ev = q[i]
    OBVIOUS
  <2>2. Queued(w, ev)'
    BY <2>1, QueuedKept DEF QueueOK
  <2> QED
    BY <1>1, <2>1, <2>2 DEF Queued, Genuine
<1>2. CASE q' = q
  <2>1. \A i \in 1..Len(q') : Queued(w, q[i])'
    BY <1>1, <1>2
  <2> QED
    BY <1>2, <2>1 DEF QueueOK
<1>3. CASE q # << >> /\ q' = Tail(q)
  <2>1. /\ Len(q') = Len(q) - 1
        /\ \A i \in 1..Len(q') : q'[i] = q[i + 1] /\ i + 1 \in 1..Len(q)
    BY <1>0, <1>3
  <2>2. \A i \in 1..Len(q') : Queued(w, q[i])'
    BY <1>1, <2>1
  <2>3. ASSUME NEW i \in 1..Len(q'), NEW j \in 1..Len(q'), i # j
        PROVE  q'[i].ver # q'[j].ver
    <3>1. i + 1 \in 1..Len(q) /\ j + 1 \in 1..Len(q) /\ i + 1 # j + 1
      BY <2>1, <2>3
    <3> QED
      BY <2>1, <3>1 DEF QueueOK
  <2> QED
    BY <2>2, <2>3 DEF QueueOK
<1>4. ASSUME NEW ev \in unsent, ev.ns = WatchNs[w], q' = Append(q, ev),
             unsent' = unsent \ {ev}
      PROVE  QueueOK(w)'
  <2>1. /\ Len(q') = Len(q) + 1 /\ q'[Len(q) + 1] = ev
        /\ \A i \in 1..Len(q) : q'[i] = q[i]
    BY <1>0, <1>4
  <2>2. Genuine(ev) /\ ev \in ChangeEvent
    BY DEF UnsentGenuine, Types, MemTypeOK
  <2>3. Genuine(ev)' /\ ev \notin unsent'
    BY <1>4, <2>2, GenuineKept
  <2>4. \A i \in 1..Len(q) : q[i].ver # ev.ver
    <3> SUFFICES ASSUME NEW i \in 1..Len(q), q[i].ver = ev.ver PROVE FALSE
      OBVIOUS
    <3>1. Queued(w, q[i]) /\ q[i] \in ChangeEvent
      BY <1>0 DEF QueueOK
    <3>2. q[i] = ev
      BY <2>2, <3>1, GenuineUnique DEF Queued
    <3> QED
      BY <3>1, <3>2 DEF Queued
  <2>5. ASSUME NEW i \in 1..Len(q') PROVE i \in 1..Len(q) \/ i = Len(q) + 1
    BY <1>0, <2>1
  <2>6. ASSUME NEW i \in 1..Len(q') PROVE Queued(w, q[i])'
    <3>1. CASE i \in 1..Len(q)
      BY <1>1, <2>1, <3>1
    <3>2. CASE i = Len(q) + 1
      BY <1>4, <2>1, <2>3, <3>2 DEF Queued, Genuine
    <3> QED
      BY <2>5, <3>1, <3>2
  <2>7. \A i, j \in 1..Len(q') : i # j => q'[i].ver # q'[j].ver
    BY <2>1, <2>4, <2>5 DEF QueueOK
  <2> QED
    BY <2>6, <2>7 DEF QueueOK
<1> QED
  BY <1>2, <1>3, <1>4, QueueSteps

-----------------------------------------------------------------------------
\* A write adds the newest id to its own key and none to any other.
LEMMA IdsAfterWrite ==
  ASSUME Types, NEW rec \in AuditRecord, audit' = Append(audit, rec),
         NEW n \in Namespaces, NEW j \in Keys
  PROVE  MatchingIds(n, j)' = IF rec.ns = n /\ rec.key = j
                              THEN MatchingIds(n, j) \cup {Len(audit) + 1}
                              ELSE MatchingIds(n, j)
<1>1. /\ Len(audit) \in Nat /\ Len(audit') = Len(audit) + 1
      /\ \A i \in 1..Len(audit) : audit'[i] = audit[i]
      /\ audit'[Len(audit) + 1] = rec
  BY DEF Types, MemTypeOK
<1>2. 1..Len(audit') = 1..Len(audit) \cup {Len(audit) + 1}
  BY <1>1
<1>3. Len(audit) + 1 \notin 1..Len(audit)
  BY <1>1
<1> QED
  BY <1>1, <1>2, <1>3 DEF MatchingIds

\* What LastNew says of old records does not change.
LEMMA LastNewKept ==
  ASSUME Types, NEW rec \in AuditRecord, audit' = Append(audit, rec),
         NEW text, NEW ids \in SUBSET (1..Len(audit)), LastNew(text, ids)
  PROVE  LastNew(text, ids)'
<1>1. \A i \in 1..Len(audit) : audit'[i] = audit[i]
  BY DEF Types, MemTypeOK
<1> QED
  BY <1>1 DEF LastNew

\* The old value a write records is the one the last record left.
LEMMA NextAudit ==
  ASSUME Types, AuditExplainsData, [Next]_vars
  PROVE  AuditExplainsData'
<1>1. CASE ~Writers
  BY <1>1, NonWriteFrame DEF AuditExplainsData, MatchingIds, LastNew, MemGet
<1>2. CASE Writers
  <2>1. PICK ns \in Namespaces, k \in Keys, v \in RawValues \cup {Absent} : Write(ns, k, v)
    BY <1>2, WritersWrite
  <2>2. PICK rec \in AuditRecord :
          /\ audit' = Append(audit, rec)
          /\ rec.ns = ns /\ rec.key = k
          /\ rec.old = TextOf(data[ns][k]) /\ rec.new = TextOf(v)
    BY <2>1, WriteEffect DEF Types
  <2>3. /\ data'[ns][k] = v
        /\ \A n \in Namespaces, j \in Keys : n # ns \/ j # k => data'[n][j] = data[n][j]
    BY <2>1, WriteEffect DEF Types
  <2>4. /\ Len(audit) \in Nat /\ Len(audit') = Len(audit) + 1
        /\ \A i \in 1..Len(audit) : audit'[i] = audit[i]
        /\ audit'[Len(audit) + 1] = rec
    BY <2>2 DEF Types, MemTypeOK
  <2> SUFFICES ASSUME NEW n \in Namespaces, NEW j \in Keys
               PROVE  /\ \A i \in MatchingIds(n, j)' :
                           LastNew(audit[i].old, {m \in MatchingIds(n, j) : m < i})'
                      /\ LastNew(TextOf(MemGet(n, j)), MatchingIds(n, j))'
    BY DEF AuditExplainsData
  <2> DEFINE ids == MatchingIds(n, j)
  <2>5. /\ ids \subseteq 1..Len(audit)
        /\ \A i \in ids : LastNew(audit[i].old, {m \in ids : m < i})
        /\ LastNew(TextOf(data[n][j]), ids)
    BY DEF AuditExplainsData, MatchingIds, MemGet
  <2>6. \A i \in ids : {m \in ids' : m < i} = {m \in ids : m < i}
    <3>1. Len(audit) + 1 \notin ids /\ \A i \in ids : ~(Len(audit) + 1 < i)
      BY <2>4, <2>5
    <3> QED
      BY <2>2, <3>1, IdsAfterWrite
  <2>7. ASSUME NEW i \in ids
        PROVE  LastNew(audit[i].old, {m \in ids : m < i})'
    <3>1. PICK text : text = audit[i].old
      OBVIOUS
    <3>2. PICK old \in SUBSET (1..Len(audit)) : old = {m \in ids : m < i}
      BY <2>5
    <3>3. LastNew(text, old)'
      BY <2>2, <2>5, <3>1, <3>2, LastNewKept
    <3>4. text = audit'[i].old /\ old = {m \in ids' : m < i}
      BY <2>4, <2>5, <2>6, <3>1, <3>2
    <3> QED
      BY <3>3, <3>4 DEF LastNew
  <2>8. CASE n = ns /\ j = k
    <3>1. ids' = ids \cup {Len(audit) + 1}
      BY <2>2, <2>8, IdsAfterWrite
    <3>2. LastNew(TextOf(MemGet(n, j)), MatchingIds(n, j))'
      <4>1. \A m \in ids' : m <= Len(audit) + 1
        BY <2>4, <2>5, <3>1
      <4>2. TextOf(data'[n][j]) = audit'[Len(audit) + 1].new
        BY <2>2, <2>3, <2>4, <2>8
      <4> QED
        BY <3>1, <4>1, <4>2 DEF LastNew, MemGet, TextOf
    <3>3. LastNew(audit[Len(audit)].old, {m \in ids : m < Len(audit)})'
      <4>1. PICK text : text = TextOf(data[n][j])
        OBVIOUS
      <4>2. PICK old \in SUBSET (1..Len(audit)) : old = ids
        BY <2>5
      <4>3. LastNew(text, old)'
        BY <2>2, <2>5, <4>1, <4>2, LastNewKept
      <4>4. old = {m \in ids' : m < Len(audit)'} /\ text = audit'[Len(audit')].old
        BY <2>2, <2>4, <2>5, <2>8, <3>1, <4>1, <4>2
      <4> QED
        BY <4>3, <4>4 DEF LastNew
    <3> QED
      BY <2>4, <2>7, <3>1, <3>2, <3>3
  <2>9. CASE ~(n = ns /\ j = k)
    <3>1. ids' = ids /\ data'[n][j] = data[n][j]
      BY <2>2, <2>3, <2>9, IdsAfterWrite
    <3>2. PICK text : text = TextOf(data[n][j])
      OBVIOUS
    <3>3. PICK old \in SUBSET (1..Len(audit)) : old = ids
      BY <2>5
    <3>4. LastNew(text, old)'
      BY <2>2, <2>5, <3>2, <3>3, LastNewKept
    <3>5. LastNew(TextOf(MemGet(n, j)), MatchingIds(n, j))'
      BY <3>1, <3>2, <3>3, <3>4 DEF LastNew, MemGet, TextOf
    <3> QED
      BY <2>7, <3>1, <3>5
  <2> QED
    BY <2>8, <2>9
<1> QED
  BY <1>1, <1>2

-----------------------------------------------------------------------------
(***************************************************************************)
(* A non-empty set of ids has a greatest and a least element.  The sets    *)
(* {z \in G : z >= y} are finite, so one of them is minimal under strict   *)
(* inclusion, and its y is the greatest element; likewise for the least.   *)
(***************************************************************************)
LEMMA MinimalSubset ==
  ASSUME NEW S, IsFiniteSet(S), NEW F, \A X \in F : X \subseteq S, F # {}
  PROVE  \E X \in F : \A Y \in F : ~(Y \subseteq X /\ Y # X)
<1>1. F \subseteq FiniteSubsetsOf(S)
  BY FS_FiniteSubsetsOfFinite
<1>2. IsWellFoundedOn(StrictSubsetOrdering(S), FiniteSubsetsOf(S))
  BY FS_StrictSubsetOrderingWellFounded
<1>3. PICK X \in F : \A Y \in F : ~(<<Y, X>> \in StrictSubsetOrdering(S))
  BY <1>1, <1>2, WFMin
<1> QED
  BY <1>3 DEF StrictSubsetOrdering

\* The greatest element.
LEMMA Greatest ==
  ASSUME NEW n \in Nat, NEW G \in SUBSET (1..n), G # {}
  PROVE  \E m \in G : \A z \in G : z <= m
<1> DEFINE Up(y) == {z \in G : z >= y}
           F == {Up(y) : y \in G}
<1>1. PICK X \in F : \A Y \in F : ~(Y \subseteq X /\ Y # X)
  <2>1. (\A X \in F : X \subseteq G) /\ F # {}
    OBVIOUS
  <2>2. IsFiniteSet(G)
    <3>1. IsFiniteSet(1..n)
      BY FS_Interval
    <3> QED
      BY <3>1, FS_Subset
  <2> HIDE DEF F
  <2> QED
    BY <2>1, <2>2, MinimalSubset
<1>2. PICK m \in G : X = Up(m)
  OBVIOUS
<1>3. ASSUME NEW z \in G, ~(z <= m) PROVE FALSE
  <2>1. z > m /\ z \in Int /\ m \in Int /\ \A y \in G : y \in Int
    BY <1>3
  <2>2. \A y \in Up(z) : y \in Up(m)
    BY <2>1
  <2>3. m \in Up(m) /\ m \notin Up(z)
    BY <2>1
  <2>4. Up(z) \in F /\ Up(z) \subseteq X /\ Up(z) # X
    BY <1>2, <2>2, <2>3
  <2> QED
    BY <1>1, <2>4
<1> QED
  BY <1>3

\* The least element.
LEMMA Least ==
  ASSUME NEW n \in Nat, NEW G \in SUBSET (1..n), G # {}
  PROVE  \E m \in G : \A z \in G : m <= z
<1> DEFINE Down(y) == {z \in G : z <= y}
           F == {Down(y) : y \in G}
<1>1. PICK X \in F : \A Y \in F : ~(Y \subseteq X /\ Y # X)
  <2>1. (\A X \in F : X \subseteq G) /\ F # {}
    OBVIOUS
  <2>2. IsFiniteSet(G)
    <3>1. IsFiniteSet(1..n)
      BY FS_Interval
    <3> QED
      BY <3>1, FS_Subset
  <2> HIDE DEF F
  <2> QED
    BY <2>1, <2>2, MinimalSubset
<1>2. PICK m \in G : X = Down(m)
  OBVIOUS
<1>3. ASSUME NEW z \in G, ~(m <= z) PROVE FALSE
  <2>1. z < m /\ z \in Int /\ m \in Int /\ \A y \in G : y \in Int
    BY <1>3
  <2>2. \A y \in Down(z) : y \in Down(m)
    BY <2>1
  <2>3. m \in Down(m) /\ m \notin Down(z)
    BY <2>1
  <2>4. Down(z) \in F /\ Down(z) \subseteq X /\ Down(z) # X
    BY <1>2, <2>2, <2>3
  <2> QED
    BY <1>1, <2>4
<1> QED
  BY <1>3

-----------------------------------------------------------------------------
\* Ids of a key, and the newer ones among them, are finite sets.
LEMMA IdsFinite ==
  ASSUME MemTypeOK, NEW n, NEW k, NEW x
  PROVE  /\ MatchingIds(n, k) \in SUBSET (1..Len(audit)) /\ Len(audit) \in Nat
         /\ IsFiniteSet(NewerIds(n, k, x)) /\ Cardinality(NewerIds(n, k, x)) \in Nat
<1>1. Len(audit) \in Nat
  BY DEF MemTypeOK
<1>2. IsFiniteSet(1..Len(audit))
  BY <1>1, FS_Interval
<1>3. NewerIds(n, k, x) \in SUBSET (1..Len(audit)) /\ MatchingIds(n, k) \in SUBSET (1..Len(audit))
  BY DEF NewerIds, MatchingIds
<1>4. IsFiniteSet(NewerIds(n, k, x))
  BY <1>2, <1>3, FS_Subset
<1> QED
  BY <1>1, <1>3, <1>4, FS_CardinalityType

(***************************************************************************)
(* If some record has off or more newer ones of its key, then one has      *)
(* exactly off: the page that starts there is not empty.                   *)
(***************************************************************************)
LEMMA PageReached ==
  ASSUME MemTypeOK, NEW n, NEW k, NEW off \in Nat, NEW x \in MatchingIds(n, k),
         Cardinality(NewerIds(n, k, x)) >= off
  PROVE  \E i \in MatchingIds(n, k) : Cardinality(NewerIds(n, k, i)) = off
<1> DEFINE ids  == MatchingIds(n, k)
           N(i) == NewerIds(n, k, i)
           G    == {y \in ids : Cardinality(N(y)) >= off}
<1>1. /\ ids \in SUBSET (1..Len(audit)) /\ Len(audit) \in Nat
      /\ \A i : IsFiniteSet(N(i)) /\ Cardinality(N(i)) \in Nat
  BY IdsFinite
<1>2. \A i, j : j \in N(i) <=> j \in ids /\ j > i
  BY DEF NewerIds
<1>3. PICK i \in G : \A z \in G : z <= i
  <2>1. G \in SUBSET (1..Len(audit)) /\ G # {}
    BY <1>1
  <2> HIDE DEF G
  <2> QED
    BY <1>1, <2>1, Greatest
<1>4. i \in ids /\ Cardinality(N(i)) >= off
  BY <1>3
<1>5. CASE N(i) = {}
  <2>1. Cardinality(N(i)) = 0
    BY <1>5, FS_EmptySet
  <2>2. off = 0
    BY <1>4, <2>1
  <2> QED
    BY <1>4, <2>1, <2>2
<1>6. CASE N(i) # {}
  <2>1. PICK j \in N(i) : \A z \in N(i) : j <= z
    <3>1. N(i) \in SUBSET (1..Len(audit))
      BY <1>1, <1>2
    <3> HIDE DEF N
    <3> QED
      BY <1>1, <1>6, <3>1, Least
  <2>2. j \in ids /\ j > i /\ \A z \in ids : z \in Int
    BY <1>1, <1>2, <2>1
  <2>3. \A z : z \in N(i) <=> z \in N(j) \cup {j}
    BY <1>2, <1>4, <2>1, <2>2
  <2>4. j \notin N(j)
    BY <1>2, <2>2
  <2>5. Cardinality(N(i)) = Cardinality(N(j)) + 1
    <3>1. N(i) = N(j) \cup {j}
      BY <2>3
    <3> QED
      BY <1>1, <2>4, <3>1, FS_AddElement
  <2>6. ~(Cardinality(N(j)) >= off)
    BY <1>3, <1>4, <2>2
  <2>7. Cardinality(N(i)) = off
    BY <1>1, <1>4, <2>5, <2>6
  <2> QED
    BY <1>4, <2>7
<1> QED
  BY <1>5, <1>6

\* A record only moves to later pages.
LEMMA RecordsSink ==
  ASSUME Types, Types', [Next]_vars, NEW n \in Namespaces, NEW k \in Keys,
         NEW x \in MatchingIds(n, k)
  PROVE  /\ x \in MatchingIds(n, k)'
         /\ Cardinality(NewerIds(n, k, x)) <= Cardinality(NewerIds(n, k, x)')
         /\ Cardinality(NewerIds(n, k, x)') \in Nat
<1>1. MatchingIds(n, k) \subseteq MatchingIds(n, k)'
  <2>1. CASE ~Writers
    BY <2>1, NonWriteFrame DEF MatchingIds
  <2>2. CASE Writers
    <3>1. PICK rec \in AuditRecord : audit' = Append(audit, rec)
      BY <2>2, WritersWrite, WriteEffect DEF Types
    <3> QED
      BY <3>1, IdsAfterWrite
  <2> QED
    BY <2>1, <2>2
<1>2. NewerIds(n, k, x) \in SUBSET (NewerIds(n, k, x)')
  BY <1>1 DEF NewerIds
<1>3. IsFiniteSet(NewerIds(n, k, x)')
  <2>1. Len(audit') \in Nat
    BY DEF Types, MemTypeOK
  <2>2. IsFiniteSet(1..Len(audit'))
    BY <2>1, FS_Interval
  <2>3. NewerIds(n, k, x)' \in SUBSET (1..Len(audit'))
    BY DEF NewerIds, MatchingIds
  <2> QED
    BY <2>2, <2>3, FS_Subset
<1>4. Cardinality(NewerIds(n, k, x)) <= Cardinality(NewerIds(n, k, x)')
  BY <1>2, <1>3, FS_Subset
<1> QED
  BY <1>1, <1>3, <1>4, FS_CardinalityType

\* What a page holds, for a reader with a natural offset and a positive limit.
LEMMA PageMeaning ==
  ASSUME Types, NEW n, NEW k
  PROVE  History(n, k, PageSize, offset) =
           {i \in MatchingIds(n, k) :
              Cardinality(NewerIds(n, k, i)) \in offset..(offset + PageSize - 1)}
<1>1. NormalOffset(offset) = offset /\ NormalLimit(PageSize) = PageSize
  BY UseAssumption DEF Types, NormalOffset, NormalLimit
<1> QED
  BY <1>1 DEF History, Page

(***************************************************************************)
(* The reader's invariant: writes only sink records, a page adds the       *)
(* records that come next, and an empty page is past the last record.      *)
(***************************************************************************)
LEMMA NextPaged ==
  ASSUME Types, Types', PagedIsSeen, PagingMissesNothing, [Next]_vars
  PROVE  PagedIsSeen' /\ PagingMissesNothing'
<1> DEFINE n == PageKey[1]
           k == PageKey[2]
           Card(x) == Cardinality(NewerIds(n, k, x))
<1>0. n \in Namespaces /\ k \in Keys /\ PageSize \in Nat \ {0} /\ offset \in Nat
  BY UseAssumption DEF Types
<1>1. CASE UNCHANGED readerVars
  <2>1. UNCHANGED <<reading, offset, seen, expected>>
    BY <1>1 DEF readerVars
  <2>2. PagingMissesNothing'
    BY <2>1 DEF PagingMissesNothing
  <2>3. ASSUME reading = "paging", NEW x \in expected
        PROVE  /\ x \in MatchingIds(n, k)'
               /\ Card(x)' < offset => x \in seen
    <3>1. x \in MatchingIds(n, k) /\ (Card(x) < offset => x \in seen)
      BY <2>3 DEF PagedIsSeen
    <3>2. x \in MatchingIds(n, k)' /\ Card(x) <= Card(x)' /\ Card(x)' \in Nat
      BY <1>0, <3>1, RecordsSink
    <3>3. Card(x) \in Nat
      BY IdsFinite DEF Types
    <3> HIDE DEF Card
    <3> QED
      BY <1>0, <3>1, <3>2, <3>3
  <2> QED
    BY <2>1, <2>2, <2>3 DEF PagedIsSeen
<1>2. CASE StartReading
  <2>1. /\ expected' = MatchingIds(n, k) /\ reading' = "paging"
        /\ offset' = offset /\ audit' = audit /\ offset = 0
    BY <1>2 DEF StartReading, memVars, PagedIsSeen
  <2>2. \A x : MatchingIds(n, k)' = MatchingIds(n, k) /\ Card(x)' = Card(x)
    BY <2>1 DEF MatchingIds, NewerIds
  <2>3. ASSUME NEW x PROVE ~(Card(x) < 0)
    BY IdsFinite DEF Types
  <2> QED
    BY <2>1, <2>2, <2>3 DEF PagedIsSeen, PagingMissesNothing
<1>3. CASE ReadPage
  <2> DEFINE page == History(n, k, PageSize, offset)
  <2>1. /\ reading = "paging" /\ seen' = seen \cup page
        /\ offset' = offset + PageSize
        /\ reading' = IF page = {} THEN "finished" ELSE "paging"
        /\ audit' = audit /\ expected' = expected
    BY <1>3 DEF ReadPage, memVars
  <2>2. \A x : MatchingIds(n, k)' = MatchingIds(n, k) /\ Card(x)' = Card(x)
    BY <2>1 DEF MatchingIds, NewerIds
  <2>3. page = {i \in MatchingIds(n, k) : Card(i) \in offset..(offset + PageSize - 1)}
    BY PageMeaning
  <2>4. ASSUME NEW x \in expected
        PROVE  /\ x \in MatchingIds(n, k) /\ Card(x) \in Nat
               /\ Card(x) < offset => x \in seen
    BY <2>1, <2>4, IdsFinite DEF PagedIsSeen, Types
  <2>5. ASSUME NEW x \in expected, Card(x) < offset + PageSize PROVE x \in seen'
    <3>1. CASE Card(x) < offset
      BY <2>1, <2>4, <3>1
    <3>2. CASE ~(Card(x) < offset)
      <4>1. Card(x) \in offset..(offset + PageSize - 1)
        <5>1. Card(x) \in Nat
          BY <2>4
        <5> HIDE DEF Card
        <5> QED
          BY <1>0, <2>5, <3>2, <5>1
      <4>2. x \in page
        BY <2>3, <2>4, <4>1
      <4> QED
        BY <2>1, <4>2
    <3> QED
      BY <3>1, <3>2
  <2>6. ASSUME page = {}, NEW x \in expected PROVE x \in seen
    <3>1. CASE Card(x) < offset
      BY <2>4, <3>1
    <3>2. CASE ~(Card(x) < offset)
      <4>1. Card(x) >= offset
        <5>1. Card(x) \in Nat
          BY <2>4
        <5> HIDE DEF Card
        <5> QED
          BY <1>0, <3>2, <5>1
      <4>2. PICK i \in MatchingIds(n, k) : Card(i) = offset
        <5>1. MemTypeOK /\ x \in MatchingIds(n, k)
          BY <2>4 DEF Types
        <5> QED
          BY <1>0, <4>1, <5>1, PageReached
      <4>3. offset \in offset..(offset + PageSize - 1)
        BY <1>0
      <4>4. i \in page
        BY <2>3, <4>2, <4>3
      <4> QED
        BY <2>6, <4>4
    <3> QED
      BY <3>1, <3>2
  <2>7. PagingMissesNothing'
    <3> HIDE DEF page
    <3> QED
      BY <2>1, <2>6 DEF PagingMissesNothing
  <2>8. PagedIsSeen'
    <3> HIDE DEF page
    <3> QED
      BY <2>1, <2>2, <2>4, <2>5 DEF PagedIsSeen
  <2> QED
    BY <2>7, <2>8
<1>4. StoreNext \/ (\E w \in Watchers : Cancel(w) \/ Cleanup(w)) \/ UNCHANGED vars
        => UNCHANGED readerVars
  BY DEF StoreNext, Cancel, Cleanup, vars
<1> QED
  BY <1>1, <1>2, <1>3, <1>4 DEF Next

-----------------------------------------------------------------------------
\* The invariant holds in an empty store that nobody reads.
LEMMA InitUseInv == Init => UseInv
<1> SUFFICES ASSUME Init PROVE UseInv
  OBVIOUS
<1> USE DEF Init, MemInit
<1>1. Types
  <2>1. data \in [Namespaces -> Overrides]
    BY DEF NoOverrides, Overrides
  <2>2. wch \in [Watchers -> Seq(ChangeEvent)] /\ audit \in Seq(AuditRecord)
    OBVIOUS
  <2> QED
    BY <2>1, <2>2 DEF Types, MemTypeOK
<1>2. \A w \in Watchers : Len(wch[w]) = 0
  OBVIOUS
<1>3. UnsentGenuine /\ QueuedGenuine /\ EventsGenuine
  BY <1>2 DEF UnsentGenuine, QueuedGenuine, EventsGenuine
<1>4. AuditExplainsData
  <2>1. ASSUME NEW ns \in Namespaces, NEW k \in Keys
        PROVE  MatchingIds(ns, k) = {} /\ TextOf(MemGet(ns, k)) = Empty
    BY DEF MatchingIds, MemGet, TextOf, NoOverrides
  <2> QED
    BY <2>1 DEF AuditExplainsData, LastNew
<1>5. PagedIsSeen /\ PagingMissesNothing
  BY DEF PagedIsSeen, PagingMissesNothing
<1> QED
  BY <1>1, <1>3, <1>4, <1>5 DEF UseInv

\* Every step preserves the invariant.
LEMMA NextUseInv == UseInv /\ [Next]_vars => UseInv'
<1> SUFFICES ASSUME UseInv, [Next]_vars PROVE UseInv'
  OBVIOUS
<1> USE DEF UseInv
<1>1. Types'
  BY NextTypes
<1>2. UnsentGenuine'
  BY NextUnsent
<1>3. QueuedGenuine' /\ EventsGenuine'
  <2>1. \A w \in Watchers : QueueOK(w)
    BY QueueOKMeaning
  <2>2. \A w \in Watchers : QueueOK(w)'
    BY <2>1, NextQueue
  <2>3. (\A w \in Watchers : QueueOK(w))'
    BY <2>2
  <2> QED
    BY <2>3, QueueOKMeaning, PTL
<1>4. AuditExplainsData'
  BY NextAudit
<1>5. PagedIsSeen' /\ PagingMissesNothing'
  BY <1>1, NextPaged
<1> QED
  BY <1>1, <1>2, <1>3, <1>4, <1>5

\* UseInv holds in every reachable state.
LEMMA UseInvariance == Spec => []UseInv
BY InitUseInv, NextUseInv, PTL DEF Spec

(***************************************************************************)
(* Watch channels carry genuine changes of their namespace, none twice,    *)
(* for any number of writers, watchers and namespaces and any buffer.      *)
(***************************************************************************)
THEOREM EventsAreGenuine == Spec => []EventsGenuine
<1>1. UseInv => EventsGenuine
  BY DEF UseInv
<1> QED
  BY <1>1, UseInvariance, PTL

(***************************************************************************)
(* The audit trail of a MemStore tells the whole story of every key,       *)
(* however concurrent Sets and Deletes are ordered.                        *)
(***************************************************************************)
THEOREM AuditTellsStory == Spec => []AuditExplainsData
<1>1. UseInv => AuditExplainsData
  BY DEF UseInv
<1> QED
  BY <1>1, UseInvariance, PTL

(***************************************************************************)
(* Paging through History by offset misses no record that existed when the *)
(* reader began, for every page size, while writers go on.                 *)
(***************************************************************************)
THEOREM PagingIsComplete == Spec => []PagingMissesNothing
<1>1. UseInv => PagingMissesNothing
  BY DEF UseInv
<1> QED
  BY <1>1, UseInvariance, PTL

=============================================================================
