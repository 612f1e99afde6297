--------------------------- MODULE LiveMemProofs ---------------------------
(***************************************************************************)
(* Proofs about the Provider on a MemStore: type correctness and the       *)
(* absence of lost wakeups, for every value of the constants.              *)
(***************************************************************************)
EXTENDS LiveMem, TLAPS

(***************************************************************************)
(* applyOverrides always returns a complete config struct.                 *)
(***************************************************************************)
LEMMA ApplyOverridesTotal ==
  ASSUME NEW ovr \in Overrides
  PROVE  ApplyOverrides(ovr) \in Config
<1> SUFFICES ASSUME NEW k \in Keys
             PROVE  ApplyOverrides(ovr)[k] \in FieldValues
  BY DEF ApplyOverrides, Config
<1>1. TextOf(ovr[k]) \in RawValues
  BY DataAssumption DEF TextOf, Overrides
<1>2. Parse[k][TextOf(ovr[k])] \in FieldValues \cup {Invalid}
  BY <1>1, DataAssumption
<1> QED
  BY <1>2, DataAssumption DEF ApplyOverrides

\* What a write records, and the event it leaves to be broadcast.
LEMMA WriteEffect ==
  ASSUME MemTypeOK, NEW ns \in Namespaces, NEW k \in Keys,
         NEW v \in RawValues \cup {Absent}, Write(ns, k, v)
  PROVE  /\ MemTypeOK'
         /\ \E rec \in AuditRecord : audit' = Append(audit, rec) /\ rec.ns = ns
         /\ \E ev \in ChangeEvent : unsent' = unsent \cup {ev} /\ ev.ns = ns
         /\ UNCHANGED <<watchers, wch, wState, wPanicked>>
<1> DEFINE old == TextOf(data[ns][k])
           new == TextOf(v)
           rec == [ns |-> ns, key |-> k, old |-> old, new |-> new]
           ev  == [ns |-> ns, key |-> k, old |-> old, new |-> new, ver |-> Len(audit) + 2]
<1>1. old \in RawValues /\ new \in RawValues
  BY DataAssumption DEF MemTypeOK, TextOf, Overrides
<1>2. rec \in AuditRecord
  BY <1>1 DEF AuditRecord
<1>3. Len(audit) + 2 \in Nat
  BY DEF MemTypeOK
<1>4. ev \in ChangeEvent
  BY <1>1, <1>3 DEF ChangeEvent
<1>5. audit' = Append(audit, rec) /\ unsent' = unsent \cup {ev}
  BY DEF Write
<1>6. data' \in [Namespaces -> Overrides]
  BY DEF Write, MemTypeOK, Overrides
<1>7. UNCHANGED <<watchers, wch, wState, wPanicked>>
  BY DEF Write
<1>8. MemTypeOK'
  BY <1>2, <1>4, <1>5, <1>6, <1>7 DEF MemTypeOK
<1>9. rec.ns = ns /\ ev.ns = ns
  OBVIOUS
<1> QED
  BY <1>2, <1>4, <1>5, <1>7, <1>8, <1>9

\* Set and Delete are writes.
LEMMA WriteStepIsWrite ==
  ASSUME WriteStep
  PROVE  \E ns \in Namespaces, k \in Keys, v \in RawValues \cup {Absent} : Write(ns, k, v)
BY DEF WriteStep, Set, Delete

-----------------------------------------------------------------------------
\* TypeOK holds when New starts on an empty store.
LEMMA InitTypeOK == Init => TypeOK
<1> SUFFICES ASSUME Init PROVE TypeOK
  OBVIOUS
<1>1. NoOverrides \in Overrides
  BY DEF NoOverrides, Overrides
<1>2. ProviderTypeOK
  <2>1. subCh \in [Subs -> Seq(ChangeEvent)]
    BY DEF Init, ProviderInit
  <2>2. /\ current \in Config \cup {NilConfig}
        /\ listed \in Overrides
    BY <1>1 DEF Init, ProviderInit
  <2>3. /\ subState \in [Subs -> {"none", "open", "closed"}]
        /\ built \in [Subs -> Nat]
        /\ closer \in [Closers -> {"idle", "in", "returned"}]
    BY DEF Init, ProviderInit
  <2> QED
    BY <2>1, <2>2, <2>3 DEF Init, ProviderInit, ProviderTypeOK, NewSteps
<1>3. MemTypeOK
  <2>1. data \in [Namespaces -> Overrides]
    BY <1>1 DEF Init, MemInit
  <2>2. wch \in [Watchers -> Seq(ChangeEvent)] /\ audit \in Seq(AuditRecord)
    BY DEF Init, MemInit
  <2> QED
    BY <2>1, <2>2 DEF Init, MemInit, MemTypeOK
<1>4. states \in Seq(Overrides)
  BY <1>1 DEF Init
<1> QED
  BY <1>2, <1>3, <1>4 DEF TypeOK, Init

\* Every step preserves TypeOK, action by action.
LEMMA NextTypeOK == TypeOK /\ [Next]_vars => TypeOK'
<1> SUFFICES ASSUME TypeOK, [Next]_vars PROVE TypeOK'
  OBVIOUS
<1> USE DEF TypeOK, ProviderTypeOK, NewSteps, LoopSteps, loopVars, reqVars,
            subVars, stopVars, providerVars
<1>0. /\ MemList(NS) \in Overrides
      /\ LatestVer \in Nat
      /\ Self \in Watchers /\ NS \in Namespaces
      /\ NoOverrides \in Overrides
  BY LiveMemAssumption, MemAssumption
     DEF MemTypeOK, MemList, LatestVer, NoOverrides, Overrides
<1>1. ASSUME Quiet PROVE MemTypeOK' /\ UNCHANGED histVars
  BY <1>1 DEF Quiet, MemTypeOK, memVars
<1>2. CASE NewStep
  <2>1. CASE NewList(MemList(NS), LatestVer) /\ Quiet
    BY <1>0, <1>1, <2>1 DEF NewList, ListStep, histVars
  <2>2. CASE NewInstall /\ Quiet
    BY <1>0, <1>1, <2>2, ApplyOverridesTotal DEF NewInstall, Install, histVars
  <2>3. CASE StartWatch
    BY <1>0, <2>3 DEF StartWatch, NewWatch, Watch, MemTypeOK
  <2> QED
    BY <1>2, <2>1, <2>2, <2>3 DEF NewStep
<1>3. CASE SelectStep
  <2> USE DEF LoopGoto, histVars
  <2>1. CASE LoopDone /\ Quiet
    BY <1>1, <2>1 DEF LoopDone
  <2>2. CASE SeeClosed
    BY <1>1, <2>2 DEF SeeClosed, LoopClosed
  <2>3. CASE TakeEvent
    <3>1. wch[Self] \in Seq(ChangeEvent) /\ wch[Self] # << >>
      BY <1>0, <2>3 DEF TakeEvent, MemTypeOK
    <3>2. Head(wch[Self]) \in ChangeEvent /\ Tail(wch[Self]) \in Seq(ChangeEvent)
      BY <3>1
    <3>3. MemTypeOK'
      BY <1>0, <2>3, <3>2 DEF TakeEvent, WatchRecv, MemTypeOK
    <3> QED
      BY <2>3, <3>2, <3>3 DEF TakeEvent, LoopEvent
  <2>4. CASE LoopTick /\ Quiet
    BY <1>1, <2>4 DEF LoopTick
  <2>5. CASE LoopTrigger /\ Quiet
    BY <1>1, <2>5 DEF LoopTrigger
  <2> QED
    BY <1>3, <2>1, <2>2, <2>3, <2>4, <2>5 DEF SelectStep
<1>4. CASE RefreshStep
  <2> USE DEF histVars
  <2>1. CASE ListNow
    BY <1>0, <1>1, <2>1 DEF ListNow, LoopList, ListStep
  <2>2. CASE LoopInstall /\ Quiet
    BY <1>0, <1>1, <2>2, ApplyOverridesTotal DEF LoopInstall, Install
  <2>3. CASE Notify /\ Quiet
    BY <1>1, <2>3 DEF Notify
  <2> QED
    BY <1>4, <2>1, <2>2, <2>3 DEF RefreshStep
<1>5. CASE SubStep
  <2> USE DEF histVars
  <2> PICK s \in Subs : (Subscribe(s) \/ SubCancel(s) \/ SubCleanup(s) \/ SubRecv(s))
                        /\ Quiet
    BY <1>5 DEF SubStep
  <2>1. CASE Subscribe(s)
    BY <1>1, <2>1 DEF Subscribe
  <2>2. CASE SubCancel(s)
    BY <1>1, <2>2 DEF SubCancel
  <2>3. CASE SubCleanup(s)
    BY <1>1, <2>3 DEF SubCleanup
  <2>4. CASE SubRecv(s)
    BY <1>1, <2>4 DEF SubRecv
  <2> QED
    BY <2>1, <2>2, <2>3, <2>4
<1>6. CASE CallStep
  <2> USE DEF histVars
  <2>0. MemTypeOK' /\ UNCHANGED histVars
    BY <1>1, <1>6 DEF CallStep
  <2>1. CASE RequestRefresh(LatestVer)
    BY <1>0, <2>0, <2>1 DEF RequestRefresh
  <2>2. CASE ParentCancel
    BY <2>0, <2>2 DEF ParentCancel
  <2>3. CASE CloseSubs
    BY <2>0, <2>3 DEF CloseSubs
  <2>4. CASE CloseStore
    BY <2>0, <2>4 DEF CloseStore
  <2>5. ASSUME NEW c \in Closers, CloseEnter(c) PROVE TypeOK'
    <3>1. closer' \in [Closers -> {"idle", "in", "returned"}]
      BY <2>5 DEF CloseEnter
    <3>2. CASE once = "idle"
      BY <2>0, <2>5, <3>1, <3>2 DEF CloseEnter
    <3>3. CASE once # "idle"
      BY <2>0, <2>5, <3>1, <3>3 DEF CloseEnter
    <3> QED
      BY <3>2, <3>3
  <2>6. ASSUME NEW c \in Closers, CloseReturn(c) PROVE TypeOK'
    BY <2>0, <2>6 DEF CloseReturn
  <2> QED
    BY <1>6, <2>1, <2>2, <2>3, <2>4, <2>5, <2>6 DEF CallStep
<1>7. CASE WriteStep
  <2>1. MemTypeOK'
    BY <1>7, WriteStepIsWrite, WriteEffect
  <2>2. states' \in Seq(Overrides)
    BY <1>0, <1>7, <2>1 DEF WriteStep, MemTypeOK
  <2> QED
    BY <1>7, <2>1, <2>2 DEF WriteStep
<1>8. CASE BroadcastStep
  <2> PICK ev \in unsent : Broadcast(ev) /\ overflowed' \in BOOLEAN
    BY <1>8 DEF BroadcastStep
  <2>1. wch' \in [Watchers -> Seq(ChangeEvent)]
    BY DEF Broadcast, MemTypeOK
  <2>2. MemTypeOK'
    BY <2>1 DEF Broadcast, MemTypeOK
  <2> QED
    BY <1>8, <2>2 DEF BroadcastStep
<1>9. CASE CleanupStep
  BY <1>0, <1>9 DEF CleanupStep, WatchCleanup, MemTypeOK, histVars
<1>10. CASE UNCHANGED vars
  BY <1>10 DEF vars, histVars, memVars, MemTypeOK
<1> QED
  BY <1>2, <1>3, <1>4, <1>5, <1>6, <1>7, <1>8, <1>9, <1>10 DEF Next

\* Type correctness of the Provider on a MemStore.
THEOREM TypeCorrect == Spec => []TypeOK
BY InitTypeOK, NextTypeOK, PTL DEF Spec

-----------------------------------------------------------------------------
(***************************************************************************)
(* No send on, and no close of, a closed channel: a registered channel is  *)
(* open, in p.subs as in s.watchers.                                       *)
(***************************************************************************)
RegisteredOpen ==
  /\ \A s \in subs : subState[s] = "open"
  /\ \A w \in Watchers : w \in watchers <=> wState[w] = "open"

ChannelInv == NoPanic /\ RegisteredOpen

\* At the start no channel is registered.
LEMMA InitChannels == Init => ChannelInv
BY DEF Init, ProviderInit, MemInit, ChannelInv, NoPanic, RegisteredOpen

\* subsMu and watchMu make removing and closing a channel one step.
LEMMA NextChannels == TypeOK /\ ChannelInv /\ [Next]_vars => ChannelInv'
<1> SUFFICES ASSUME TypeOK, ChannelInv, [Next]_vars PROVE ChannelInv'
  OBVIOUS
<1> USE DEF ChannelInv, NoPanic, RegisteredOpen, TypeOK, ProviderTypeOK, MemTypeOK,
            loopVars, reqVars, subVars, stopVars, providerVars, Quiet, memVars
<1>1. CASE NewStep
  <2>1. CASE StartWatch
    BY <2>1, LiveMemAssumption DEF StartWatch, NewWatch, Watch
  <2>2. CASE ~StartWatch
    BY <1>1, <2>2 DEF NewStep, NewList, ListStep, NewInstall
  <2> QED
    BY <2>1, <2>2
<1>2. CASE SelectStep
  BY <1>2 DEF SelectStep, LoopDone, SeeClosed, LoopClosed, TakeEvent, LoopEvent,
              LoopTick, LoopTrigger, LoopGoto, WatchRecv
<1>3. CASE RefreshStep
  BY <1>3 DEF RefreshStep, ListNow, LoopList, ListStep, LoopInstall, Notify
<1>4. CASE SubStep
  <2> PICK s \in Subs : (Subscribe(s) \/ SubCancel(s) \/ SubCleanup(s) \/ SubRecv(s))
                        /\ Quiet
    BY <1>4 DEF SubStep
  <2>1. CASE Subscribe(s)
    BY <2>1 DEF Subscribe
  <2>2. CASE SubCancel(s) \/ SubRecv(s)
    BY <2>2 DEF SubCancel, SubRecv
  <2>3. CASE SubCleanup(s)
    BY <2>3 DEF SubCleanup
  <2> QED
    BY <2>1, <2>2, <2>3
<1>5. CASE CallStep
  BY <1>5 DEF CallStep, RequestRefresh, ParentCancel, CloseSubs, CloseStore,
              CloseEnter, CloseReturn
<1>6. CASE WriteStep
  <2>1. UNCHANGED <<watchers, wch, wState, wPanicked>>
    BY <1>6, WriteStepIsWrite, WriteEffect
  <2> QED
    BY <1>6, <2>1 DEF WriteStep
<1>7. CASE BroadcastStep
  BY <1>7 DEF BroadcastStep, Broadcast
<1>8. CASE CleanupStep
  BY <1>8, LiveMemAssumption DEF CleanupStep, WatchCleanup
<1>9. CASE UNCHANGED vars
  BY <1>9 DEF vars
<1> QED
  BY <1>1, <1>2, <1>3, <1>4, <1>5, <1>6, <1>7, <1>8, <1>9 DEF Next

\* Neither the Provider nor the MemStore sends on or closes a closed channel.
THEOREM NeverPanics == Spec => []NoPanic
<1>1. ChannelInv => NoPanic
  BY DEF ChannelInv
<1> QED
  BY <1>1, InitTypeOK, NextTypeOK, InitChannels, NextChannels, PTL DEF Spec

-----------------------------------------------------------------------------
\* Before Watch there is nothing to wake.
LEMMA InitWakeup == Init => NoLostWakeup
BY DEF Init, ProviderInit, MemInit, NoLostWakeup, Attached, LoopAlive, LoopSteps

\* Every step leaves a wakeup for each unread change, or reads it.
LEMMA NextWakeup ==
  TypeOK /\ ChannelInv /\ NoLostWakeup /\ [Next]_vars => NoLostWakeup'
<1> SUFFICES ASSUME TypeOK, ChannelInv, NoLostWakeup, [Next]_vars, Attached',
                    NEW i \in 1..Len(audit'),
                    audit'[i].ns = NS, i + 1 > watchVer', i + 1 > ReadVer'
             PROVE  \/ \E ev \in unsent' : ev.ns = NS
                    \/ wch'[Self] # << >>
                    \/ pc' = "list"
  BY DEF NoLostWakeup
<1> DEFINE Pending == \/ \E ev \in unsent : ev.ns = NS
                      \/ wch[Self] # << >>
                      \/ pc = "list"
<1> USE DEF Attached, LoopAlive, LoopSteps, ReadVer, TypeOK, ProviderTypeOK,
            MemTypeOK, loopVars, reqVars, subVars, stopVars, providerVars,
            memVars, histVars, Quiet
<1>0. ASSUME Attached, UNCHANGED <<audit, watchVer>>, ReadVer' = ReadVer
      PROVE  Pending
  BY <1>0 DEF NoLostWakeup
<1>1. CASE NewStep
  BY <1>1 DEF NewStep, NewList, ListStep, NewInstall, StartWatch, NewWatch, Watch,
              LatestVer
<1>2. CASE SelectStep
  BY <1>2 DEF SelectStep, LoopDone, SeeClosed, LoopClosed, TakeEvent, LoopEvent,
              LoopTick, LoopTrigger, LoopGoto
<1>3. CASE RefreshStep
  <2>1. CASE ListNow
    BY <2>1 DEF ListNow, LoopList, ListStep, LatestVer
  <2>2. CASE LoopInstall /\ Quiet
    <3>1. pc = "install" /\ pc' # "install" /\ ReadVer' = ReadVer
      BY <2>2 DEF LoopInstall, Install
    <3> QED
      BY <1>0, <2>2, <3>1
  <2>3. CASE Notify /\ Quiet
    <3>1. pc = "notify" /\ ReadVer' = ReadVer
      BY <2>3 DEF Notify
    <3> QED
      BY <1>0, <2>3, <3>1
  <2> QED
    BY <1>3, <2>1, <2>2, <2>3 DEF RefreshStep
<1>4. CASE SubStep
  <2>1. UNCHANGED <<loopVars, memVars, histVars>>
    BY <1>4 DEF SubStep, Subscribe, SubCancel, SubCleanup, SubRecv
  <2> QED
    BY <1>0, <2>1
<1>5. CASE CallStep
  <2>1. UNCHANGED <<loopVars, memVars, histVars>>
    BY <1>5 DEF CallStep, RequestRefresh, ParentCancel, CloseSubs, CloseStore,
                CloseEnter, CloseReturn
  <2> QED
    BY <1>0, <2>1
<1>6. CASE WriteStep
  <2>0. UNCHANGED <<pc, listedVer, currentVer, watchVer>>
    BY <1>6 DEF WriteStep
  <2>1. PICK ns \in Namespaces, k \in Keys, v \in RawValues \cup {Absent} : Write(ns, k, v)
    BY <1>6, WriteStepIsWrite
  <2>2. PICK rec \in AuditRecord : audit' = Append(audit, rec) /\ rec.ns = ns
    BY <2>1, WriteEffect
  <2>3. PICK ev \in ChangeEvent : unsent' = unsent \cup {ev} /\ ev.ns = ns
    BY <2>1, WriteEffect
  <2>4. UNCHANGED <<wch, wState>>
    BY <2>1, WriteEffect
  <2>5. CASE i = Len(audit) + 1
    <3>1. audit'[i] = rec
      BY <2>2, <2>5
    <3> QED
      BY <2>2, <2>3, <3>1
  <2>6. CASE i # Len(audit) + 1
    <3>1. i \in 1..Len(audit) /\ audit'[i] = audit[i]
      BY <2>2, <2>6
    <3>2. Pending
      BY <2>0, <2>4, <3>1 DEF NoLostWakeup
    <3> QED
      BY <2>0, <2>3, <2>4, <3>2
  <2> QED
    BY <2>5, <2>6
<1>7. CASE BroadcastStep
  <2>0. UNCHANGED <<pc, listedVer, currentVer, watchVer>>
    BY <1>7 DEF BroadcastStep
  <2>1. PICK ev \in unsent : Broadcast(ev)
    BY <1>7 DEF BroadcastStep
  <2>2. audit' = audit /\ wState' = wState
    BY <2>1 DEF Broadcast
  <2>3. Self \in watchers /\ Self \in Watchers /\ WatchNs[Self] = NS
    BY <2>2, LiveMemAssumption DEF ChannelInv, RegisteredOpen
  <2>4. wch[Self] \in Seq(ChangeEvent)
    BY <2>3
  <2>5. Pending
    BY <1>0, <2>0, <2>2
  <2>6. CASE ev.ns = NS
    <3>1. CASE Len(wch[Self]) < WatchBuf
      <4>1. wch'[Self] = Append(wch[Self], ev)
        BY <2>1, <2>3, <2>6, <3>1 DEF Broadcast
      <4>2. Len(wch'[Self]) = Len(wch[Self]) + 1
        BY <2>4, <4>1
      <4> QED
        BY <2>4, <4>2
    <3>2. CASE ~(Len(wch[Self]) < WatchBuf)
      <4>1. wch'[Self] = wch[Self]
        BY <2>1, <2>3, <3>2 DEF Broadcast
      <4> QED
        BY <2>4, <3>2, <4>1, MemAssumption
    <3> QED
      BY <3>1, <3>2
  <2>7. CASE ev.ns # NS
    <3>1. wch'[Self] = wch[Self]
      BY <2>1, <2>3, <2>7 DEF Broadcast
    <3>2. unsent' = unsent \ {ev}
      BY <2>1 DEF Broadcast
    <3> QED
      BY <2>0, <2>5, <2>7, <3>1, <3>2
  <2> QED
    BY <2>6, <2>7
<1>8. CASE CleanupStep
  BY <1>8, LiveMemAssumption DEF CleanupStep, WatchCleanup
<1>9. CASE UNCHANGED vars
  BY <1>0, <1>9 DEF vars
<1> QED
  BY <1>1, <1>2, <1>3, <1>4, <1>5, <1>6, <1>7, <1>8, <1>9 DEF Next

(***************************************************************************)
(* While the Provider is attached, a change of its namespace that it has   *)
(* not read is followed by a refresh: dropped and reordered events do not  *)
(* matter.                                                                 *)
(***************************************************************************)
THEOREM WakeupNotLost == Spec => []NoLostWakeup
BY InitTypeOK, NextTypeOK, InitChannels, NextChannels, InitWakeup, NextWakeup, PTL
   DEF Spec

-----------------------------------------------------------------------------
(***************************************************************************)
(* The inductive invariant of the events.  The recorded states and the     *)
(* audit trail grow together; an event tells the change its write made; an *)
(* event is handed over only after a List that has read its change; and a  *)
(* change that is not in the snapshot still has its event on the way.      *)
(***************************************************************************)
StatesFollowAudit ==
  /\ Len(states) = Len(audit) + 1
  /\ states[Len(states)] = data[NS]

\* Events on their way from a writer to notifySubscribers.
Transit == unsent \cup ToSet(wch[Self]) \cup handling

EventsRecorded ==
  \A ev \in Transit :
    /\ ev.ver \in 2..(Len(audit) + 1)
    /\ audit[ev.ver - 1].ns = ev.ns
    /\ audit[ev.ver - 1].key = ev.key

\* What an event of the Provider's namespace says of the store's states.
UnsentTellChange ==
  \A ev \in unsent :
    ev.ns = NS =>
      /\ ev.ver \in 2..Len(states)
      /\ ev.new = TextOf(states[ev.ver][ev.key])
      /\ ev.old = TextOf(states[ev.ver - 1][ev.key])

HandledAfterList ==
  /\ pc \in NewSteps \cup {"select"} => handling = {}
  /\ pc \in {"newInstall", "install"} =>
       currentVer <= listedVer /\ listedVer <= Len(audit) + 1
  /\ pc = "install" => \A ev \in handling : ev.ver <= listedVer
  /\ pc = "notify" => \A ev \in handling : ev.ver <= currentVer
  /\ currentVer <= Len(audit) + 1

UnreadInTransit ==
  Attached /\ ~overflowed =>
    \A i \in 1..Len(audit) :
      /\ audit[i].ns = NS
      /\ Strategy[audit[i].key] = Recreate
      /\ i + 1 > watchVer
      /\ i + 1 > currentVer
      => InTransit(i + 1)

\* The members of a queue after a send and after a receive.
LEMMA QueueMembers ==
  ASSUME NEW q \in Seq(ChangeEvent)
  PROVE  /\ \A ev \in ChangeEvent : ToSet(Append(q, ev)) = ToSet(q) \cup {ev}
         /\ q # << >> => ToSet(q) = {Head(q)} \cup ToSet(Tail(q))
<1> USE DEF ToSet
<1>1. ASSUME NEW ev \in ChangeEvent
      PROVE  ToSet(Append(q, ev)) = ToSet(q) \cup {ev}
  <2>1. /\ Append(q, ev) \in Seq(ChangeEvent)
        /\ Len(Append(q, ev)) = Len(q) + 1 /\ Len(q) \in Nat
        /\ \A i \in 1..Len(q) : Append(q, ev)[i] = q[i]
        /\ Append(q, ev)[Len(q) + 1] = ev
    OBVIOUS
  <2>2. DOMAIN Append(q, ev) = 1..(Len(q) + 1) /\ DOMAIN q = 1..Len(q)
    BY <2>1
  <2> QED
    BY <2>1, <2>2
<1>2. ASSUME q # << >> PROVE ToSet(q) = {Head(q)} \cup ToSet(Tail(q))
  <2>1. /\ Len(q) \in Nat /\ Len(q) >= 1 /\ Head(q) = q[1]
        /\ Tail(q) \in Seq(ChangeEvent) /\ Len(Tail(q)) = Len(q) - 1
        /\ \A i \in 1..(Len(q) - 1) : Tail(q)[i] = q[i + 1]
    BY <1>2
  <2>2. DOMAIN q = 1..Len(q) /\ DOMAIN Tail(q) = 1..(Len(q) - 1)
    BY <2>1
  <2>3. \A x \in ToSet(q) : x \in {Head(q)} \cup ToSet(Tail(q))
    <3> SUFFICES ASSUME NEW i \in 1..Len(q)
                 PROVE  q[i] = Head(q) \/ \E j \in 1..(Len(q) - 1) : q[i] = Tail(q)[j]
      BY <2>2
    <3>1. CASE i = 1
      BY <2>1, <3>1
    <3>2. CASE i # 1
      <4>1. i - 1 \in 1..(Len(q) - 1) /\ Tail(q)[i - 1] = q[i]
        BY <2>1, <3>2
      <4> QED
        BY <4>1
    <3> QED
      BY <3>1, <3>2
  <2>4. \A x \in {Head(q)} \cup ToSet(Tail(q)) : x \in ToSet(q)
    BY <2>1, <2>2
  <2> QED
    BY <2>3, <2>4
<1> QED
  BY <1>1, <1>2

\* The record, the event and the store state of one write.
LEMMA WriteTells ==
  ASSUME MemTypeOK, NEW ns \in Namespaces, NEW k \in Keys,
         NEW v \in RawValues \cup {Absent}, Write(ns, k, v)
  PROVE  \E rec \in AuditRecord, ev \in ChangeEvent :
           /\ audit' = Append(audit, rec) /\ unsent' = unsent \cup {ev}
           /\ rec.ns = ns /\ rec.key = k
           /\ ev.ns = ns /\ ev.key = k /\ ev.ver = Len(audit) + 2
           /\ ev.old = TextOf(data[ns][k]) /\ ev.new = TextOf(data'[ns][k])
<1> DEFINE old == TextOf(data[ns][k])
           new == TextOf(v)
           rec == [ns |-> ns, key |-> k, old |-> old, new |-> new]
           ev  == [ns |-> ns, key |-> k, old |-> old, new |-> new, ver |-> Len(audit) + 2]
<1>1. old \in RawValues /\ new \in RawValues /\ Len(audit) + 2 \in Nat
  BY DataAssumption DEF MemTypeOK, TextOf, Overrides
<1>2. rec \in AuditRecord /\ ev \in ChangeEvent
  BY <1>1 DEF AuditRecord, ChangeEvent
<1>3. audit' = Append(audit, rec) /\ unsent' = unsent \cup {ev}
  BY DEF Write
<1>4. data'[ns][k] = v
  BY DEF Write, MemTypeOK, Overrides
<1>5. /\ rec.ns = ns /\ rec.key = k /\ ev.ns = ns /\ ev.key = k
      /\ ev.ver = Len(audit) + 2 /\ ev.old = old /\ ev.new = new
  OBVIOUS
<1> QED
  BY <1>2, <1>3, <1>4, <1>5

(***************************************************************************)
(* Only a write makes a record, a state or an event; every other step at   *)
(* most moves an event on or lets go of it.                                *)
(***************************************************************************)
LEMMA NonWriteFrame ==
  ASSUME TypeOK, ChannelInv, [Next]_vars, ~WriteStep
  PROVE  /\ UNCHANGED <<data, audit, states>>
         /\ unsent' \subseteq unsent
         /\ Transit' \subseteq Transit
<1> USE DEF Transit, Quiet, memVars, histVars, providerVars, loopVars
<1>0. Self \in Watchers /\ wch[Self] \in Seq(ChangeEvent) /\ wch \in [Watchers -> Seq(ChangeEvent)]
  BY LiveMemAssumption DEF TypeOK, MemTypeOK
<1>1. CASE NewStep
  BY <1>1 DEF NewStep, NewList, ListStep, NewInstall, Install, StartWatch, NewWatch, Watch
<1>2. CASE SelectStep
  <2>1. CASE TakeEvent
    <3>1. wch[Self] # << >> /\ wch'[Self] = Tail(wch[Self]) /\ handling' = {Head(wch[Self])}
      BY <1>0, <2>1 DEF TakeEvent, LoopEvent, LoopGoto, WatchRecv
    <3>2. ToSet(wch[Self]) = {Head(wch[Self])} \cup ToSet(wch'[Self])
      BY <1>0, <3>1, QueueMembers
    <3>3. UNCHANGED <<data, audit, states, unsent>>
      BY <2>1 DEF TakeEvent, WatchRecv
    <3> QED
      BY <3>1, <3>2, <3>3
  <2>2. CASE ~TakeEvent
    BY <1>2, <2>2 DEF SelectStep, LoopDone, SeeClosed, LoopClosed, LoopTick,
                      LoopTrigger, LoopGoto
  <2> QED
    BY <2>1, <2>2
<1>3. CASE RefreshStep
  BY <1>3 DEF RefreshStep, ListNow, LoopList, ListStep, LoopInstall, Install, Notify
<1>4. CASE SubStep
  BY <1>4 DEF SubStep, Subscribe, SubCancel, SubCleanup, SubRecv
<1>5. CASE CallStep
  BY <1>5 DEF CallStep, RequestRefresh, ParentCancel, CloseSubs, CloseStore,
              CloseEnter, CloseReturn
<1>6. CASE BroadcastStep
  <2>1. PICK ev \in unsent : Broadcast(ev)
    BY <1>6 DEF BroadcastStep
  <2>2. ev \in ChangeEvent
    BY DEF TypeOK, MemTypeOK
  <2>3. wch'[Self] = wch[Self] \/ wch'[Self] = Append(wch[Self], ev)
    BY <1>0, <2>1 DEF Broadcast
  <2>4. ToSet(wch'[Self]) \subseteq ToSet(wch[Self]) \cup {ev}
    BY <1>0, <2>2, <2>3, QueueMembers
  <2>5. UNCHANGED <<data, audit, states, handling>> /\ unsent' = unsent \ {ev}
    BY <1>6, <2>1 DEF BroadcastStep, Broadcast
  <2> QED
    BY <2>4, <2>5
<1>7. CASE CleanupStep
  BY <1>7 DEF CleanupStep, WatchCleanup
<1>8. CASE UNCHANGED vars
  BY <1>8 DEF vars
<1> QED
  BY <1>1, <1>2, <1>3, <1>4, <1>5, <1>6, <1>7, <1>8 DEF Next

\* A write adds one record, one state and one event.
LEMMA WriteFrame ==
  ASSUME TypeOK, WriteStep
  PROVE  /\ UNCHANGED <<providerVars, watchVer, overflowed, watchers, wch, wState>>
         /\ Len(audit) < MaxWrites
         /\ states' = Append(states, data'[NS]) /\ data'[NS] \in Overrides
         /\ \E rec \in AuditRecord, ev \in ChangeEvent :
              /\ audit' = Append(audit, rec) /\ unsent' = unsent \cup {ev}
              /\ rec.ns = ev.ns /\ rec.key = ev.key /\ ev.ver = Len(audit) + 2
              /\ ev.ns = NS => /\ ev.old = TextOf(data[NS][ev.key])
                               /\ ev.new = TextOf(data'[NS][ev.key])
<1>1. PICK ns \in Namespaces, k \in Keys, v \in RawValues \cup {Absent} : Write(ns, k, v)
  BY WriteStepIsWrite
<1>2. UNCHANGED <<watchers, wch, wState>> /\ MemTypeOK'
  BY <1>1, WriteEffect DEF TypeOK
<1>3. data'[NS] \in Overrides
  BY <1>2, LiveMemAssumption, MemAssumption DEF MemTypeOK
<1>4. \E rec \in AuditRecord, ev \in ChangeEvent :
        /\ audit' = Append(audit, rec) /\ unsent' = unsent \cup {ev}
        /\ rec.ns = ns /\ rec.key = k
        /\ ev.ns = ns /\ ev.key = k /\ ev.ver = Len(audit) + 2
        /\ ev.old = TextOf(data[ns][k]) /\ ev.new = TextOf(data'[ns][k])
  BY <1>1, WriteTells DEF TypeOK
<1>5. Len(audit) < MaxWrites
  BY <1>1 DEF Write
<1> QED
  BY <1>2, <1>3, <1>4, <1>5 DEF WriteStep

-----------------------------------------------------------------------------
\* The part of the invariant that relates events, records and states.
StoryInv == StatesFollowAudit /\ EventsRecorded /\ UnsentTellChange

\* An empty store has one state and no event.
LEMMA InitStory == Init => StoryInv
<1> SUFFICES ASSUME Init PROVE StoryInv
  OBVIOUS
<1>1. NS \in Namespaces /\ Self \in Watchers
  BY LiveMemAssumption, MemAssumption
<1>2. Len(states) = 1 /\ states[1] = NoOverrides /\ Len(audit) = 0 /\ data[NS] = NoOverrides
  BY <1>1 DEF Init, MemInit
<1>3. unsent = {} /\ handling = {} /\ wch[Self] = << >>
  BY <1>1 DEF Init, MemInit, ProviderInit
<1>4. Transit = {}
  BY <1>3 DEF Transit, ToSet
<1> QED
  BY <1>2, <1>3, <1>4
     DEF StoryInv, StatesFollowAudit, EventsRecorded, UnsentTellChange

\* Every step keeps events, records and states in agreement.
LEMMA NextStory ==
  ASSUME TypeOK, ChannelInv, StoryInv, [Next]_vars
  PROVE  StoryInv'
<1>1. CASE ~WriteStep
  <2>1. /\ UNCHANGED <<data, audit, states>>
        /\ unsent' \subseteq unsent
        /\ Transit' \subseteq Transit
    BY <1>1, NonWriteFrame
  <2> QED
    BY <2>1 DEF StoryInv, StatesFollowAudit, EventsRecorded, UnsentTellChange
<1>2. CASE WriteStep
  <2>1. /\ UNCHANGED <<providerVars, wch>>
        /\ states' = Append(states, data'[NS]) /\ data'[NS] \in Overrides
    BY <1>2, WriteFrame
  <2>2. PICK rec \in AuditRecord, new \in ChangeEvent :
          /\ audit' = Append(audit, rec) /\ unsent' = unsent \cup {new}
          /\ rec.ns = new.ns /\ rec.key = new.key /\ new.ver = Len(audit) + 2
          /\ new.ns = NS => /\ new.old = TextOf(data[NS][new.key])
                            /\ new.new = TextOf(data'[NS][new.key])
    BY <1>2, WriteFrame
  <2>3. /\ Len(audit) \in Nat /\ Len(audit') = Len(audit) + 1
        /\ \A i \in 1..Len(audit) : audit'[i] = audit[i]
        /\ audit'[Len(audit) + 1] = rec
    BY <2>2 DEF TypeOK, MemTypeOK
  <2>4. /\ Len(states) = Len(audit) + 1 /\ Len(states') = Len(states) + 1
        /\ \A n \in 1..Len(states) : states'[n] = states[n]
        /\ states'[Len(states) + 1] = data'[NS]
        /\ states[Len(states)] = data[NS]
    BY <2>1 DEF StoryInv, StatesFollowAudit, TypeOK
  <2>5. StatesFollowAudit'
    BY <2>3, <2>4 DEF StatesFollowAudit
  <2>6. EventsRecorded'
    <3> SUFFICES ASSUME NEW ev \in Transit'
                 PROVE  /\ ev.ver \in 2..(Len(audit') + 1)
                        /\ audit'[ev.ver - 1].ns = ev.ns
                        /\ audit'[ev.ver - 1].key = ev.key
      BY DEF EventsRecorded
    <3>1. CASE ev = new
      BY <2>2, <2>3, <3>1
    <3>2. CASE ev # new
      <4>1. ev \in Transit
        BY <2>1, <2>2, <3>2 DEF Transit, providerVars, loopVars
      <4>2. /\ ev.ver \in 2..(Len(audit) + 1)
            /\ audit[ev.ver - 1].ns = ev.ns
            /\ audit[ev.ver - 1].key = ev.key
        BY <4>1 DEF StoryInv, EventsRecorded
      <4>3. ev.ver - 1 \in 1..Len(audit)
        BY <2>3, <4>2
      <4> QED
        BY <2>3, <4>2, <4>3
    <3> QED
      BY <3>1, <3>2
  <2>7. UnsentTellChange'
    <3> SUFFICES ASSUME NEW ev \in unsent', ev.ns = NS
                 PROVE  /\ ev.ver \in 2..Len(states')
                        /\ ev.new = TextOf(states'[ev.ver][ev.key])
                        /\ ev.old = TextOf(states'[ev.ver - 1][ev.key])
      BY DEF UnsentTellChange
    <3>1. CASE ev = new
      <4>1. ev.ver = Len(states) + 1 /\ ev.ver - 1 = Len(states)
        BY <2>2, <2>3, <2>4, <3>1
      <4> QED
        BY <2>2, <2>3, <2>4, <3>1, <4>1
    <3>2. CASE ev # new
      <4>1. ev \in unsent
        BY <2>2, <3>2
      <4>2. /\ ev.ver \in 2..Len(states)
            /\ ev.new = TextOf(states[ev.ver][ev.key])
            /\ ev.old = TextOf(states[ev.ver - 1][ev.key])
        BY <4>1 DEF StoryInv, UnsentTellChange
      <4>3. ev.ver \in 1..Len(states) /\ ev.ver - 1 \in 1..Len(states)
        BY <2>3, <2>4, <4>2
      <4> QED
        BY <2>3, <2>4, <4>2, <4>3
    <3> QED
      BY <3>1, <3>2
  <2> QED
    BY <2>5, <2>6, <2>7 DEF StoryInv
<1> QED
  BY <1>1, <1>2

-----------------------------------------------------------------------------
\* New has no event to handle and has read nothing yet.
LEMMA InitHandled == Init => HandledAfterList
<1> SUFFICES ASSUME Init PROVE HandledAfterList
  OBVIOUS
<1>1. pc = "newList" /\ handling = {} /\ currentVer = 0 /\ Len(audit) = 0
  BY DEF Init, ProviderInit, MemInit
<1> QED
  BY <1>1 DEF HandledAfterList

\* The loop lists after it has taken an event and before it hands it over.
LEMMA NextHandled ==
  ASSUME TypeOK, EventsRecorded, HandledAfterList, [Next]_vars
  PROVE  HandledAfterList'
<1> USE DEF HandledAfterList, NewSteps, Quiet, memVars, loopVars, providerVars
<1>0. /\ Len(audit) \in Nat /\ LatestVer = Len(audit) + 1
      /\ currentVer \in Nat /\ listedVer \in Nat
      /\ \A ev \in handling : ev.ver \in 2..(Len(audit) + 1)
  BY DEF TypeOK, ProviderTypeOK, MemTypeOK, EventsRecorded, Transit, LatestVer
<1>1. CASE NewStep
  <2>1. CASE NewList(MemList(NS), LatestVer) /\ Quiet
    BY <1>0, <2>1 DEF NewList, ListStep
  <2>2. CASE NewInstall /\ Quiet
    BY <1>0, <2>2 DEF NewInstall, Install
  <2>3. CASE StartWatch
    BY <1>0, <2>3 DEF StartWatch, NewWatch, Watch
  <2> QED
    BY <1>1, <2>1, <2>2, <2>3 DEF NewStep
<1>2. CASE SelectStep
  <2>1. /\ pc = "select" /\ pc' \in {"exited", "list"}
        /\ UNCHANGED <<audit, listedVer, currentVer>>
    BY <1>2 DEF SelectStep, LoopDone, SeeClosed, LoopClosed, TakeEvent, LoopEvent,
                LoopTick, LoopTrigger, LoopGoto, WatchRecv
  <2> QED
    BY <1>0, <2>1
<1>3. CASE RefreshStep
  <2>1. CASE ListNow
    BY <1>0, <2>1 DEF ListNow, LoopList, ListStep
  <2>2. CASE LoopInstall /\ Quiet
    <3>1. /\ pc = "install" /\ currentVer' = listedVer /\ audit' = audit
          /\ \/ pc' = "notify" /\ handling' = handling
             \/ pc' = "select" /\ handling' = {}
      BY <2>2 DEF LoopInstall, Install
    <3> QED
      BY <1>0, <3>1
  <2>3. CASE Notify /\ Quiet
    BY <1>0, <2>3 DEF Notify
  <2> QED
    BY <1>3, <2>1, <2>2, <2>3 DEF RefreshStep
<1>4. CASE SubStep
  <2>1. UNCHANGED <<loopVars, memVars>>
    BY <1>4 DEF SubStep, Subscribe, SubCancel, SubCleanup, SubRecv
  <2> QED
    BY <2>1
<1>5. CASE CallStep
  <2>1. UNCHANGED <<loopVars, memVars>>
    BY <1>5 DEF CallStep, RequestRefresh, ParentCancel, CloseSubs, CloseStore,
                CloseEnter, CloseReturn
  <2> QED
    BY <2>1
<1>6. CASE WriteStep
  <2>1. UNCHANGED loopVars /\ Len(audit') = Len(audit) + 1
    BY <1>6, WriteFrame DEF TypeOK, MemTypeOK
  <2> QED
    BY <1>0, <2>1
<1>7. CASE BroadcastStep \/ CleanupStep \/ UNCHANGED vars
  <2>1. UNCHANGED <<loopVars, audit>>
    BY <1>7 DEF BroadcastStep, Broadcast, CleanupStep, WatchCleanup, vars
  <2> QED
    BY <2>1
<1> QED
  BY <1>1, <1>2, <1>3, <1>4, <1>5, <1>6, <1>7 DEF Next

-----------------------------------------------------------------------------
(***************************************************************************)
(* A Provider is attached by StartWatch only, watchVer is set then, and an *)
(* overflow is never forgotten.                                            *)
(***************************************************************************)
LEMMA AttachedBefore ==
  ASSUME TypeOK, [Next]_vars, Attached', ~StartWatch
  PROVE  /\ Attached
         /\ watchVer' = watchVer
         /\ ~overflowed' => ~overflowed
<1> USE DEF Attached, LoopAlive, LoopSteps, Quiet, memVars, histVars, loopVars,
            providerVars
<1>0. Self \in Watchers /\ wState \in [Watchers -> {"none", "open", "closed"}]
  BY LiveMemAssumption DEF TypeOK, MemTypeOK
<1>1. CASE NewStep
  BY <1>1 DEF NewStep, NewList, ListStep, NewInstall
<1>2. CASE SelectStep
  BY <1>2 DEF SelectStep, LoopDone, SeeClosed, LoopClosed, TakeEvent, LoopEvent,
              LoopTick, LoopTrigger, LoopGoto, WatchRecv
<1>3. CASE RefreshStep
  BY <1>3 DEF RefreshStep, ListNow, LoopList, ListStep, LoopInstall, Notify
<1>4. CASE SubStep
  BY <1>4 DEF SubStep, Subscribe, SubCancel, SubCleanup, SubRecv
<1>5. CASE CallStep
  BY <1>5 DEF CallStep, RequestRefresh, ParentCancel, CloseSubs, CloseStore,
              CloseEnter, CloseReturn
<1>6. CASE WriteStep
  BY <1>6, WriteFrame
<1>7. CASE BroadcastStep
  BY <1>7 DEF BroadcastStep, Broadcast
<1>8. CASE CleanupStep
  BY <1>0, <1>8 DEF CleanupStep, WatchCleanup
<1>9. CASE UNCHANGED vars
  BY <1>9 DEF vars
<1> QED
  BY <1>1, <1>2, <1>3, <1>4, <1>5, <1>6, <1>7, <1>8, <1>9 DEF Next

(***************************************************************************)
(* The event of a recreate-on-change write is lost nowhere between the     *)
(* writer and notifySubscribers unless the watch channel overflows: the    *)
(* loop drops an event only for a key of another strategy.                 *)
(***************************************************************************)
LEMMA TransitKept ==
  ASSUME TypeOK, ChannelInv, EventsRecorded, HandledAfterList, [Next]_vars,
         Attached, Attached', ~overflowed',
         NEW i \in 1..Len(audit), audit[i].ns = NS,
         Strategy[audit[i].key] = Recreate,
         InTransit(i + 1)
  PROVE  \/ InTransit(i + 1)'
         \/ Notify /\ \E ev \in handling : ev.ver = i + 1
<1> USE DEF Quiet, memVars, histVars, loopVars, providerVars, Transit
<1>0. /\ Self \in Watchers /\ wch[Self] \in Seq(ChangeEvent)
      /\ wch \in [Watchers -> Seq(ChangeEvent)] /\ WatchNs[Self] = NS
      /\ Len(audit) \in Nat
  BY LiveMemAssumption DEF TypeOK, MemTypeOK
<1>1. PICK ev \in Transit : ev.ver = i + 1
  BY DEF InTransit
<1>2. ev.ns = NS /\ ev.key = audit[i].key
  <2>1. ev.ver - 1 = i
    BY <1>0, <1>1
  <2> QED
    BY <1>1, <2>1 DEF EventsRecorded
<1>3. SUFFICES ASSUME ~(Notify /\ ev \in handling) PROVE ev \in Transit'
  BY <1>1 DEF InTransit
<1>4. pc \in LoopSteps /\ pc' \in LoopSteps
  BY DEF Attached, LoopAlive
<1>5. CASE NewStep
  BY <1>4, <1>5 DEF NewStep, NewList, ListStep, NewInstall, StartWatch, NewWatch, LoopSteps
<1>6. CASE SelectStep
  <2>0. pc = "select" /\ handling = {}
    BY <1>6 DEF HandledAfterList, SelectStep, LoopDone, SeeClosed, LoopClosed, TakeEvent,
                LoopEvent, LoopTick, LoopTrigger, LoopGoto
  <2>1. CASE TakeEvent
    <3>1. wch[Self] # << >> /\ wch'[Self] = Tail(wch[Self]) /\ handling' = {Head(wch[Self])}
      BY <1>0, <2>1 DEF TakeEvent, LoopEvent, LoopGoto, WatchRecv
    <3>2. ToSet(wch[Self]) = {Head(wch[Self])} \cup ToSet(wch'[Self])
      BY <1>0, <3>1, QueueMembers
    <3>3. unsent' = unsent
      BY <2>1 DEF TakeEvent, WatchRecv
    <3> QED
      BY <2>0, <3>1, <3>2, <3>3
  <2>2. CASE ~TakeEvent
    <3>1. UNCHANGED memVars
      BY <1>6, <2>2 DEF SelectStep, SeeClosed
    <3> QED
      BY <2>0, <3>1
  <2> QED
    BY <2>1, <2>2
<1>7. CASE RefreshStep
  <2>0. UNCHANGED memVars
    BY <1>7 DEF RefreshStep, ListNow
  <2>1. CASE ListNow
    BY <2>0, <2>1 DEF ListNow, LoopList, ListStep
  <2>2. CASE LoopInstall
    <3>1. CASE ev \in handling
      <4>1. MustNotify(ev)
        BY <1>2 DEF MustNotify
      <4> QED
        BY <2>0, <2>2, <3>1, <4>1 DEF LoopInstall
    <3>2. CASE ev \notin handling
      BY <2>0, <3>2
    <3> QED
      BY <3>1, <3>2
  <2>3. CASE Notify
    BY <1>3, <2>0, <2>3
  <2> QED
    BY <1>7, <2>1, <2>2, <2>3 DEF RefreshStep
<1>8. CASE SubStep
  <2>1. UNCHANGED <<loopVars, memVars>>
    BY <1>8 DEF SubStep, Subscribe, SubCancel, SubCleanup, SubRecv
  <2> QED
    BY <2>1
<1>9. CASE CallStep
  <2>1. UNCHANGED <<loopVars, memVars>>
    BY <1>9 DEF CallStep, RequestRefresh, ParentCancel, CloseSubs, CloseStore,
                CloseEnter, CloseReturn
  <2> QED
    BY <2>1
<1>10. CASE WriteStep
  <2>1. UNCHANGED <<providerVars, wch>> /\ unsent \subseteq unsent'
    BY <1>10, WriteFrame
  <2> QED
    BY <2>1
<1>11. CASE BroadcastStep
  <2>1. PICK e \in unsent :
          /\ Broadcast(e)
          /\ overflowed' = (overflowed \/ (e.ns = NS /\ Len(wch[Self]) >= WatchBuf))
    BY <1>11 DEF BroadcastStep
  <2>2. e \in ChangeEvent /\ handling' = handling /\ unsent' = unsent \ {e}
    BY <1>11, <2>1 DEF BroadcastStep, Broadcast, TypeOK, MemTypeOK
  <2>3. wch'[Self] = wch[Self] \/ wch'[Self] = Append(wch[Self], e)
    BY <1>0, <2>1 DEF Broadcast
  <2>4. ToSet(wch[Self]) \subseteq ToSet(wch'[Self])
    <3>1. ToSet(Append(wch[Self], e)) = ToSet(wch[Self]) \cup {e}
      BY <1>0, <2>2, QueueMembers
    <3> QED
      BY <2>3, <3>1
  <2>5. CASE ev # e
    BY <2>2, <2>4, <2>5
  <2>6. CASE ev = e
    <3>1. ~(e.ns = NS /\ Len(wch[Self]) >= WatchBuf)
      BY <2>1, Zenon
    <3>2. Len(wch[Self]) < WatchBuf
      BY <1>0, <1>2, <2>6, <3>1, MemAssumption
    <3>3. Self \in watchers
      BY <1>0 DEF Attached, ChannelInv, RegisteredOpen
    <3>4. wch'[Self] = Append(wch[Self], e)
      BY <1>0, <1>2, <2>1, <2>6, <3>2, <3>3 DEF Broadcast
    <3> QED
      BY <1>0, <2>2, <2>6, <3>4, QueueMembers
  <2> QED
    BY <2>5, <2>6
<1>12. CASE CleanupStep \/ UNCHANGED vars
  <2>1. UNCHANGED <<unsent, wch, handling>>
    BY <1>12 DEF CleanupStep, WatchCleanup, vars
  <2> QED
    BY <2>1
<1> QED
  BY <1>5, <1>6, <1>7, <1>8, <1>9, <1>10, <1>11, <1>12 DEF Next

\* The snapshot's number never falls.
LEMMA SnapshotGrows ==
  ASSUME TypeOK, HandledAfterList, [Next]_vars
  PROVE  currentVer' \in Nat /\ currentVer \in Nat /\ currentVer <= currentVer'
<1> USE DEF loopVars, providerVars
<1>0. currentVer \in Nat /\ listedVer \in Nat
  BY DEF TypeOK, ProviderTypeOK
<1>1. CASE (NewInstall \/ LoopInstall) /\ Quiet
  BY <1>0, <1>1 DEF NewInstall, LoopInstall, Install, HandledAfterList
<1>2. CASE NewStep /\ ~NewInstall
  BY <1>0, <1>2 DEF NewStep, NewList, ListStep, StartWatch, NewWatch
<1>3. CASE SelectStep
  BY <1>0, <1>3 DEF SelectStep, LoopDone, SeeClosed, LoopClosed, TakeEvent, LoopEvent,
              LoopTick, LoopTrigger, LoopGoto
<1>4. CASE RefreshStep /\ ~LoopInstall
  BY <1>0, <1>4 DEF RefreshStep, ListNow, LoopList, ListStep, Notify
<1>5. CASE SubStep
  BY <1>0, <1>5 DEF SubStep, Subscribe, SubCancel, SubCleanup, SubRecv
<1>6. CASE CallStep
  BY <1>0, <1>6 DEF CallStep, RequestRefresh, ParentCancel, CloseSubs, CloseStore,
              CloseEnter, CloseReturn
<1>7. CASE WriteStep \/ BroadcastStep \/ CleanupStep \/ UNCHANGED vars
  BY <1>0, <1>7 DEF WriteStep, BroadcastStep, CleanupStep, vars
<1>8. NewStep => (NewInstall /\ Quiet) \/ (NewStep /\ ~NewInstall)
  <2>1. NewInstall => pc = "newInstall" /\ pc' = "newWatch"
    BY DEF NewInstall
  <2>2. NewList(MemList(NS), LatestVer) => pc = "newList"
    BY DEF NewList, ListStep
  <2>3. StartWatch => pc = "newWatch"
    BY DEF StartWatch, NewWatch
  <2> QED
    BY <2>1, <2>2, <2>3 DEF NewStep
<1>9. RefreshStep => (LoopInstall /\ Quiet) \/ (RefreshStep /\ ~LoopInstall)
  BY DEF RefreshStep, ListNow
<1> QED
  BY <1>1, <1>2, <1>3, <1>4, <1>5, <1>6, <1>7, <1>8, <1>9 DEF Next

(***************************************************************************)
(* A record of the audit trail after a step is one from before it, or the  *)
(* record of a write whose event has yet to be broadcast.                  *)
(***************************************************************************)
LEMMA RecordKept ==
  ASSUME TypeOK, ChannelInv, [Next]_vars, NEW i \in 1..Len(audit')
  PROVE  \/ i \in 1..Len(audit) /\ audit'[i] = audit[i]
         \/ InTransit(i + 1)'
<1>1. CASE ~WriteStep
  BY <1>1, NonWriteFrame
<1>2. CASE WriteStep
  <2>1. PICK rec \in AuditRecord, new \in ChangeEvent :
          /\ audit' = Append(audit, rec) /\ unsent' = unsent \cup {new}
          /\ new.ver = Len(audit) + 2
    BY <1>2, WriteFrame
  <2>2. audit \in Seq(AuditRecord)
    BY DEF TypeOK, MemTypeOK
  <2>3. CASE i = Len(audit) + 1
    <3>1. new.ver = i + 1
      BY <2>1, <2>2, <2>3
    <3> QED
      BY <2>1, <3>1 DEF InTransit
  <2>4. CASE i # Len(audit) + 1
    BY <2>1, <2>2, <2>4
  <2> QED
    BY <2>3, <2>4
<1> QED
  BY <1>1, <1>2

\* When Watch registers, every change so far precedes watchVer.
LEMMA WatchCoversPast ==
  ASSUME TypeOK, StartWatch, NEW i \in 1..Len(audit')
  PROVE  ~(i + 1 > watchVer')
<1>1. audit' = audit /\ watchVer' = Len(audit) + 1 /\ Len(audit) \in Nat
  BY DEF StartWatch, Watch, LatestVer, TypeOK, MemTypeOK
<1> QED
  BY <1>1

\* A change the snapshot does not have keeps its event on the way.
LEMMA NextUnread ==
  ASSUME TypeOK, ChannelInv, EventsRecorded, HandledAfterList, UnreadInTransit,
         [Next]_vars
  PROVE  UnreadInTransit'
<1> SUFFICES ASSUME Attached', ~overflowed', NEW i \in 1..Len(audit'),
                    audit'[i].ns = NS, Strategy[audit'[i].key] = Recreate,
                    i + 1 > watchVer', i + 1 > currentVer',
                    ~InTransit(i + 1)'
             PROVE  FALSE
  BY DEF UnreadInTransit
<1>1. ~StartWatch
  BY WatchCoversPast
<1>2. i \in 1..Len(audit) /\ audit'[i] = audit[i]
  BY RecordKept
<1>3. Attached /\ ~overflowed /\ watchVer' = watchVer
  BY <1>1, AttachedBefore
<1>4. i \in Nat /\ currentVer \in Nat /\ currentVer' \in Nat /\ currentVer <= currentVer'
  BY <1>2, SnapshotGrows
<1>5. i + 1 > currentVer
  BY <1>4
<1>6. InTransit(i + 1)
  BY <1>2, <1>3, <1>5 DEF UnreadInTransit
<1>7. Notify /\ \E ev \in handling : ev.ver = i + 1
  BY <1>2, <1>3, <1>6, TransitKept
<1>8. i + 1 <= currentVer
  BY <1>7 DEF Notify, HandledAfterList
<1> QED
  BY <1>4, <1>5, <1>8

-----------------------------------------------------------------------------
\* Notify leaves an event in the channel of every subscriber.
LEMMA NotifyFills ==
  ASSUME TypeOK, Notify, NEW s \in subs'
  PROVE  subCh'[s] # << >>
<1>1. s \in subs /\ s \in Subs /\ subCh[s] \in Seq(ChangeEvent)
  BY DEF Notify, TypeOK, ProviderTypeOK
<1>2. PICK ev \in handling :
        subCh' = [t \in Subs |->
                    IF t \in subs /\ Len(subCh[t]) < SubBuf
                    THEN Append(subCh[t], ev) ELSE subCh[t]]
  BY DEF Notify
<1>3. CASE Len(subCh[s]) < SubBuf
  <2>1. subCh'[s] = Append(subCh[s], ev) /\ ev \in ChangeEvent
    BY <1>1, <1>2, <1>3 DEF TypeOK, ProviderTypeOK
  <2>2. Len(subCh'[s]) = Len(subCh[s]) + 1 /\ Len(subCh[s]) \in Nat
    BY <1>1, <2>1
  <2> QED
    BY <2>2
<1>4. CASE ~(Len(subCh[s]) < SubBuf)
  <2>1. subCh'[s] = subCh[s]
    BY <1>1, <1>2, <1>4
  <2> QED
    BY <1>1, <1>4, <2>1, ProviderAssumption
<1> QED
  BY <1>3, <1>4

\* Apart from Notify, a subscriber's channel is its own business.
LEMMA SubscriberFrame ==
  ASSUME TypeOK, [Next]_vars, ~Notify, NEW s \in subs'
  PROVE  \/ s \in subs /\ built'[s] = built[s] /\ subCh'[s] = subCh[s]
         \/ built'[s] = currentVer /\ UNCHANGED <<loopVars, memVars, histVars>>
<1> USE DEF loopVars, providerVars, subVars
<1>0. /\ subs \subseteq Subs /\ built \in [Subs -> Nat]
      /\ subCh \in [Subs -> Seq(ChangeEvent)]
  BY DEF TypeOK, ProviderTypeOK
<1>1. CASE NewStep
  BY <1>1 DEF NewStep, NewList, ListStep, NewInstall, StartWatch, NewWatch
<1>2. CASE SelectStep
  BY <1>2 DEF SelectStep, LoopDone, SeeClosed, LoopClosed, TakeEvent, LoopEvent,
              LoopTick, LoopTrigger, LoopGoto
<1>3. CASE RefreshStep
  BY <1>3 DEF RefreshStep, ListNow, LoopList, ListStep, LoopInstall
<1>4. CASE SubStep
  <2>1. PICK t \in Subs : (Subscribe(t) \/ SubCancel(t) \/ SubCleanup(t) \/ SubRecv(t))
                          /\ Quiet
    BY <1>4 DEF SubStep
  <2>2. CASE Subscribe(t)
    BY <1>0, <2>1, <2>2 DEF Subscribe, Quiet
  <2>3. CASE SubCancel(t) \/ SubCleanup(t)
    BY <2>1, <2>3 DEF SubCancel, SubCleanup
  <2>4. CASE SubRecv(t)
    BY <1>0, <2>1, <2>4 DEF SubRecv, Quiet
  <2> QED
    BY <2>1, <2>2, <2>3, <2>4
<1>5. CASE CallStep
  BY <1>5 DEF CallStep, RequestRefresh, ParentCancel, CloseSubs, CloseStore,
              CloseEnter, CloseReturn
<1>6. CASE WriteStep \/ BroadcastStep \/ CleanupStep \/ UNCHANGED vars
  BY <1>6 DEF WriteStep, BroadcastStep, CleanupStep, vars
<1> QED
  BY <1>1, <1>2, <1>3, <1>4, <1>5, <1>6 DEF Next

\* A subscriber with an outdated resource has an event waiting or on the way.
LEMMA NextRebuild ==
  ASSUME TypeOK, ChannelInv, EventsRecorded, HandledAfterList, UnreadInTransit,
         NoMissedRebuild, [Next]_vars
  PROVE  NoMissedRebuild'
<1> SUFFICES ASSUME Attached', ~overflowed', NEW s \in subs',
                    NEW i \in 1..Len(audit'),
                    audit'[i].ns = NS, Strategy[audit'[i].key] = Recreate,
                    i + 1 > watchVer', i + 1 > built'[s],
                    subCh'[s] = << >>, ~InTransit(i + 1)'
             PROVE  FALSE
  BY DEF NoMissedRebuild
<1>1. ~StartWatch
  BY WatchCoversPast
<1>2. i \in 1..Len(audit) /\ audit'[i] = audit[i]
  BY RecordKept
<1>3. Attached /\ ~overflowed /\ watchVer' = watchVer
  BY <1>1, AttachedBefore
<1>4. ~Notify
  BY NotifyFills
<1>5. ~InTransit(i + 1)
  BY <1>2, <1>3, <1>4, TransitKept
<1>6. CASE s \in subs /\ built'[s] = built[s] /\ subCh'[s] = subCh[s]
  BY <1>2, <1>3, <1>5, <1>6 DEF NoMissedRebuild
<1>7. CASE built'[s] = currentVer
  BY <1>2, <1>3, <1>5, <1>7 DEF UnreadInTransit
<1> QED
  BY <1>4, <1>6, <1>7, SubscriberFrame

(***************************************************************************)
(* The inductive invariant of a Provider on a MemStore.                    *)
(***************************************************************************)
MInv ==
  /\ TypeOK
  /\ ChannelInv
  /\ StoryInv
  /\ HandledAfterList
  /\ UnreadInTransit
  /\ NoMissedRebuild

\* MInv holds in every reachable state.
LEMMA MemInvariance == Spec => []MInv
<1>1. Init => MInv
  <2>1. Init => UnreadInTransit /\ NoMissedRebuild
    BY DEF Init, ProviderInit, UnreadInTransit, NoMissedRebuild, Attached, LoopAlive,
           LoopSteps
  <2> QED
    BY <2>1, InitTypeOK, InitChannels, InitStory, InitHandled DEF MInv
<1>2. MInv /\ [Next]_vars => MInv'
  <2> SUFFICES ASSUME MInv, [Next]_vars PROVE MInv'
    OBVIOUS
  <2> USE DEF MInv
  <2>1. TypeOK' /\ ChannelInv'
    BY NextTypeOK, NextChannels
  <2>2. StoryInv'
    BY NextStory
  <2>3. EventsRecorded
    BY DEF StoryInv
  <2>4. HandledAfterList' /\ UnreadInTransit' /\ NoMissedRebuild'
    BY <2>3, NextHandled, NextUnread, NextRebuild
  <2> QED
    BY <2>1, <2>2, <2>4
<1> QED
  BY <1>1, <1>2, PTL DEF Spec

(***************************************************************************)
(* As long as the watch channel has not overflowed, no recreate-on-change  *)
(* write is missed by a subscriber, for any buffer sizes and any number of *)
(* subscribers, namespaces, keys and writers.                              *)
(***************************************************************************)
THEOREM RebuildNotMissed == Spec => []NoMissedRebuild
<1>1. MInv => NoMissedRebuild
  BY DEF MInv
<1> QED
  BY <1>1, MemInvariance, PTL

-----------------------------------------------------------------------------
(***************************************************************************)
(* A MemStore implements StoreContract.  First, what the contract of       *)
(* LiveStore calls Latest is what List of a MemStore returns.              *)
(***************************************************************************)
LEMMA ListIsLatest ==
  ASSUME TypeOK, StatesFollowAudit
  PROVE  OnContract!Latest = MemList(NS) /\ OnContract!LatestVer = LatestVer
BY DEF StatesFollowAudit, MemList, LatestVer, OnContract!Latest, OnContract!LatestVer

\* A broadcast event of the Provider's namespace announces a change.
LEMMA BroadcastAnnounces ==
  ASSUME TypeOK, StoryInv, NEW ev \in unsent, ev.ns = NS
  PROVE  ev \in OnContract!Announcements
<1>1. /\ ev.ver \in 2..Len(states)
      /\ ev.new = TextOf(states[ev.ver][ev.key])
      /\ ev.old = TextOf(states[ev.ver - 1][ev.key])
  BY DEF StoryInv, UnsentTellChange
<1>2. ev \in ChangeEvent
  BY DEF TypeOK, MemTypeOK
<1>3. ev \in [ns : {NS}, key : Keys, old : RawValues, new : RawValues,
              ver : 2..Len(states)]
  BY <1>1, <1>2 DEF ChangeEvent
<1>4. ev.ver - 1 \in 1..(ev.ver - 1)
  BY <1>1
<1>5. OnContract!AnnouncesChange(ev)
  BY <1>1, <1>4 DEF OnContract!AnnouncesChange, OnContract!TextOf, TextOf
<1> QED
  BY <1>3, <1>5 DEF OnContract!Announcements

\* Every step of the composition is a step, or a stutter, of LiveStore.
LEMMA MemRefines ==
  ASSUME TypeOK, ChannelInv, StoryInv, [Next]_vars
  PROVE  [OnContract!Next]_(OnContract!vars)
<1> USE DEF reqVars, subVars, stopVars, loopVars, OnContract!reqVars,
            OnContract!subVars, OnContract!stopVars, OnContract!loopVars
<1>1. /\ Self \in Watchers /\ wch[Self] \in Seq(ChangeEvent)
      /\ wch \in [Watchers -> Seq(ChangeEvent)]
      /\ wState \in [Watchers -> {"none", "open", "closed"}]
  BY LiveMemAssumption DEF TypeOK, MemTypeOK
<1>2. ASSUME Quiet PROVE UNCHANGED OnContract!storeVars
  BY <1>2 DEF Quiet, memVars, histVars, OnContract!storeVars
<1>3. OnContract!Latest = MemList(NS) /\ OnContract!LatestVer = LatestVer
  BY ListIsLatest DEF StoryInv
<1>4. CASE NewStep
  <2>1. CASE NewList(MemList(NS), LatestVer) /\ Quiet
    <3>1. OnContract!NewList(OnContract!Latest, OnContract!LatestVer)
      BY <1>3, <2>1 DEF NewList, ListStep, OnContract!NewList, OnContract!ListStep
    <3> QED
      BY <1>2, <2>1, <3>1 DEF OnContract!NewStep, OnContract!Next
  <2>2. CASE NewInstall /\ Quiet
    <3>1. OnContract!NewInstall
      BY <2>2 DEF NewInstall, Install, ApplyOverrides, InCatalog, TextOf, NoOverrides,
                  ReloadStrategies, Live, Recreate, Restart,
                  OnContract!NewInstall, OnContract!Install, OnContract!ApplyOverrides,
                  OnContract!InCatalog, OnContract!TextOf, OnContract!NoOverrides,
                  OnContract!ReloadStrategies, OnContract!Live, OnContract!Recreate,
                  OnContract!Restart
    <3> QED
      BY <1>2, <2>2, <3>1 DEF OnContract!NewStep, OnContract!Next
  <2>3. CASE StartWatch
    <3>1. OnContract!NewWatch /\ OnContract!OpenWatch
      BY <1>1, <2>3 DEF StartWatch, NewWatch, Watch, OnContract!NewWatch,
                        OnContract!OpenWatch
    <3> QED
      BY <3>1 DEF OnContract!NewStep, OnContract!Next
  <2> QED
    BY <1>4, <2>1, <2>2, <2>3 DEF NewStep
<1>5. CASE SelectStep
  <2> USE DEF LoopGoto, OnContract!LoopGoto
  <2>0. SUFFICES OnContract!SelectStep
    BY DEF OnContract!Next
  <2>1. CASE LoopDone /\ Quiet
    <3>1. OnContract!LoopDone
      BY <2>1 DEF LoopDone, OnContract!LoopDone
    <3> QED
      BY <1>2, <2>1, <3>1 DEF OnContract!SelectStep
  <2>2. CASE SeeClosed
    <3>1. OnContract!LoopClosed /\ Quiet /\ wState[Self] = "closed" /\ wch[Self] = << >>
      BY <2>2 DEF SeeClosed, LoopClosed, OnContract!LoopClosed
    <3> QED
      BY <1>2, <3>1 DEF OnContract!SeeClosed, OnContract!SelectStep
  <2>3. CASE TakeEvent
    <3>1. OnContract!LoopEvent(Head(wch[Self]))
      BY <2>3 DEF TakeEvent, LoopEvent, OnContract!LoopEvent
    <3>2. OnContract!Receive
      BY <1>1, <2>3 DEF TakeEvent, WatchRecv, histVars, OnContract!Receive
    <3> QED
      BY <2>3, <3>1, <3>2 DEF TakeEvent, OnContract!TakeEvent, OnContract!SelectStep
  <2>4. CASE LoopTick /\ Quiet
    <3>1. OnContract!LoopTick
      BY <2>4 DEF LoopTick, OnContract!LoopTick
    <3> QED
      BY <1>2, <2>4, <3>1 DEF OnContract!SelectStep
  <2>5. CASE LoopTrigger /\ Quiet
    <3>1. OnContract!LoopTrigger
      BY <2>5 DEF LoopTrigger, OnContract!LoopTrigger
    <3> QED
      BY <1>2, <2>5, <3>1 DEF OnContract!SelectStep
  <2> QED
    BY <1>5, <2>1, <2>2, <2>3, <2>4, <2>5 DEF SelectStep
<1>6. CASE RefreshStep
  <2>0. SUFFICES OnContract!RefreshStep
    BY DEF OnContract!Next
  <2>1. CASE ListNow
    <3>1. OnContract!LoopList(OnContract!Latest, OnContract!LatestVer)
      BY <1>3, <2>1 DEF ListNow, LoopList, ListStep, OnContract!LoopList,
                        OnContract!ListStep
    <3> QED
      BY <1>2, <2>1, <3>1 DEF ListNow, OnContract!ListNow, OnContract!RefreshStep
  <2>2. CASE LoopInstall /\ Quiet
    <3>1. OnContract!LoopInstall
      BY <2>2 DEF LoopInstall, Install, MustNotify, ApplyOverrides, InCatalog, TextOf,
                  NoOverrides, ReloadStrategies, Live, Recreate, Restart,
                  OnContract!LoopInstall, OnContract!Install, OnContract!MustNotify,
                  OnContract!ApplyOverrides, OnContract!InCatalog, OnContract!TextOf,
                  OnContract!NoOverrides, OnContract!ReloadStrategies,
                  OnContract!Live, OnContract!Recreate, OnContract!Restart
    <3> QED
      BY <1>2, <2>2, <3>1 DEF OnContract!RefreshStep
  <2>3. CASE Notify /\ Quiet
    <3>1. OnContract!Notify
      BY <2>3 DEF Notify, OnContract!Notify
    <3> QED
      BY <1>2, <2>3, <3>1 DEF OnContract!RefreshStep
  <2> QED
    BY <1>6, <2>1, <2>2, <2>3 DEF RefreshStep
<1>7. CASE SubStep
  <2>0. SUFFICES OnContract!SubStep
    BY DEF OnContract!Next
  <2>1. PICK s \in Subs : (Subscribe(s) \/ SubCancel(s) \/ SubCleanup(s) \/ SubRecv(s))
                          /\ Quiet
    BY <1>7 DEF SubStep
  <2>2. CASE Subscribe(s)
    <3>1. OnContract!Subscribe(s)
      BY <2>2 DEF Subscribe, Constructed, LoopSteps, OnContract!Subscribe,
                  OnContract!Constructed, OnContract!LoopSteps
    <3> QED
      BY <1>2, <2>1, <3>1 DEF OnContract!SubStep
  <2>3. CASE SubCancel(s)
    <3>1. OnContract!SubCancel(s)
      BY <2>3 DEF SubCancel, OnContract!SubCancel
    <3> QED
      BY <1>2, <2>1, <3>1 DEF OnContract!SubStep
  <2>4. CASE SubCleanup(s)
    <3>1. OnContract!SubCleanup(s)
      BY <2>4 DEF SubCleanup, OnContract!SubCleanup
    <3> QED
      BY <1>2, <2>1, <3>1 DEF OnContract!SubStep
  <2>5. CASE SubRecv(s)
    <3>1. OnContract!SubRecv(s)
      BY <2>5 DEF SubRecv, OnContract!SubRecv
    <3> QED
      BY <1>2, <2>1, <3>1 DEF OnContract!SubStep
  <2> QED
    BY <2>1, <2>2, <2>3, <2>4, <2>5
<1>8. CASE CallStep
  <2>0. UNCHANGED OnContract!storeVars
    BY <1>2, <1>8 DEF CallStep
  <2> USE DEF Constructed, LoopSteps, OnContract!Constructed, OnContract!LoopSteps
  <2>1. SUFFICES OnContract!CallStep
    BY DEF OnContract!Next
  <2>2. CASE RequestRefresh(LatestVer)
    <3>1. OnContract!RequestRefresh(OnContract!LatestVer)
      BY <1>3, <2>2 DEF RequestRefresh, OnContract!RequestRefresh
    <3> QED
      BY <2>0, <3>1 DEF OnContract!CallStep
  <2>3. CASE ParentCancel
    <3>1. OnContract!ParentCancel
      BY <2>3 DEF ParentCancel, OnContract!ParentCancel
    <3> QED
      BY <2>0, <3>1 DEF OnContract!CallStep
  <2>4. CASE CloseSubs
    <3>1. OnContract!CloseSubs
      BY <2>4 DEF CloseSubs, OnContract!CloseSubs
    <3> QED
      BY <2>0, <3>1 DEF OnContract!CallStep
  <2>5. CASE CloseStore
    <3>1. OnContract!CloseStore
      BY <2>5 DEF CloseStore, OnContract!CloseStore
    <3> QED
      BY <2>0, <3>1 DEF OnContract!CallStep
  <2>6. ASSUME NEW c \in Closers, CloseEnter(c) PROVE OnContract!CallStep
    <3>1. OnContract!CloseEnter(c)
      BY <2>6 DEF CloseEnter, OnContract!CloseEnter
    <3> QED
      BY <2>0, <3>1 DEF OnContract!CallStep
  <2>7. ASSUME NEW c \in Closers, CloseReturn(c) PROVE OnContract!CallStep
    <3>1. OnContract!CloseReturn(c)
      BY <2>7 DEF CloseReturn, OnContract!CloseReturn
    <3> QED
      BY <2>0, <3>1 DEF OnContract!CallStep
  <2> QED
    BY <1>8, <2>2, <2>3, <2>4, <2>5, <2>6, <2>7 DEF CallStep
<1>9. ASSUME UNCHANGED providerVars PROVE UNCHANGED OnContract!providerVars
  BY <1>9 DEF providerVars, OnContract!providerVars
<1>10. CASE WriteStep
  <2>1. /\ UNCHANGED providerVars /\ Len(audit) < MaxWrites
        /\ states' = Append(states, data'[NS]) /\ data'[NS] \in Overrides
        /\ UNCHANGED <<wch, wState>>
    BY <1>10, WriteFrame
  <2>2. Len(states) < MaxWrites + 1
    BY <2>1, MemAssumption DEF StoryInv, StatesFollowAudit, TypeOK, MemTypeOK
  <2>3. OnContract!Change(data'[NS])
    BY <2>1, <2>2 DEF OnContract!Change
  <2> QED
    BY <1>9, <2>1, <2>3 DEF OnContract!StoreStep, OnContract!Next
<1>11. CASE BroadcastStep
  <2>1. PICK ev \in unsent : Broadcast(ev)
    BY <1>11 DEF BroadcastStep
  <2>2. UNCHANGED OnContract!providerVars /\ UNCHANGED <<states, wState>>
    BY <1>9, <1>11, <2>1 DEF BroadcastStep, Broadcast
  <2>3. CASE Self \in watchers /\ ev.ns = NS /\ Len(wch[Self]) < WatchBuf
    <3>1. wch'[Self] = Append(wch[Self], ev)
      BY <1>1, <2>1, <2>3, LiveMemAssumption DEF Broadcast
    <3>2. wState[Self] = "open"
      BY <1>1, <2>3 DEF ChannelInv, RegisteredOpen
    <3>3. OnContract!Deliver(ev)
      BY <2>2, <2>3, <3>1, <3>2 DEF OnContract!Deliver
    <3> QED
      BY <2>2, <2>3, <3>3, BroadcastAnnounces DEF OnContract!StoreStep, OnContract!Next
  <2>4. CASE ~(Self \in watchers /\ ev.ns = NS /\ Len(wch[Self]) < WatchBuf)
    <3>1. wch'[Self] = wch[Self]
      BY <1>1, <2>1, <2>4, LiveMemAssumption DEF Broadcast
    <3> QED
      BY <2>2, <3>1 DEF OnContract!vars, OnContract!storeVars
  <2> QED
    BY <2>3, <2>4
<1>12. CASE CleanupStep
  <2>1. wState[Self] = "open"
    BY <1>1, <1>12 DEF CleanupStep, WatchCleanup, ChannelInv, RegisteredOpen
  <2>2. OnContract!CloseWatch
    BY <1>1, <1>12, <2>1 DEF CleanupStep, WatchCleanup, histVars, OnContract!CloseWatch
  <2> QED
    BY <1>9, <1>12, <2>2 DEF CleanupStep, OnContract!StoreStep, OnContract!Next
<1>13. CASE UNCHANGED vars
  <2>1. UNCHANGED <<wch, wState, states>>
    BY <1>13 DEF vars, memVars, histVars
  <2> QED
    BY <1>9, <1>13, <2>1 DEF vars, OnContract!vars, OnContract!storeVars
<1> QED
  BY <1>4, <1>5, <1>6, <1>7, <1>8, <1>10, <1>11, <1>12, <1>13 DEF Next

\* The empty MemStore is an initial state of the contract.
LEMMA MemInitRefines == Init => OnContract!Init
<1> SUFFICES ASSUME Init PROVE OnContract!Init
  OBVIOUS
<1>1. OnContract!ProviderInit
  BY DEF Init, ProviderInit, NoOverrides, NilConfig, OnContract!ProviderInit,
         OnContract!NoOverrides, OnContract!NilConfig
<1>2. NoOverrides \in Overrides /\ states = <<NoOverrides>>
  BY DEF Init, NoOverrides, Overrides
<1>3. wch[Self] = << >> /\ wState[Self] = "none"
  BY LiveMemAssumption DEF Init, MemInit
<1> QED
  BY <1>1, <1>2, <1>3 DEF OnContract!Init, OnContract!ContractInit

(***************************************************************************)
(* A MemStore keeps the contract of StoreContract: the composition         *)
(* implements LiveStore with the Provider's own channel as the watch       *)
(* channel, so what is proved of LiveStore holds for a MemStore.           *)
(***************************************************************************)
THEOREM MemKeepsContract == Spec => ImplementsLiveStore
<1>1. MInv /\ [Next]_vars => [OnContract!Next]_(OnContract!vars)
  BY MemRefines DEF MInv
<1> QED
  BY <1>1, MemInitRefines, MemInvariance, PTL
     DEF Spec, ImplementsLiveStore, OnContract!Spec

=============================================================================
