-------------------------- MODULE LiveStoreProofs --------------------------
(***************************************************************************)
(* Proofs about the Provider on any store: type correctness, the safety    *)
(* invariants and the refinement of LiveView, for every value of the       *)
(* constants.                                                              *)
(***************************************************************************)
EXTENDS LiveStore, TLAPS

(***************************************************************************)
(* applyOverrides always returns a complete config struct: parse errors    *)
(* and unknown keys leave the base value.                                  *)
(***************************************************************************)
LEMMA ApplyOverridesType ==
  ASSUME NEW ovr \in Overrides
  PROVE  ApplyOverrides(ovr) \in Config
<1> SUFFICES ASSUME NEW k \in Keys
             PROVE  ApplyOverrides(ovr)[k] \in FieldValues
  BY DEF ApplyOverrides, Config
<1>1. Base[k] \in FieldValues
  BY DataAssumption
<1>2. TextOf(ovr[k]) \in RawValues
  BY DataAssumption DEF TextOf, Overrides
<1>3. Parse[k][TextOf(ovr[k])] \in FieldValues \cup {Invalid}
  BY <1>2, DataAssumption
<1> QED
  BY <1>1, <1>3 DEF ApplyOverrides

\* What the store delivers is a ChangeEvent of a state it has reached.
LEMMA AnnouncementsType ==
  ASSUME ContractTypeOK, NEW ev \in Announcements
  PROVE  ev \in ChangeEvent /\ ev.ver \in 2..Len(states)
<1> USE ContractAssumption
<1>1. 2..Len(states) \subseteq Nat
  BY DEF ContractTypeOK
<1> QED
  BY <1>1 DEF Announcements, ChangeEvent

\* The newest state of the store is one of its states.
LEMMA LatestType ==
  ASSUME ContractTypeOK
  PROVE  Latest \in Overrides /\ LatestVer \in Nat /\ LatestVer >= 1
BY ContractAssumption DEF ContractTypeOK, Latest, LatestVer

(***************************************************************************)
(* TypeOK is inductive.                                                    *)
(***************************************************************************)
LEMMA InitTypeOK == Init => TypeOK
<1> SUFFICES ASSUME Init PROVE TypeOK
  OBVIOUS
<1>1. NoOverrides \in Overrides
  BY DEF NoOverrides, Overrides
<1>2. ProviderTypeOK
  <2>1. subCh \in [Subs -> Seq(ChangeEvent)]
    BY DEF Init, ProviderInit
  <2>2. /\ current \in Config \cup {NilConfig}
        /\ listed \in Overrides
    BY <1>1 DEF Init, ProviderInit
  <2>3. /\ subState \in [Subs -> {"none", "open", "closed"}]
        /\ built \in [Subs -> Nat]
        /\ closer \in [Closers -> {"idle", "in", "returned"}]
    BY DEF Init, ProviderInit
  <2> QED
    BY <2>1, <2>2, <2>3 DEF Init, ProviderInit, ProviderTypeOK, NewSteps
<1>3. ContractTypeOK
  <2>1. PICK ovr \in StoreStates : states = <<ovr>>
    BY DEF Init, ContractInit
  <2>2. states \in Seq(StoreStates) /\ Len(states) = 1
    BY <2>1
  <2> QED
    BY <2>2 DEF Init, ContractInit, ContractTypeOK
<1> QED
  BY <1>2, <1>3 DEF TypeOK

\* Every step preserves TypeOK, action by action.
LEMMA NextTypeOK == TypeOK /\ [Next]_vars => TypeOK'
<1> SUFFICES ASSUME TypeOK, [Next]_vars PROVE TypeOK'
  OBVIOUS
<1> USE DEF TypeOK, ProviderTypeOK, NewSteps, LoopSteps, loopVars, reqVars,
            subVars, stopVars, providerVars, storeVars
<1>0. Latest \in Overrides /\ LatestVer \in Nat
  BY LatestType
<1>1. CASE NewStep
  <2>1. CASE NewList(Latest, LatestVer) /\ UNCHANGED storeVars
    BY <1>0, <2>1 DEF NewList, ListStep, ContractTypeOK
  <2>2. CASE NewListFail /\ UNCHANGED storeVars
    BY <2>2 DEF NewListFail, ContractTypeOK
  <2>3. CASE NewInstall /\ UNCHANGED storeVars
    BY <2>3, ApplyOverridesType, DataAssumption DEF NewInstall, Install, ContractTypeOK, NoOverrides, Overrides
  <2>4. CASE NewWatch /\ OpenWatch
    BY <2>4 DEF NewWatch, OpenWatch, ContractTypeOK
  <2>5. CASE NewWatchFail /\ UNCHANGED storeVars
    BY <2>5 DEF NewWatchFail, ContractTypeOK
  <2> QED
    BY <1>1, <2>1, <2>2, <2>3, <2>4, <2>5 DEF NewStep
<1>2. CASE SelectStep
  <2> USE DEF LoopGoto, ContractTypeOK
  <2>1. CASE LoopDone /\ UNCHANGED storeVars
    BY <2>1 DEF LoopDone
  <2>2. CASE SeeClosed
    BY <2>2 DEF SeeClosed, LoopClosed
  <2>3. CASE TakeEvent
    BY <2>3 DEF TakeEvent, LoopEvent, Receive
  <2>4. CASE LoopTick /\ UNCHANGED storeVars
    BY <2>4 DEF LoopTick
  <2>5. CASE LoopTrigger /\ UNCHANGED storeVars
    BY <2>5 DEF LoopTrigger
  <2> QED
    BY <1>2, <2>1, <2>2, <2>3, <2>4, <2>5 DEF SelectStep
<1>3. CASE RefreshStep
  <2> USE DEF ContractTypeOK
  <2>1. CASE ListNow
    BY <1>0, <2>1 DEF ListNow, LoopList, ListStep
  <2>2. CASE LoopListFail /\ UNCHANGED storeVars
    BY <2>2 DEF LoopListFail
  <2>3. CASE LoopInstall /\ UNCHANGED storeVars
    BY <2>3, ApplyOverridesType, DataAssumption DEF LoopInstall, Install, NoOverrides, Overrides
  <2>4. CASE Notify /\ UNCHANGED storeVars
    BY <2>4 DEF Notify
  <2> QED
    BY <1>3, <2>1, <2>2, <2>3, <2>4 DEF RefreshStep
<1>4. CASE SubStep
  <2> USE DEF ContractTypeOK
  <2> PICK s \in Subs : (Subscribe(s) \/ SubCancel(s) \/ SubCleanup(s) \/ SubRecv(s))
                        /\ UNCHANGED storeVars
    BY <1>4 DEF SubStep
  <2>1. CASE Subscribe(s)
    BY <2>1 DEF Subscribe
  <2>2. CASE SubCancel(s)
    BY <2>2 DEF SubCancel
  <2>3. CASE SubCleanup(s)
    BY <2>3 DEF SubCleanup
  <2>4. CASE SubRecv(s)
    BY <2>4 DEF SubRecv
  <2> QED
    BY <2>1, <2>2, <2>3, <2>4
<1>5. CASE CallStep
  <2> USE DEF ContractTypeOK
  <2>0. UNCHANGED storeVars
    BY <1>5 DEF CallStep
  <2>1. CASE RequestRefresh(LatestVer)
    BY <1>0, <2>0, <2>1 DEF RequestRefresh
  <2>2. CASE ParentCancel
    BY <2>0, <2>2 DEF ParentCancel
  <2>3. CASE CloseSubs
    BY <2>0, <2>3 DEF CloseSubs
  <2>4. CASE CloseStore
    BY <2>0, <2>4 DEF CloseStore
  <2>5. ASSUME NEW c \in Closers, CloseEnter(c) PROVE TypeOK'
    <3>1. closer' \in [Closers -> {"idle", "in", "returned"}]
      BY <2>5 DEF CloseEnter
    <3>2. CASE once = "idle"
      BY <2>0, <2>5, <3>1, <3>2 DEF CloseEnter
    <3>3. CASE once # "idle"
      BY <2>0, <2>5, <3>1, <3>3 DEF CloseEnter
    <3> QED
      BY <3>2, <3>3
  <2>6. ASSUME NEW c \in Closers, CloseReturn(c) PROVE TypeOK'
    BY <2>0, <2>6 DEF CloseReturn
  <2> QED
    BY <1>5, <2>1, <2>2, <2>3, <2>4, <2>5, <2>6 DEF CallStep
<1>6. CASE StoreStep
  <2> USE DEF ContractTypeOK
  <2>0. UNCHANGED providerVars
    BY <1>6 DEF StoreStep
  <2>1. ASSUME NEW ovr \in StoreStates, Change(ovr) PROVE TypeOK'
    BY <2>0, <2>1 DEF Change
  <2>2. ASSUME NEW ev \in Announcements, Deliver(ev) PROVE TypeOK'
    BY <2>0, <2>2, AnnouncementsType DEF Deliver
  <2>3. CASE CloseWatch
    BY <2>0, <2>3 DEF CloseWatch
  <2> QED
    BY <1>6, <2>1, <2>2, <2>3 DEF StoreStep
<1>7. CASE UNCHANGED vars
  BY <1>7 DEF vars, ContractTypeOK
<1> QED
  BY <1>1, <1>2, <1>3, <1>4, <1>5, <1>6, <1>7 DEF Next

\* Type correctness of the Provider and the store contract.
THEOREM TypeCorrect == Spec => []TypeOK
BY InitTypeOK, NextTypeOK, PTL DEF Spec

-----------------------------------------------------------------------------
(***************************************************************************)
(* The inductive invariant.  A registered channel is open; every version   *)
(* number is one the store has reached; what refresh has listed is a store *)
(* state at least as new as the snapshot, as the event being handled and   *)
(* as the last Refresh request it serves.                                  *)
(***************************************************************************)
RegisteredOpen == \A s \in subs : subState[s] = "open"

Reached ==
  /\ currentVer <= Len(states)
  /\ asked <= Len(states)
  /\ ~Constructed => asked = 0
  /\ notified <= currentVer
  /\ \A i \in 1..Len(watchCh) : watchCh[i].ver <= Len(states)
  /\ \A ev \in handling : ev.ver <= Len(states)

ListedIsState ==
  pc \in {"newInstall", "install"} =>
    /\ listedVer \in 1..Len(states)
    /\ listed = states[listedVer]
    /\ currentVer <= listedVer
    /\ asked <= listedVer \/ trigger

HandledIsRead ==
  /\ pc = "install" => \A ev \in handling : ev.ver <= listedVer
  /\ pc = "notify"  => \A ev \in handling : ev.ver <= currentVer

IInv ==
  /\ TypeOK
  /\ NoPanic
  /\ RegisteredOpen
  /\ Reached
  /\ ListedIsState
  /\ HandledIsRead
  /\ EventsNotAhead
  /\ OverflowIsHarmless
  /\ NoLostRefresh

\* The conjuncts of IInv that talk about channels and the ones about versions.
ChannelInv == NoPanic /\ RegisteredOpen
VersionInv ==
  /\ Reached /\ ListedIsState /\ HandledIsRead
  /\ EventsNotAhead /\ OverflowIsHarmless /\ NoLostRefresh

\* The inductive invariant holds when New starts.
LEMMA InitInv == Init => IInv
<1> SUFFICES ASSUME Init PROVE IInv
  OBVIOUS
<1>1. Len(states) = 1 /\ Len(watchCh) = 0 /\ \A s \in Subs : Len(subCh[s]) = 0
  BY DEF Init, ContractInit, ProviderInit
<1> QED
  BY <1>1, InitTypeOK
     DEF Init, ContractInit, ProviderInit, IInv, NoPanic, RegisteredOpen, Reached,
         ListedIsState, HandledIsRead, EventsNotAhead, OverflowIsHarmless,
         NoLostRefresh, LoopAlive, LoopSteps, Constructed

(***************************************************************************)
(* The mutex discipline of p.subs: Notify, the cleanup goroutines and      *)
(* Close never meet a closed channel in p.subs.                            *)
(***************************************************************************)
LEMMA NextChannelInv ==
  ASSUME TypeOK, ChannelInv, [Next]_vars
  PROVE  ChannelInv'
<1> USE DEF ChannelInv, NoPanic, RegisteredOpen, TypeOK, ProviderTypeOK,
            loopVars, reqVars, subVars, stopVars, providerVars
<1>1. CASE NewStep
  BY <1>1 DEF NewStep, NewList, ListStep, NewListFail, NewInstall, NewWatch,
              NewWatchFail
<1>2. CASE SelectStep
  BY <1>2 DEF SelectStep, LoopDone, SeeClosed, LoopClosed, TakeEvent, LoopEvent,
              LoopTick, LoopTrigger, LoopGoto
<1>3. CASE RefreshStep
  BY <1>3 DEF RefreshStep, ListNow, LoopList, ListStep, LoopListFail, LoopInstall,
              Notify
<1>4. CASE SubStep
  <2> PICK s \in Subs : Subscribe(s) \/ SubCancel(s) \/ SubCleanup(s) \/ SubRecv(s)
    BY <1>4 DEF SubStep
  <2>1. CASE Subscribe(s)
    BY <2>1 DEF Subscribe
  <2>2. CASE SubCancel(s) \/ SubRecv(s)
    BY <2>2 DEF SubCancel, SubRecv
  <2>3. CASE SubCleanup(s)
    BY <2>3 DEF SubCleanup
  <2> QED
    BY <2>1, <2>2, <2>3
<1>5. CASE CallStep
  BY <1>5 DEF CallStep, RequestRefresh, ParentCancel, CloseSubs, CloseStore,
              CloseEnter, CloseReturn
<1>6. CASE StoreStep
  BY <1>6 DEF StoreStep
<1>7. CASE UNCHANGED vars
  BY <1>7 DEF vars
<1> QED
  BY <1>1, <1>2, <1>3, <1>4, <1>5, <1>6, <1>7 DEF Next

\* Events in a subscriber channel are ChangeEvents, with a natural version.
LEMMA QueuedType ==
  ASSUME TypeOK, NEW s \in Subs, NEW i \in 1..Len(subCh[s])
  PROVE  subCh[s][i].ver \in Nat
<1>1. subCh[s] \in Seq(ChangeEvent)
  BY DEF TypeOK, ProviderTypeOK
<1>2. subCh[s][i] \in ChangeEvent
  BY <1>1
<1> QED
  BY <1>2 DEF ChangeEvent

(***************************************************************************)
(* Versions only grow, and the single event loop lists before it installs  *)
(* and installs before it notifies.                                        *)
(***************************************************************************)
LEMMA NextVersionInv ==
  ASSUME IInv, TypeOK', [Next]_vars
  PROVE  VersionInv'
<1> USE DEF IInv, VersionInv, TypeOK, ProviderTypeOK, ContractTypeOK,
            loopVars, reqVars, subVars, stopVars, providerVars, storeVars,
            Reached, ListedIsState, HandledIsRead, EventsNotAhead,
            OverflowIsHarmless, NoLostRefresh, LoopAlive, LoopSteps, Constructed
<1>1. CASE NewStep
  <2>1. CASE NewList(Latest, LatestVer) /\ UNCHANGED storeVars
    BY <2>1 DEF NewList, ListStep, Latest, LatestVer
  <2>2. CASE NewListFail /\ UNCHANGED storeVars
    BY <2>2 DEF NewListFail
  <2>3. CASE NewInstall /\ UNCHANGED storeVars
    <3>1. pc = "newInstall" /\ pc' = "newWatch" /\ currentVer' = listedVer
      BY <2>3 DEF NewInstall, Install
    <3>2. UNCHANGED <<handling, asked, notified, subs, subCh, built, states, watchCh>>
      BY <2>3 DEF NewInstall
    <3>3. Reached'
      BY <3>1, <3>2
    <3>4. EventsNotAhead'
      BY <3>1, <3>2, QueuedType
    <3>5. OverflowIsHarmless' /\ ListedIsState' /\ HandledIsRead' /\ NoLostRefresh'
      BY <3>1, <3>2
    <3> QED
      BY <3>3, <3>4, <3>5
  <2>4. CASE NewWatch /\ OpenWatch
    BY <2>4 DEF NewWatch, OpenWatch
  <2>5. CASE NewWatchFail /\ UNCHANGED storeVars
    BY <2>5 DEF NewWatchFail
  <2> QED
    BY <1>1, <2>1, <2>2, <2>3, <2>4, <2>5 DEF NewStep
<1>2. CASE SelectStep
  <2> USE DEF LoopGoto
  <2>1. CASE LoopDone /\ UNCHANGED storeVars
    BY <2>1 DEF LoopDone
  <2>2. CASE SeeClosed
    BY <2>2 DEF SeeClosed, LoopClosed
  <2>3. CASE TakeEvent
    BY <2>3 DEF TakeEvent, LoopEvent, Receive
  <2>4. CASE LoopTick /\ UNCHANGED storeVars
    BY <2>4 DEF LoopTick
  <2>5. CASE LoopTrigger /\ UNCHANGED storeVars
    BY <2>5 DEF LoopTrigger
  <2> QED
    BY <1>2, <2>1, <2>2, <2>3, <2>4, <2>5 DEF SelectStep
<1>3. CASE RefreshStep
  <2>1. CASE ListNow
    BY <2>1 DEF ListNow, LoopList, ListStep, Latest, LatestVer
  <2>2. CASE LoopListFail /\ UNCHANGED storeVars
    BY <2>2 DEF LoopListFail
  <2>3. CASE LoopInstall /\ UNCHANGED storeVars
    <3>1. pc = "install" /\ pc' \in {"notify", "select"} /\ currentVer' = listedVer
      BY <2>3 DEF LoopInstall, Install
    <3>2. UNCHANGED <<trigger, asked, notified, subs, subCh, built, states, watchCh>>
      BY <2>3 DEF LoopInstall
    <3>3. handling' \subseteq handling
      BY <2>3 DEF LoopInstall
    <3>4. Reached'
      BY <3>1, <3>2, <3>3
    <3>5. EventsNotAhead'
      BY <3>1, <3>2, QueuedType
    <3>6. OverflowIsHarmless' /\ ListedIsState' /\ HandledIsRead' /\ NoLostRefresh'
      BY <3>1, <3>2, <3>3
    <3> QED
      BY <3>4, <3>5, <3>6
  <2>4. CASE Notify /\ UNCHANGED storeVars
    <3>1. pc = "notify" /\ pc' = "select" /\ handling' = {} /\ notified' = currentVer
      BY <2>4 DEF Notify
    <3>2. UNCHANGED <<trigger, asked, lastErr, currentVer, subs, built, states, watchCh>>
      BY <2>4 DEF Notify
    <3>3. PICK ev \in handling :
            subCh' = [s \in Subs |-> IF s \in subs /\ Len(subCh[s]) < SubBuf
                                     THEN Append(subCh[s], ev) ELSE subCh[s]]
      BY <2>4 DEF Notify
    <3>4. EventsNotAhead'
      <4> SUFFICES ASSUME NEW s \in Subs, NEW i \in 1..Len(subCh'[s])
                   PROVE  subCh'[s][i].ver <= currentVer
        BY <3>2
      <4>1. ev.ver <= currentVer
        BY <3>1
      <4>2. CASE s \in subs /\ Len(subCh[s]) < SubBuf
        <5>1. subCh'[s] = Append(subCh[s], ev)
          BY <3>3, <4>2
        <5>2. i <= Len(subCh[s]) => subCh'[s][i] = subCh[s][i]
          BY <5>1
        <5>3. i > Len(subCh[s]) => subCh'[s][i] = ev
          BY <5>1
        <5>4. Len(subCh[s]) \in Nat /\ i \in Nat /\ i >= 1
          OBVIOUS
        <5>5. \A j \in 1..Len(subCh[s]) : subCh[s][j].ver <= currentVer
          OBVIOUS
        <5> HIDE DEF IInv, TypeOK
        <5> QED
          BY <4>1, <5>2, <5>3, <5>4, <5>5
      <4>3. CASE ~(s \in subs /\ Len(subCh[s]) < SubBuf)
        BY <3>3, <4>3
      <4> QED
        BY <4>2, <4>3
    <3>5. OverflowIsHarmless'
      <4> SUFFICES ASSUME NEW s \in subs PROVE subCh'[s] # << >>
        BY <3>2
      <4>1. CASE Len(subCh[s]) < SubBuf
        <5>1. s \in Subs /\ subCh[s] \in Seq(ChangeEvent)
          OBVIOUS
        <5>2. subCh'[s] = Append(subCh[s], ev)
          BY <3>3, <4>1, <5>1
        <5>3. Len(subCh'[s]) = Len(subCh[s]) + 1
          BY <5>1, <5>2
        <5> QED
          BY <5>1, <5>3
      <4>2. CASE ~(Len(subCh[s]) < SubBuf)
        BY <3>3, <4>2, ProviderAssumption
      <4> QED
        BY <4>1, <4>2
    <3>6. Reached' /\ ListedIsState' /\ HandledIsRead' /\ NoLostRefresh'
      BY <3>1, <3>2
    <3> QED
      BY <3>4, <3>5, <3>6
  <2> QED
    BY <1>3, <2>1, <2>2, <2>3, <2>4 DEF RefreshStep
<1>4. CASE SubStep
  <2> PICK s \in Subs : (Subscribe(s) \/ SubCancel(s) \/ SubCleanup(s) \/ SubRecv(s))
                        /\ UNCHANGED storeVars
    BY <1>4 DEF SubStep
  <2>1. CASE Subscribe(s)
    BY <2>1 DEF Subscribe
  <2>2. CASE SubCancel(s)
    BY <2>2 DEF SubCancel
  <2>3. CASE SubCleanup(s)
    BY <2>3 DEF SubCleanup
  <2>4. CASE SubRecv(s)
    BY <2>4 DEF SubRecv
  <2> QED
    BY <2>1, <2>2, <2>3, <2>4
<1>5. CASE CallStep
  <2>0. UNCHANGED storeVars
    BY <1>5 DEF CallStep
  <2>1. CASE RequestRefresh(LatestVer)
    BY <2>0, <2>1 DEF RequestRefresh, LatestVer
  <2>2. CASE ParentCancel
    BY <2>0, <2>2 DEF ParentCancel
  <2>3. CASE CloseSubs
    BY <2>0, <2>3 DEF CloseSubs
  <2>4. CASE CloseStore
    BY <2>0, <2>4 DEF CloseStore
  <2>5. ASSUME NEW c \in Closers, CloseEnter(c) PROVE VersionInv'
    BY <2>0, <2>5 DEF CloseEnter
  <2>6. ASSUME NEW c \in Closers, CloseReturn(c) PROVE VersionInv'
    BY <2>0, <2>6 DEF CloseReturn
  <2> QED
    BY <1>5, <2>1, <2>2, <2>3, <2>4, <2>5, <2>6 DEF CallStep
<1>6. CASE StoreStep
  <2>0. UNCHANGED providerVars
    BY <1>6 DEF StoreStep
  <2>1. ASSUME NEW ovr \in StoreStates, Change(ovr) PROVE VersionInv'
    <3>1. Len(states') = Len(states) + 1 /\ \A i \in 1..Len(states) : states'[i] = states[i]
      BY <2>1 DEF Change
    <3>2. watchCh' = watchCh
      BY <2>1 DEF Change
    <3>3. Reached'
      <4>1. \A i \in 1..Len(watchCh) : watchCh[i].ver \in Nat
        <5> SUFFICES ASSUME NEW i \in 1..Len(watchCh) PROVE watchCh[i].ver \in Nat
          OBVIOUS
        <5>1. watchCh[i] \in ChangeEvent
          OBVIOUS
        <5> QED
          BY <5>1 DEF ChangeEvent
      <4>2. \A ev \in handling : ev.ver \in Nat
        BY DEF ChangeEvent
      <4> QED
        BY <2>0, <3>1, <3>2, <4>1, <4>2
    <3>4. ListedIsState'
      BY <2>0, <3>1
    <3> QED
      BY <2>0, <3>3, <3>4
  <2>2. ASSUME NEW ev \in Announcements, Deliver(ev) PROVE VersionInv'
    BY <2>0, <2>2, AnnouncementsType DEF Deliver
  <2>3. CASE CloseWatch
    BY <2>0, <2>3 DEF CloseWatch
  <2> QED
    BY <1>6, <2>1, <2>2, <2>3 DEF StoreStep
<1>7. CASE UNCHANGED vars
  BY <1>7 DEF vars
<1> QED
  BY <1>1, <1>2, <1>3, <1>4, <1>5, <1>6, <1>7 DEF Next

\* The inductive invariant is preserved by every step.
LEMMA NextInv == IInv /\ [Next]_vars => IInv'
<1> SUFFICES ASSUME IInv, [Next]_vars PROVE IInv'
  OBVIOUS
<1>1. TypeOK'
  BY NextTypeOK DEF IInv
<1>2. ChannelInv'
  BY NextChannelInv DEF IInv, ChannelInv
<1>3. VersionInv'
  BY <1>1, NextVersionInv
<1> QED
  BY <1>1, <1>2, <1>3 DEF IInv, ChannelInv, VersionInv

\* The inductive invariant holds in every reachable state.
LEMMA Invariance == Spec => []IInv
BY InitInv, NextInv, PTL DEF Spec

\* No goroutine of the Provider sends on or closes a closed channel.
THEOREM NeverPanics == Spec => []NoPanic
<1>1. IInv => NoPanic
  BY DEF IInv
<1> QED
  BY <1>1, Invariance, PTL

\* A subscriber that calls Get on an event sees the event's change.
THEOREM GetSeesEvent == Spec => []EventsNotAhead
<1>1. IInv => EventsNotAhead
  BY DEF IInv
<1> QED
  BY <1>1, Invariance, PTL

\* Dropping events at a full subscriber channel leaves no subscriber behind.
THEOREM DropsAreHarmless == Spec => []OverflowIsHarmless
<1>1. IInv => OverflowIsHarmless
  BY DEF IInv
<1> QED
  BY <1>1, Invariance, PTL

\* Coalescing Refresh requests loses none of them.
THEOREM RefreshNotLost == Spec => []NoLostRefresh
<1>1. IInv => NoLostRefresh
  BY DEF IInv
<1> QED
  BY <1>1, Invariance, PTL

-----------------------------------------------------------------------------
(***************************************************************************)
(* The snapshot implements LiveView.                                       *)
(***************************************************************************)
LEMMA ViewStep == IInv /\ [Next]_vars => [View!ViewNext]_(View!viewVars)
<1> SUFFICES ASSUME IInv, [Next]_vars
             PROVE  View!ViewNext \/ UNCHANGED <<states, currentVer, current>>
  BY DEF View!viewVars
<1> USE DEF loopVars, reqVars, subVars, stopVars, providerVars, storeVars
<1>1. ASSUME Install, UNCHANGED storeVars, pc \in {"newInstall", "install"}
      PROVE  View!ViewNext
  <2>1. listedVer \in 1..Len(states) /\ listed = states[listedVer] /\ listedVer >= currentVer
    BY <1>1 DEF IInv, ListedIsState, TypeOK, ProviderTypeOK
  <2>2. currentVer' = listedVer /\ current' = ApplyOverrides(states[listedVer])
    BY <1>1, <2>1 DEF Install
  <2>3. View!Advance
    BY <1>1, <2>1, <2>2
       DEF View!Advance, View!ApplyOverrides, View!InCatalog, View!TextOf,
           ApplyOverrides, InCatalog, TextOf, View!ReloadStrategies,
           ReloadStrategies, View!Live, View!Recreate, View!Restart, Live,
           Recreate, Restart
  <2> QED
    BY <2>3 DEF View!ViewNext
<1>2. CASE NewStep
  BY <1>1, <1>2 DEF NewStep, NewList, ListStep, NewListFail, NewInstall, NewWatch,
                    OpenWatch, NewWatchFail
<1>3. CASE SelectStep
  BY <1>3 DEF SelectStep, LoopDone, SeeClosed, LoopClosed, TakeEvent, LoopEvent,
              LoopTick, LoopTrigger, LoopGoto, Receive
<1>4. CASE RefreshStep
  BY <1>1, <1>4 DEF RefreshStep, ListNow, LoopList, ListStep, LoopListFail,
                    LoopInstall, Notify
<1>5. CASE SubStep
  BY <1>5 DEF SubStep, Subscribe, SubCancel, SubCleanup, SubRecv
<1>6. CASE CallStep
  BY <1>6 DEF CallStep, RequestRefresh, ParentCancel, CloseSubs, CloseStore,
              CloseEnter, CloseReturn
<1>7. CASE StoreStep
  BY <1>7 DEF StoreStep, Change, Deliver, CloseWatch, View!ViewNext, View!Publish
<1>8. CASE UNCHANGED vars
  BY <1>8 DEF vars
<1> QED
  BY <1>2, <1>3, <1>4, <1>5, <1>6, <1>7, <1>8 DEF Next

(***************************************************************************)
(* Get always returns the base struct with the overrides of one state the  *)
(* store was in, and never goes back to an older state.                    *)
(***************************************************************************)
THEOREM SnapshotIsAtomic == Spec => ImplementsLiveView
<1>1. Init => View!ViewInit
  BY DEF Init, ProviderInit, ContractInit, View!ViewInit, NilConfig, View!NilConfig
<1> QED
  BY <1>1, ViewStep, Invariance, PTL DEF Spec, ImplementsLiveView, View!ViewSpec

-----------------------------------------------------------------------------
(***************************************************************************)
(* Shutdown.  Close passes wg.Wait only after the loop has returned, and   *)
(* no caller returns before the first one has done everything.             *)
(***************************************************************************)
ShutdownInv ==
  /\ once \in {"subsClosed", "done"} => pc = "exited"
  /\ \A c \in Closers : closer[c] = "returned" => once = "done"

\* Nobody has called Close when New starts.
LEMMA InitShutdown == Init => ShutdownInv
BY DEF Init, ProviderInit, ShutdownInv

\* Only CloseSubs passes the wait, and only after the loop has exited.
LEMMA NextShutdown == TypeOK /\ ShutdownInv /\ [Next]_vars => ShutdownInv'
<1> SUFFICES ASSUME TypeOK, ShutdownInv, [Next]_vars PROVE ShutdownInv'
  OBVIOUS
<1> USE DEF TypeOK, ProviderTypeOK, ShutdownInv, loopVars, reqVars, subVars, stopVars,
            providerVars
<1>1. CASE NewStep
  BY <1>1 DEF NewStep, NewList, ListStep, NewListFail, NewInstall, NewWatch,
              NewWatchFail
<1>2. CASE SelectStep
  BY <1>2 DEF SelectStep, LoopDone, SeeClosed, LoopClosed, TakeEvent, LoopEvent,
              LoopTick, LoopTrigger, LoopGoto
<1>3. CASE RefreshStep
  BY <1>3 DEF RefreshStep, ListNow, LoopList, ListStep, LoopListFail, LoopInstall,
              Notify
<1>4. CASE SubStep
  BY <1>4 DEF SubStep, Subscribe, SubCancel, SubCleanup, SubRecv
<1>5. CASE CallStep
  BY <1>5 DEF CallStep, RequestRefresh, ParentCancel, CloseSubs, CloseStore,
              CloseEnter, CloseReturn
<1>6. CASE StoreStep
  BY <1>6 DEF StoreStep
<1>7. CASE UNCHANGED vars
  BY <1>7 DEF vars
<1> QED
  BY <1>1, <1>2, <1>3, <1>4, <1>5, <1>6, <1>7 DEF Next

\* A step after the return of a Close neither installs nor notifies.
LEMMA QuietStep == TypeOK /\ ShutdownInv /\ [Next]_vars => [StaysQuiet]_vars
<1> SUFFICES ASSUME TypeOK, ShutdownInv, [Next]_vars,
                    NEW c \in Closers, closer[c] = "returned"
             PROVE  /\ current' = current
                    /\ \A s \in Subs : Len(subCh'[s]) <= Len(subCh[s])
  BY DEF StaysQuiet
<1> USE DEF TypeOK, ProviderTypeOK, loopVars, reqVars, subVars, stopVars, providerVars
<1>0. pc = "exited" /\ \A s \in Subs : subCh[s] \in Seq(ChangeEvent) /\ Len(subCh[s]) \in Nat
  BY DEF ShutdownInv
<1>1. CASE NewStep \/ SelectStep \/ RefreshStep
  BY <1>0, <1>1
     DEF NewStep, NewList, ListStep, NewListFail, NewInstall, NewWatch, NewWatchFail,
         SelectStep, LoopDone, SeeClosed, LoopClosed, TakeEvent, LoopEvent, LoopTick,
         LoopTrigger, LoopGoto, RefreshStep, ListNow, LoopList, LoopListFail,
         LoopInstall, Notify
<1>2. CASE SubStep
  <2> PICK s \in Subs : Subscribe(s) \/ SubCancel(s) \/ SubCleanup(s) \/ SubRecv(s)
    BY <1>2 DEF SubStep
  <2>1. CASE Subscribe(s) \/ SubCancel(s) \/ SubCleanup(s)
    BY <1>0, <2>1 DEF Subscribe, SubCancel, SubCleanup
  <2>2. CASE SubRecv(s)
    BY <1>0, <2>2 DEF SubRecv
  <2> QED
    BY <2>1, <2>2
<1>3. CASE CallStep
  BY <1>0, <1>3 DEF CallStep, RequestRefresh, ParentCancel, CloseSubs, CloseStore,
                    CloseEnter, CloseReturn
<1>4. CASE StoreStep
  BY <1>0, <1>4 DEF StoreStep
<1>5. CASE UNCHANGED vars
  BY <1>0, <1>5 DEF vars
<1> QED
  BY <1>1, <1>2, <1>3, <1>4, <1>5 DEF Next

\* After Close has returned to anyone, snapshot and channels get nothing new.
THEOREM CloseIsFinalForAll == Spec => CloseIsFinal
BY InitTypeOK, NextTypeOK, InitShutdown, NextShutdown, QuietStep, PTL
   DEF Spec, CloseIsFinal

=============================================================================
