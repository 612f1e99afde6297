--------------------------- MODULE LivePollProofs ---------------------------
(***************************************************************************)
(* Proofs about a Provider on a polling store: pollLoop implements the     *)
(* store contract, so everything proved of LiveStore holds here; its       *)
(* events are a complete diff; and no difference it finds is lost on the   *)
(* way to the event loop.                                                  *)
(***************************************************************************)
EXTENDS LivePoll, LiveStoreProofs

(***************************************************************************)
(* The inductive invariant.  The poller runs exactly while the channel is  *)
(* open, and both of its lists are states the store has been in.           *)
(***************************************************************************)
PollerOwnsChannel ==
  /\ poll = "off" <=> watchState = "none"
  /\ poll \in {"wait", "send"} <=> watchState = "open"

PollReads ==
  /\ seeded => prevVer \in 1..Len(states) /\ prev = states[prevVer]
  /\ poll = "send" =>
       /\ seeded
       /\ todo # {}
       /\ currVer \in 1..Len(states)
       /\ curr = states[currVer]
       /\ prevVer < currVer
  /\ diffVer <= Len(states)
  /\ poll = "off" => ~seeded /\ diffVer = 0

\* In the middle of a tick the mirror has the new text of every key but todo.
ReplayInTick ==
  /\ seeded /\ poll = "wait" => \A k \in Keys : mirror[k] = TextOf(prev[k])
  /\ poll = "send" =>
       \A k \in Keys :
         mirror[k] = IF k \in todo THEN TextOf(prev[k]) ELSE TextOf(curr[k])

(***************************************************************************)
(* A successful refresh clears LastError, so while one is under way an     *)
(* error of the past must not be what the next wakeup rests on.            *)
(***************************************************************************)
InstallLeavesEvent ==
  pc = "install" /\ watchState = "open" /\ diffVer > listedVer =>
    todo # {} \/ watchCh # << >>

PInv ==
  /\ LPTypeOK
  /\ PollerOwnsChannel
  /\ PollReads
  /\ ReplayInTick
  /\ InstallLeavesEvent
  /\ DifferenceWakesLoop

-----------------------------------------------------------------------------
\* The event text of an override is a raw string.
LEMMA TextType ==
  ASSUME NEW ovr \in Overrides, NEW k \in Keys
  PROVE  TextOf(ovr[k]) \in RawValues
BY DataAssumption DEF TextOf, Overrides

(***************************************************************************)
(* The event pollLoop sends announces a change the store has made: the     *)
(* store held the old value in the state of the last tick and holds the    *)
(* new one in the state of this tick.                                      *)
(***************************************************************************)
LEMMA EventAnnounces ==
  ASSUME LPTypeOK, PollReads, poll = "send", NEW k \in Keys
  PROVE  EventOf(NS, k) \in Announcements
<1> DEFINE ev == EventOf(NS, k)
<1>1. /\ prevVer \in 1..Len(states) /\ prev = states[prevVer]
      /\ currVer \in 1..Len(states) /\ curr = states[currVer]
      /\ prevVer < currVer
  BY DEF PollReads
<1>2. Len(states) \in Nat /\ prev \in Overrides /\ curr \in Overrides
  BY DEF LPTypeOK, TypeOK, ContractTypeOK, PollTypeOK
<1>3. currVer \in 2..Len(states) /\ prevVer \in 1..(currVer - 1)
  BY <1>1, <1>2
<1>4. TextOf(prev[k]) \in RawValues /\ TextOf(curr[k]) \in RawValues
  BY <1>2, TextType
<1>5. /\ ev.ns = NS /\ ev.key = k /\ ev.ver = currVer
      /\ ev.old = TextOf(prev[k]) /\ ev.new = TextOf(curr[k])
  BY DEF EventOf
<1>6. ev \in [ns : {NS}, key : Keys, old : RawValues, new : RawValues,
              ver : 2..Len(states)]
  BY <1>3, <1>4 DEF EventOf
<1>7. AnnouncesChange(ev)
  BY <1>1, <1>3, <1>5 DEF AnnouncesChange
<1> QED
  BY <1>6, <1>7 DEF Announcements

\* Every step of the composition is a step, or a stutter, of LiveStore.
LEMMA PollRefines ==
  ASSUME LPTypeOK, PollReads, [LPNext]_lpVars
  PROVE  [Next]_vars
<1>1. CASE LPNewStep
  BY <1>1 DEF LPNewStep, Next, NewStep
<1>2. CASE LPProviderStep
  BY <1>2 DEF LPProviderStep, Next
<1>3. CASE LPChange
  BY <1>3 DEF LPChange, Next, StoreStep
<1>4. CASE LPPoll
  BY <1>4 DEF LPPoll
<1>5. CASE LPSend
  <2>1. PICK k \in Keys : PollSend(k) /\ Deliver(EventOf(NS, k))
    BY <1>5 DEF LPSend
  <2>2. EventOf(NS, k) \in Announcements
    BY <2>1, EventAnnounces DEF PollSend
  <2>3. StoreStep
    BY <1>5, <2>1, <2>2 DEF LPSend, StoreStep
  <2> QED
    BY <2>3 DEF Next
<1>6. CASE LPExit
  BY <1>6 DEF LPExit, Next, StoreStep
<1>7. CASE UNCHANGED lpVars
  BY <1>7 DEF lpVars
<1> QED
  BY <1>1, <1>2, <1>3, <1>4, <1>5, <1>6, <1>7 DEF LPNext

\* The poller's variables keep their types.
LEMMA NextPollType ==
  ASSUME LPTypeOK, [LPNext]_lpVars
  PROVE  PollTypeOK'
<1> USE DEF LPTypeOK, PollTypeOK
<1>0. Latest \in Overrides /\ LatestVer \in Nat
  BY LatestType DEF TypeOK
<1>1. CASE LPNewStep
  BY <1>1 DEF LPNewStep, pollVars, PollStart
<1>2. CASE LPProviderStep \/ LPChange \/ UNCHANGED lpVars
  BY <1>2 DEF LPProviderStep, LPChange, lpVars, pollVars
<1>3. CASE PollSeed(Latest, LatestVer)
  <2>1. mirror' \in [Keys -> RawValues]
    BY <1>0, <1>3, TextType DEF PollSeed
  <2> QED
    BY <1>0, <1>3, <2>1 DEF PollSeed
<1>4. CASE PollCompare(Latest, LatestVer)
  BY <1>0, <1>4 DEF PollCompare, Differences
<1>5. CASE LPSend
  <2>1. PICK k \in Keys : PollSend(k)
    BY <1>5 DEF LPSend
  <2>2. mirror' \in [Keys -> RawValues]
    BY <2>1, TextType DEF PollSend
  <2> QED
    BY <2>1, <2>2 DEF PollSend
<1>6. CASE LPExit
  BY <1>6 DEF LPExit, PollExit
<1> QED
  BY <1>1, <1>2, <1>3, <1>4, <1>5, <1>6 DEF LPNext, LPPoll

-----------------------------------------------------------------------------
(***************************************************************************)
(* What a step of the Provider does to the store's side: at most it takes  *)
(* the oldest event, and then it is about to list.                         *)
(***************************************************************************)
LEMMA ProviderStepFrame ==
  ASSUME LPProviderStep
  PROVE  /\ UNCHANGED <<states, watchState, pollVars>>
         /\ watchCh' = watchCh \/ pc' = "list"
BY DEF LPProviderStep, SelectStep, RefreshStep, SubStep, CallStep, SeeClosed,
       TakeEvent, ListNow, LoopEvent, LoopGoto, Receive, storeVars

\* Store states, once reached, keep their numbers.
LEMMA StatesKept ==
  ASSUME TypeOK, NEW ovr \in StoreStates, Change(ovr)
  PROVE  /\ Len(states') = Len(states) + 1
         /\ \A n \in 1..Len(states) : states'[n] = states[n]
BY DEF Change, TypeOK, ContractTypeOK

\* The poller runs exactly while the channel is open.
LEMMA NextOwnsChannel ==
  ASSUME LPTypeOK, PollReads, PollerOwnsChannel, [LPNext]_lpVars
  PROVE  PollerOwnsChannel'
<1> USE DEF PollerOwnsChannel, pollVars, storeVars
<1>1. CASE LPNewStep
  BY <1>1 DEF LPNewStep, OpenWatch, PollStart
<1>2. CASE LPProviderStep
  BY <1>2, ProviderStepFrame
<1>3. CASE LPChange
  BY <1>3 DEF LPChange, Change
<1>4. CASE LPPoll
  BY <1>4 DEF LPPoll, PollSeed, PollCompare, vars
<1>5. CASE LPSend
  BY <1>5 DEF LPSend, PollSend, Deliver
<1>6. CASE LPExit
  BY <1>6 DEF LPExit, PollExit, CloseWatch
<1>7. CASE UNCHANGED lpVars
  BY <1>7 DEF lpVars, vars
<1> QED
  BY <1>1, <1>2, <1>3, <1>4, <1>5, <1>6, <1>7 DEF LPNext

\* The poller's lists are states of the store, the older one first.
LEMMA NextPollReads ==
  ASSUME LPTypeOK, PollReads, PollerOwnsChannel, [LPNext]_lpVars
  PROVE  PollReads'
<1> USE DEF PollReads, pollVars, storeVars
<1>0. /\ Len(states) \in Nat /\ Len(states) >= 1
      /\ Latest = states[Len(states)] /\ LatestVer = Len(states)
      /\ prevVer \in Nat /\ currVer \in Nat /\ diffVer \in Nat
  BY DEF LPTypeOK, TypeOK, ContractTypeOK, PollTypeOK, Latest, LatestVer
<1>1. CASE LPNewStep
  BY <1>1 DEF LPNewStep, OpenWatch, PollStart
<1>2. CASE LPProviderStep
  BY <1>2, ProviderStepFrame
<1>3. CASE LPChange
  <2>1. PICK ovr \in StoreStates : Change(ovr)
    BY <1>3 DEF LPChange
  <2>2. UNCHANGED pollVars
    BY <1>3 DEF LPChange
  <2> QED
    BY <1>0, <2>1, <2>2, StatesKept DEF LPTypeOK
<1>4. CASE PollSeed(Latest, LatestVer) /\ UNCHANGED vars
  BY <1>0, <1>4 DEF PollSeed, vars
<1>5. CASE PollCompare(Latest, LatestVer) /\ UNCHANGED vars
  <2>1. CASE Differences(Latest) = {}
    BY <1>0, <1>5, <2>1 DEF PollCompare, vars
  <2>2. CASE Differences(Latest) # {}
    <3>1. prevVer # LatestVer
      BY <1>0, <1>5, <2>2 DEF PollCompare, Differences
    <3> QED
      BY <1>0, <1>5, <2>2, <3>1 DEF PollCompare, vars
  <2> QED
    BY <2>1, <2>2
<1>6. CASE LPSend
  <2>1. PICK k \in Keys : PollSend(k) /\ Deliver(EventOf(NS, k))
    BY <1>6 DEF LPSend
  <2> QED
    BY <1>0, <2>1 DEF PollSend, Deliver
<1>7. CASE LPExit
  BY <1>7 DEF LPExit, PollExit, CloseWatch
<1>8. CASE UNCHANGED lpVars
  BY <1>8 DEF lpVars, vars
<1> QED
  BY <1>1, <1>2, <1>3, <1>4, <1>5, <1>6, <1>7, <1>8 DEF LPNext, LPPoll

(***************************************************************************)
(* Replaying the events: each send brings one key from the text of the     *)
(* last list to the text of this one, and a key without an event has the   *)
(* same override in both.                                                  *)
(***************************************************************************)
LEMMA NextReplay ==
  ASSUME LPTypeOK, PollReads, ReplayInTick, [LPNext]_lpVars
  PROVE  ReplayInTick'
<1> USE DEF ReplayInTick, pollVars
<1>0. mirror \in [Keys -> RawValues]
  BY DEF LPTypeOK, PollTypeOK
<1>1. CASE LPNewStep
  <2>1. CASE UNCHANGED pollVars
    BY <2>1
  <2>2. CASE PollStart
    <3>1. ~seeded
      BY <2>2 DEF PollStart, PollReads
    <3> QED
      BY <2>2, <3>1 DEF PollStart
  <2> QED
    BY <1>1, <2>1, <2>2 DEF LPNewStep
<1>2. CASE LPProviderStep \/ LPChange \/ UNCHANGED lpVars
  BY <1>2 DEF LPProviderStep, LPChange, lpVars
<1>3. CASE PollSeed(Latest, LatestVer)
  BY <1>3 DEF PollSeed
<1>4. CASE PollCompare(Latest, LatestVer)
  <2>1. CASE Differences(Latest) = {}
    <3>1. \A k \in Keys : Latest[k] = prev[k]
      BY <2>1 DEF Differences
    <3> QED
      BY <1>4, <2>1, <3>1 DEF PollCompare
  <2>2. CASE Differences(Latest) # {}
    <3>1. \A k \in Keys : k \notin Differences(Latest) => Latest[k] = prev[k]
      BY DEF Differences
    <3> QED
      BY <1>4, <2>2, <3>1 DEF PollCompare
  <2> QED
    BY <2>1, <2>2
<1>5. CASE LPSend
  <2>1. PICK k \in Keys : PollSend(k)
    BY <1>5 DEF LPSend
  <2>2. CASE todo' = {}
    BY <1>0, <2>1, <2>2 DEF PollSend
  <2>3. CASE todo' # {}
    BY <1>0, <2>1, <2>3 DEF PollSend
  <2> QED
    BY <2>2, <2>3
<1>6. CASE LPExit
  BY <1>6 DEF LPExit, PollExit
<1> QED
  BY <1>1, <1>2, <1>3, <1>4, <1>5, <1>6 DEF LPNext, LPPoll

-----------------------------------------------------------------------------
(***************************************************************************)
(* No lost wakeup.  A step either leaves the event that will wake the loop *)
(* where it is, or takes it and goes on to list; a list reads at least the *)
(* difference; and a send turns a key of todo into an event in the channel.*)
(***************************************************************************)
WakeInv == InstallLeavesEvent /\ DifferenceWakesLoop

\* Every step of the Provider preserves WakeInv.
LEMMA ProviderWakes ==
  ASSUME LPTypeOK, PollReads, WakeInv, LPProviderStep
  PROVE  WakeInv'
<1> USE DEF WakeInv, InstallLeavesEvent, DifferenceWakesLoop, PollReadVer,
            LoopAlive, LoopSteps, loopVars
<1>0. /\ UNCHANGED <<states, watchState, pollVars>>
      /\ watchCh' = watchCh \/ pc' = "list"
      /\ LatestVer = Len(states) /\ Len(states) \in Nat
      /\ diffVer \in Nat /\ diffVer <= Len(states)
      /\ listedVer \in Nat /\ currentVer \in Nat
  BY ProviderStepFrame
     DEF LPTypeOK, TypeOK, ProviderTypeOK, ContractTypeOK, PollTypeOK, PollReads,
         LatestVer
<1>1. CASE SelectStep
  <2>1. pc = "select" /\ pc' \in {"exited", "list"}
    BY <1>1 DEF SelectStep, LoopDone, SeeClosed, LoopClosed, TakeEvent, LoopEvent,
                LoopTick, LoopTrigger, LoopGoto
  <2> QED
    BY <2>1
<1>2. CASE ListNow
  BY <1>0, <1>2 DEF ListNow, LoopList, ListStep, pollVars
<1>3. CASE LoopListFail /\ UNCHANGED storeVars
  BY <1>3 DEF LoopListFail
<1>4. CASE LoopInstall /\ UNCHANGED storeVars
  <2>1. /\ pc = "install" /\ pc' \in {"notify", "select"}
        /\ currentVer' = listedVer /\ watchCh' = watchCh
    BY <1>4 DEF LoopInstall, Install, storeVars
  <2> QED
    BY <1>0, <2>1 DEF pollVars
<1>5. CASE Notify /\ UNCHANGED storeVars
  BY <1>0, <1>5 DEF Notify, storeVars, pollVars
<1>6. CASE SubStep
  <2>1. UNCHANGED <<loopVars, storeVars>>
    BY <1>6 DEF SubStep, Subscribe, SubCancel, SubCleanup, SubRecv
  <2> QED
    BY <1>0, <2>1 DEF storeVars, pollVars
<1>7. CASE CallStep
  <2>1. UNCHANGED <<loopVars, storeVars>>
    BY <1>7 DEF CallStep, RequestRefresh, ParentCancel, CloseSubs, CloseStore,
                CloseEnter, CloseReturn
  <2> QED
    BY <1>0, <2>1 DEF storeVars, pollVars
<1> QED
  BY <1>1, <1>2, <1>3, <1>4, <1>5, <1>6, <1>7 DEF LPProviderStep, RefreshStep

\* Every step of the composition preserves WakeInv.
LEMMA NextWakes ==
  ASSUME LPTypeOK, PollReads, PollerOwnsChannel, WakeInv, [LPNext]_lpVars
  PROVE  WakeInv'
<1> USE DEF WakeInv, InstallLeavesEvent, DifferenceWakesLoop, PollReadVer,
            LoopAlive, LoopSteps, pollVars, storeVars, providerVars, loopVars
<1>1. CASE LPNewStep
  <2>1. CASE NewWatch /\ OpenWatch /\ PollStart
    <3>1. diffVer' = 0 /\ currentVer' \in Nat /\ pc' = "select"
      BY <2>1 DEF NewWatch, PollStart, PollReads, LPTypeOK, TypeOK, ProviderTypeOK
    <3> QED
      BY <3>1
  <2>2. CASE ~(NewWatch /\ OpenWatch /\ PollStart)
    BY <1>1, <2>2 DEF LPNewStep, NewList, ListStep, NewListFail, NewInstall
  <2> QED
    BY <2>1, <2>2
<1>2. CASE LPProviderStep
  BY <1>2, ProviderWakes
<1>3. CASE LPChange
  BY <1>3 DEF LPChange, Change
<1>4. CASE PollSeed(Latest, LatestVer) /\ UNCHANGED vars
  BY <1>4 DEF PollSeed, vars
<1>5. CASE PollCompare(Latest, LatestVer) /\ UNCHANGED vars
  BY <1>5 DEF PollCompare, vars
<1>6. CASE LPSend
  <2>1. PICK k \in Keys : Deliver(EventOf(NS, k))
    BY <1>6 DEF LPSend
  <2>2. watchCh' # << >>
    BY <2>1 DEF Deliver, LPTypeOK, TypeOK, ContractTypeOK
  <2> QED
    BY <2>2
<1>7. CASE LPExit
  BY <1>7 DEF LPExit, CloseWatch
<1>8. CASE UNCHANGED lpVars
  BY <1>8 DEF lpVars, vars
<1> QED
  BY <1>1, <1>2, <1>3, <1>4, <1>5, <1>6, <1>7, <1>8 DEF LPNext, LPPoll

-----------------------------------------------------------------------------
\* The inductive invariant holds when New starts.
LEMMA InitPInv == LPInit => PInv
<1> SUFFICES ASSUME LPInit PROVE PInv
  OBVIOUS
<1> USE DEF LPInit, PollInit
<1>1. TypeOK
  BY InitTypeOK
<1>2. PollTypeOK
  <2>1. NoOverrides \in Overrides /\ [k \in Keys |-> Empty] \in [Keys -> RawValues]
    BY DataAssumption DEF NoOverrides, Overrides
  <2>2. /\ {prev, curr} \subseteq Overrides /\ {prevVer, currVer, diffVer} \subseteq Nat
        /\ mirror \in [Keys -> RawValues]
    BY <2>1
  <2> QED
    BY <2>2 DEF PollTypeOK
<1>3. PollerOwnsChannel /\ ReplayInTick
  BY DEF PollerOwnsChannel, ReplayInTick, Init, ContractInit
<1>4. PollReads
  <2>1. Len(states) \in Nat
    BY <1>1 DEF TypeOK, ContractTypeOK
  <2> QED
    BY <2>1 DEF PollReads
<1>5. InstallLeavesEvent /\ DifferenceWakesLoop
  BY DEF InstallLeavesEvent, DifferenceWakesLoop, LoopAlive, LoopSteps, Init,
         ProviderInit
<1> QED
  BY <1>1, <1>2, <1>3, <1>4, <1>5 DEF PInv, LPTypeOK

\* Every step preserves the inductive invariant.
LEMMA NextPInv == PInv /\ [LPNext]_lpVars => PInv'
<1> SUFFICES ASSUME PInv, [LPNext]_lpVars PROVE PInv'
  OBVIOUS
<1>1. TypeOK'
  BY PollRefines, NextTypeOK DEF PInv, LPTypeOK
<1>2. PollTypeOK'
  BY NextPollType DEF PInv
<1>3. PollerOwnsChannel' /\ PollReads' /\ ReplayInTick'
  BY NextOwnsChannel, NextPollReads, NextReplay DEF PInv
<1>4. WakeInv'
  BY NextWakes DEF PInv, WakeInv
<1> QED
  BY <1>1, <1>2, <1>3, <1>4 DEF PInv, LPTypeOK, WakeInv

\* PInv holds in every reachable state.
LEMMA PollInvariance == LPSpec => []PInv
BY InitPInv, NextPInv, PTL DEF LPSpec

\* Type correctness of the Provider, the channel and the poller.
THEOREM PollTypeCorrect == LPSpec => []LPTypeOK
<1>1. PInv => LPTypeOK
  BY DEF PInv
<1> QED
  BY <1>1, PollInvariance, PTL

(***************************************************************************)
(* pollLoop's events are a complete diff: between two ticks, whoever has   *)
(* replayed the events on the baseline has the list of the last tick, for  *)
(* any number of keys, values and ticks.                                   *)
(***************************************************************************)
THEOREM ReplayIsComplete == LPSpec => []ReplayGivesList
<1>1. PInv => ReplayGivesList
  BY DEF PInv, ReplayInTick, ReplayGivesList
<1> QED
  BY <1>1, PollInvariance, PTL

(***************************************************************************)
(* No difference pollLoop finds is lost on its way to the event loop,      *)
(* whatever the capacity of the channel and whichever refreshes fail.      *)
(***************************************************************************)
THEOREM DifferenceNotLost == LPSpec => []DifferenceWakesLoop
<1>1. PInv => DifferenceWakesLoop
  BY DEF PInv
<1> QED
  BY <1>1, PollInvariance, PTL

(***************************************************************************)
(* A store that watches by polling keeps the contract of StoreContract:    *)
(* the composition implements LiveStore, variable by variable.             *)
(***************************************************************************)
THEOREM PollKeepsContract == LPSpec => ImplementsLiveStore
<1>1. LPInit => Init
  BY DEF LPInit
<1>2. PInv /\ [LPNext]_lpVars => [Next]_vars
  BY PollRefines DEF PInv
<1> QED
  BY <1>1, <1>2, PollInvariance, PTL DEF LPSpec, ImplementsLiveStore, Spec

(***************************************************************************)
(* What LiveStore's theorems say therefore holds with a PollingWatcher: no *)
(* panic on a closed channel, no event ahead of the snapshot, no lost      *)
(* Refresh, an atomic snapshot that never goes back, and a final Close.    *)
(***************************************************************************)
THEOREM PollInheritsSafety ==
  LPSpec => /\ [](NoPanic /\ EventsNotAhead /\ OverflowIsHarmless /\ NoLostRefresh)
            /\ ImplementsLiveView
            /\ CloseIsFinal
BY PollKeepsContract, NeverPanics, GetSeesEvent, DropsAreHarmless, RefreshNotLost,
   SnapshotIsAtomic, CloseIsFinalForAll, PTL DEF ImplementsLiveStore

=============================================================================
