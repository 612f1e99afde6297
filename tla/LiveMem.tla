------------------------------ MODULE LiveMem ------------------------------
(***************************************************************************)
(* A Provider on a MemStore.  The Provider's call of Watch is Self; List   *)
(* and Watch of a MemStore never fail.                                     *)
(***************************************************************************)
EXTENDS Provider, MemStore, SequencesExt

CONSTANTS
  NS,    \* the Provider's namespace
  Self   \* the Provider's watch channel

ASSUME LiveMemAssumption == Self \in Watchers /\ WatchNs[Self] = NS

VARIABLES
  states,     \* history: the states of namespace NS so far, newest last
  watchVer,   \* history: number of the store state when Watch registered
  overflowed  \* history: an event was dropped at a full watch channel

histVars == <<states, watchVer, overflowed>>
vars == <<providerVars, memVars, histVars>>

LatestVer == Len(audit) + 1

Init ==
  /\ ProviderInit
  /\ MemInit
  /\ states = <<NoOverrides>>
  /\ watchVer = 0
  /\ overflowed = FALSE

\* Steps of the Provider that do not involve the store.
Quiet == UNCHANGED <<memVars, histVars>>

ListNow == LoopList(MemList(NS), LatestVer) /\ Quiet

TakeEvent ==
  /\ wch[Self] # << >>
  /\ LoopEvent(Head(wch[Self]))
  /\ WatchRecv(Self)
  /\ UNCHANGED histVars

SeeClosed == wState[Self] = "closed" /\ wch[Self] = << >> /\ LoopClosed /\ Quiet

StartWatch ==
  /\ NewWatch
  /\ Watch(Self)
  /\ watchVer' = LatestVer
  /\ UNCHANGED <<states, overflowed>>

NewStep ==
  \/ NewList(MemList(NS), LatestVer) /\ Quiet
  \/ NewInstall /\ Quiet
  \/ StartWatch

SelectStep ==
  \/ LoopDone /\ Quiet
  \/ SeeClosed
  \/ TakeEvent
  \/ LoopTick /\ Quiet
  \/ LoopTrigger /\ Quiet

RefreshStep ==
  \/ ListNow
  \/ LoopInstall /\ Quiet
  \/ Notify /\ Quiet

SubStep ==
  \E s \in Subs :
    (Subscribe(s) \/ SubCancel(s) \/ SubCleanup(s) \/ SubRecv(s)) /\ Quiet

CallStep ==
  /\ \/ RequestRefresh(LatestVer)
     \/ ParentCancel
     \/ CloseSubs
     \/ CloseStore
     \/ \E c \in Closers : CloseEnter(c) \/ CloseReturn(c)
  /\ Quiet

\* A writer holds mu.
WriteStep ==
  /\ \E ns \in Namespaces, k \in Keys :
       (\E v \in RawValues : Set(ns, k, v)) \/ Delete(ns, k)
  /\ states' = Append(states, data'[NS])
  /\ UNCHANGED <<providerVars, watchVer, overflowed>>

\* A writer holds watchMu.
BroadcastStep ==
  /\ \E ev \in unsent :
       /\ Broadcast(ev)
       /\ overflowed' = (overflowed \/ (ev.ns = NS /\ Len(wch[Self]) >= WatchBuf))
  /\ UNCHANGED <<providerVars, states, watchVer>>

\* Watch's cleanup goroutine waits for eventCtx.
CleanupStep ==
  ctxDone /\ WatchCleanup(Self) /\ UNCHANGED <<providerVars, histVars>>

Next ==
  \/ NewStep \/ SelectStep \/ RefreshStep \/ SubStep \/ CallStep
  \/ WriteStep \/ BroadcastStep \/ CleanupStep

Spec == Init /\ [][Next]_vars

(***************************************************************************)
(* Fairness without the safety ticker: New, refresh and the writers run    *)
(* when they can, and an event that is ready again and again is received.  *)
(***************************************************************************)
EventFairness ==
  /\ WF_vars(NewStep)
  /\ WF_vars(RefreshStep)
  /\ SF_vars(TakeEvent)
  /\ WF_vars(BroadcastStep)

EventSpec == Spec /\ EventFairness

-----------------------------------------------------------------------------
\* Every variable of the Provider and of the MemStore keeps its type.
TypeOK ==
  /\ ProviderTypeOK
  /\ MemTypeOK
  /\ states \in Seq(Overrides)
  /\ watchVer \in Nat
  /\ overflowed \in BOOLEAN

\* The Provider still receives what the store broadcasts.
Attached == LoopAlive /\ wState[Self] = "open"

\* The newest store state the event loop has read.
ReadVer == IF pc = "install" THEN listedVer ELSE currentVer

(***************************************************************************)
(* No lost wakeup.  MemStore broadcasts after it has released mu, in any   *)
(* order, and drops events at a full channel; the Provider reads the whole *)
(* namespace at every event.  Together: a change the loop has not read yet *)
(* has an event on its way, or some event is waiting for the loop, or the  *)
(* loop is about to call List.                                             *)
(***************************************************************************)
NoLostWakeup ==
  Attached =>
    \A i \in 1..Len(audit) :
      audit[i].ns = NS /\ i + 1 > watchVer /\ i + 1 > ReadVer =>
        \/ \E ev \in unsent : ev.ns = NS
        \/ wch[Self] # << >>
        \/ pc = "list"

\* The event of a store state is between its writer and notifySubscribers.
InTransit(ver) ==
  \E ev \in unsent \cup ToSet(wch[Self]) \cup handling : ev.ver = ver

(***************************************************************************)
(* Subscribe: unless the watch channel overflowed, a subscriber whose      *)
(* resource predates a recreate-on-change write has an event waiting, or   *)
(* the write's own event is still on its way to it.                        *)
(***************************************************************************)
NoMissedRebuild ==
  Attached /\ ~overflowed =>
    \A s \in subs : \A i \in 1..Len(audit) :
      /\ audit[i].ns = NS
      /\ Strategy[audit[i].key] = Recreate
      /\ i + 1 > watchVer
      /\ i + 1 > built[s]
      => subCh[s] # << >> \/ InTransit(i + 1)

\* No send on and no close of a closed channel, on either side.
NoPanic == ~panicked /\ ~wPanicked

\* LiveStore, with the MemStore channel of the Provider as its watch channel.
OnContract ==
  INSTANCE LiveStore
    WITH watchCh <- wch[Self], watchState <- wState[Self],
         StoreStates <- Overrides, MaxStates <- MaxWrites + 1

\* A MemStore keeps the contract of StoreContract, so LiveStore's results hold.
ImplementsLiveStore == OnContract!Spec

\* The store has changed since the Provider called Watch.
ChangedSinceWatch ==
  watchVer > 0 /\ \E i \in 1..Len(audit) : audit[i].ns = NS /\ i + 1 > watchVer

(***************************************************************************)
(* The events alone keep the snapshot current: even if the safety ticker   *)
(* never fires, once the store has changed after Watch and then rests, the *)
(* snapshot of a Provider that stays attached shows its last state.        *)
(***************************************************************************)
EventsKeepCurrent ==
  (<>[]Attached /\ <>ChangedSinceWatch) =>
    <>[](current = ApplyOverrides(data[NS]))

=============================================================================
