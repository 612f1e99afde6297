----------------------------- MODULE LiveStore -----------------------------
(***************************************************************************)
(* A Provider on any Store that keeps the contract of StoreContract.  What *)
(* holds here holds on every store: List may fail at any time, and events  *)
(* may be lost, late, repeated or out of order.                            *)
(***************************************************************************)
EXTENDS Provider, StoreContract

vars == <<providerVars, storeVars>>

Init == ProviderInit /\ ContractInit

\* The watch channel has an event for the loop's select.
TakeEvent == watchCh # << >> /\ LoopEvent(Head(watchCh)) /\ Receive

\* The watch channel is closed and empty.
SeeClosed ==
  watchState = "closed" /\ watchCh = << >> /\ LoopClosed /\ UNCHANGED storeVars

ListNow == LoopList(Latest, LatestVer) /\ UNCHANGED storeVars

\* New, from the first List to the start of the event loop.
NewStep ==
  \/ NewList(Latest, LatestVer) /\ UNCHANGED storeVars
  \/ NewListFail /\ UNCHANGED storeVars
  \/ NewInstall /\ UNCHANGED storeVars
  \/ NewWatch /\ OpenWatch
  \/ NewWatchFail /\ UNCHANGED storeVars

\* The cases of the event loop's select.
SelectStep ==
  \/ LoopDone /\ UNCHANGED storeVars
  \/ SeeClosed
  \/ TakeEvent
  \/ LoopTick /\ UNCHANGED storeVars
  \/ LoopTrigger /\ UNCHANGED storeVars

\* The body of a case: refresh, and the notification after an event.
RefreshStep ==
  \/ ListNow
  \/ LoopListFail /\ UNCHANGED storeVars
  \/ LoopInstall /\ UNCHANGED storeVars
  \/ Notify /\ UNCHANGED storeVars

\* Subscriptions, their cleanup goroutines and the subscribers.
SubStep ==
  \E s \in Subs :
    /\ \/ Subscribe(s)
       \/ SubCancel(s)
       \/ SubCleanup(s)
       \/ SubRecv(s)
    /\ UNCHANGED storeVars

\* Callers of Refresh and Close, and the context given to New.
CallStep ==
  /\ \/ RequestRefresh(LatestVer)
     \/ ParentCancel
     \/ CloseSubs
     \/ CloseStore
     \/ \E c \in Closers : CloseEnter(c) \/ CloseReturn(c)
  /\ UNCHANGED storeVars

\* The store, on its own.
StoreStep ==
  /\ \/ \E ovr \in StoreStates : Change(ovr)
     \/ \E ev \in Announcements : Deliver(ev)
     \/ CloseWatch
  /\ UNCHANGED providerVars

Next ==
  NewStep \/ SelectStep \/ RefreshStep \/ SubStep \/ CallStep \/ StoreStep

Spec == Init /\ [][Next]_vars

(***************************************************************************)
(* Fairness.  A goroutine that can run does (weak fairness).  Go's select  *)
(* picks uniformly among the ready cases, so a case that is ready again    *)
(* and again is taken (strong fairness), and the ticker fires for ever.    *)
(* List succeeds infinitely often if it is called infinitely often.        *)
(* Nothing is assumed of the callers, of the subscribers, of the store's   *)
(* writers and of the events the store sends.                              *)
(***************************************************************************)
Fairness ==
  /\ WF_vars(RefreshStep)
  /\ SF_vars(ListNow)
  /\ SF_vars(LoopDone /\ UNCHANGED storeVars)
  /\ SF_vars(LoopTick /\ UNCHANGED storeVars)
  /\ \A s \in Subs : WF_vars(SubCleanup(s) /\ UNCHANGED storeVars)
  /\ WF_vars(CloseSubs /\ UNCHANGED storeVars)
  /\ WF_vars(CloseStore /\ UNCHANGED storeVars)
  /\ \A c \in Closers : WF_vars(CloseReturn(c) /\ UNCHANGED storeVars)

FairSpec == Spec /\ Fairness

(***************************************************************************)
(* All that may be assumed: New runs, the other cases of the select are    *)
(* taken as well, and subscribers receive what is in their channels.       *)
(***************************************************************************)
FullFairness ==
  /\ Fairness
  /\ WF_vars(NewStep)
  /\ SF_vars(SeeClosed)
  /\ SF_vars(TakeEvent)
  /\ SF_vars(LoopTrigger /\ UNCHANGED storeVars)
  /\ \A s \in Subs : WF_vars(SubRecv(s) /\ UNCHANGED storeVars)

FullFairSpec == Spec /\ FullFairness

-----------------------------------------------------------------------------
\* Every variable of the Provider and of the store keeps its type.
TypeOK == ProviderTypeOK /\ ContractTypeOK

(***************************************************************************)
(* No send on and no close of a closed channel: Notify, the cleanup        *)
(* goroutines and Close race for the same subscriber channels.             *)
(***************************************************************************)
NoPanic == ~panicked

(***************************************************************************)
(* handleChangeEvent: "Subscribers calling p.Get() in their handler will   *)
(* therefore see the post-change snapshot".  The change of an event that   *)
(* waits in a subscriber channel is part of the snapshot, even if events   *)
(* arrive late, twice or out of order and some refreshes fail.             *)
(***************************************************************************)
EventsNotAhead ==
  \A s \in Subs : \A i \in 1..Len(subCh[s]) : subCh[s][i].ver <= currentVer

(***************************************************************************)
(* Subscribe's overflow rule: dropping an event when a channel is full is  *)
(* harmless.  A subscriber with nothing left to receive has rebuilt from a *)
(* snapshot at least as new as the one it was last notified about.         *)
(***************************************************************************)
OverflowIsHarmless ==
  \A s \in subs : subCh[s] = << >> => built[s] >= notified

(***************************************************************************)
(* Refresh coalesces requests and loses none: while the loop runs, a store *)
(* state that existed when Refresh was called is in the snapshot, or a     *)
(* refresh that will read it is queued or running, or the last refresh     *)
(* failed and LastError says so.                                           *)
(***************************************************************************)
NoLostRefresh ==
  LoopAlive /\ asked > currentVer =>
    \/ trigger
    \/ pc = "list"
    \/ pc = "install" /\ listedVer >= asked
    \/ lastErr

\* What no step after the return of a Close may do.
StaysQuiet ==
  (\E c \in Closers : closer[c] = "returned") =>
    /\ current' = current
    /\ \A s \in Subs : Len(subCh'[s]) <= Len(subCh[s])

(***************************************************************************)
(* Once some call of Close has returned, the event loop is over for good:  *)
(* the snapshot no longer changes and no channel receives an event.        *)
(***************************************************************************)
CloseIsFinal == [][StaysQuiet]_vars

\* LiveView, with the snapshot as its view.
View == INSTANCE LiveView WITH pos <- currentVer, view <- current

(***************************************************************************)
(* refresh builds a whole new snapshot from one List and swaps a pointer:  *)
(* Get never sees a mixture of two store states, nor an older state again. *)
(***************************************************************************)
ImplementsLiveView == View!ViewSpec

(***************************************************************************)
(* Close returns to every caller: the loop notices the cancelled context,  *)
(* whatever else its select has to do.                                     *)
(***************************************************************************)
CloseTerminates ==
  \A c \in Closers : (closer[c] = "in") ~> (closer[c] = "returned")

\* Subscribe: a subscription whose context is cancelled gets its channel closed.
CancelledChannelCloses ==
  \A s \in Subs : (s \in subDone) ~> (subState[s] = "closed")

(***************************************************************************)
(* The safety ticker: even if every event is lost and refreshes fail now   *)
(* and then, a Provider whose loop keeps running ends up with the newest   *)
(* state of a store that stops changing.                                   *)
(***************************************************************************)
SnapshotConverges ==
  <>[]LoopAlive => <>[](current = ApplyOverrides(Latest))

\* The recreate-on-change fields of the config built from a store state.
RecreateFields(ver) ==
  [k \in {j \in Keys : Strategy[j] = Recreate} |-> ApplyOverrides(states[ver])[k]]

(***************************************************************************)
(* Subscribe's comment on missed events: "The next event (or the next      *)
(* periodic refresh) will trigger the rebuild."  A subscriber that stays   *)
(* ends up with a resource built from the newest recreate-on-change values.*)
(***************************************************************************)
MissedEventIsRebuilt ==
  \A s \in Subs :
    <>[](LoopAlive /\ s \in subs) =>
      <>[](built[s] > 0 /\ RecreateFields(built[s]) = RecreateFields(LatestVer))

=============================================================================
