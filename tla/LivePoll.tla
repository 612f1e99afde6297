------------------------------ MODULE LivePoll ------------------------------
(***************************************************************************)
(* A Provider on a store that implements Watch with a PollingWatcher.  It  *)
(* is LiveStore with the store's own steps restricted to what pollLoop     *)
(* does; the Provider and the poller list the store independently.         *)
(***************************************************************************)
EXTENDS LiveStore, PollingWatcher

lpVars == <<vars, pollVars>>

LPInit == Init /\ PollInit

\* New; its call of Watch starts pollLoop and never fails.
LPNewStep ==
  \/ NewList(Latest, LatestVer) /\ UNCHANGED <<storeVars, pollVars>>
  \/ NewListFail /\ UNCHANGED <<storeVars, pollVars>>
  \/ NewInstall /\ UNCHANGED <<storeVars, pollVars>>
  \/ NewWatch /\ OpenWatch /\ PollStart

LPProviderStep ==
  (SelectStep \/ RefreshStep \/ SubStep \/ CallStep) /\ UNCHANGED pollVars

\* Somebody changes the store.
LPChange ==
  /\ \E ovr \in StoreStates : Change(ovr)
  /\ UNCHANGED <<providerVars, pollVars>>

\* A tick of pollLoop whose List succeeds.
LPPoll ==
  /\ PollSeed(Latest, LatestVer) \/ PollCompare(Latest, LatestVer)
  /\ UNCHANGED vars

\* pollLoop finds room in the channel.
LPSend ==
  /\ \E k \in Keys : PollSend(k) /\ Deliver(EventOf(NS, k))
  /\ UNCHANGED providerVars

\* pollLoop returns and closes the channel.
LPExit == ctxDone /\ PollExit /\ CloseWatch /\ UNCHANGED providerVars

LPNext ==
  LPNewStep \/ LPProviderStep \/ LPChange \/ LPPoll \/ LPSend \/ LPExit

LPSpec == LPInit /\ [][LPNext]_lpVars

(***************************************************************************)
(* Fairness: that of LiveStore for New, the loop and Close, without the    *)
(* ticker and the subscribers; pollLoop's goroutine runs when it can.      *)
(***************************************************************************)
LPFairness ==
  /\ WF_lpVars(LPNewStep)
  /\ WF_lpVars(RefreshStep /\ UNCHANGED pollVars)
  /\ SF_lpVars(LoopDone /\ UNCHANGED <<storeVars, pollVars>>)
  /\ SF_lpVars(SeeClosed /\ UNCHANGED pollVars)
  /\ WF_lpVars(LPSend)
  /\ SF_lpVars(LPExit)

LPFairSpec == LPSpec /\ LPFairness

-----------------------------------------------------------------------------
\* Every variable keeps its type.
LPTypeOK == TypeOK /\ PollTypeOK

\* The newest store state the event loop has read.
PollReadVer == IF pc = "install" THEN listedVer ELSE currentVer

(***************************************************************************)
(* No lost wakeup with polling: a difference the poller has found is in    *)
(* what the event loop has read, or an event of it is still to be sent or  *)
(* received, or the loop is about to list, or its last refresh failed and  *)
(* LastError says so.                                                      *)
(***************************************************************************)
DifferenceWakesLoop ==
  LoopAlive /\ watchState = "open" /\ diffVer > PollReadVer =>
    \/ todo # {}
    \/ watchCh # << >>
    \/ pc = "list"
    \/ lastErr

(***************************************************************************)
(* The events of a PollingWatcher are a complete diff: who replays them on *)
(* the baseline has, between two ticks, exactly the list of the last tick, *)
(* up to the empty string, which an event does not tell from a deletion.   *)
(***************************************************************************)
ReplayGivesList ==
  seeded /\ poll = "wait" => \A k \in Keys : mirror[k] = TextOf(prev[k])

\* pollLoop keeps the contract of StoreContract, so LiveStore's results hold.
ImplementsLiveStore == Spec

(***************************************************************************)
(* pollLoop never outlives its context, even when it is blocked on a full  *)
(* channel whose reader has gone.                                          *)
(***************************************************************************)
PollLoopExits == (ctxDone /\ poll \in {"wait", "send"}) ~> (poll = "exited")

=============================================================================
