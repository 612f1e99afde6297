------------------------------ MODULE PGWatch ------------------------------
(***************************************************************************)
(* A PGStore as a Provider uses it: the database with its writers, one     *)
(* call of Watch for namespace NS with its listenLoop, and the Provider's  *)
(* end of the channel.  It is shown to keep the contract of StoreContract, *)
(* so that what holds of LiveStore holds of a Provider on a PGStore.       *)
(*                                                                         *)
(* listenAt and seenVer exist only for the properties.                     *)
(***************************************************************************)
EXTENDS PGStore, PGListener, StoreContract, SequencesExt

\* A table row holds any text: every override map is a state of the namespace.
ASSUME PGWatchAssumption == StoreStates = Overrides

VARIABLES
  ctxDone,   \* the context given to Watch is cancelled
  listenAt,  \* number of the last commit before the LISTEN in force
  seenVer    \* number of the newest store state received from the channel

vars == <<pgVars, listenVars, storeVars, ctxDone, listenAt, seenVer>>

\* All but the database, and all but the listener and its channel.
watchVars == <<listenVars, storeVars, ctxDone, listenAt, seenVer>>

Init ==
  /\ PGInit
  /\ ListenInit
  /\ states = <<PGList(NS)>>
  /\ watchCh = << >>
  /\ watchState = "none"
  /\ ctxDone = FALSE
  /\ listenAt = 0
  /\ seenVer = 1

-----------------------------------------------------------------------------
\* The statements of a transaction up to its end change nothing outside it.
TxStep(w) ==
  /\ \/ \E n \in Namespaces, k \in Keys :
          (\E v \in RawValues : SetRead(w, n, k, v)) \/ DeleteRow(w, n, k)
     \/ SetUpsert(w)
     \/ SetAudit(w)
     \/ DeleteAudit(w)
     \/ Rollback(w)
  /\ UNCHANGED watchVars

\* A commit, which changes what List returns and notifies the listener.
CommitStep(w) ==
  /\ Commit(w)
  /\ Change(PGList(NS)')
  /\ Enqueue(NotifyPayload(w, Len(log) + 1))
  /\ UNCHANGED <<ctxDone, listenAt, seenVer>>

\* Watch; a Watch that fails returns an error and changes nothing.
Watch ==
  /\ ~ctxDone
  /\ WatchListen
  /\ OpenWatch
  /\ listenAt' = Len(log)
  /\ UNCHANGED <<pgVars, ctxDone, seenVer>>

\* A step of listenLoop that leaves the channel alone.
LoopStep ==
  /\ \/ TakeNotification(NS)
     \/ WaitFails /\ ~ctxDone
     \/ BackoffOver
     \/ RelistenFails
     \/ ReconnectFails
  /\ UNCHANGED <<pgVars, storeVars, ctxDone, listenAt, seenVer>>

\* The network, or the server, drops the connection.
NetworkStep ==
  ConnLost /\ UNCHANGED <<pgVars, storeVars, ctxDone, listenAt, seenVer>>

LoopReconnect ==
  /\ ~ctxDone
  /\ Reconnect
  /\ listenAt' = Len(log)
  /\ UNCHANGED <<pgVars, storeVars, ctxDone, seenVer>>

\* Seeded fault: an event that finds the channel full is dropped.
Fault_SendOrDrop ==
  /\ Sent
  /\ \E ev \in held : IF Len(watchCh) < WatchBuf THEN Deliver(ev)
                      ELSE UNCHANGED storeVars
  /\ UNCHANGED <<pgVars, ctxDone, listenAt, seenVer>>

\* case ch <- event
LoopSend ==
  /\ Sent
  /\ \E ev \in held : Deliver(ev)
  /\ UNCHANGED <<pgVars, ctxDone, listenAt, seenVer>>

\* The loop returns, or panics: either way the deferred close(ch) runs.
LoopEnds ==
  /\ (ctxDone /\ ListenExit) \/ WaitOnNil
  /\ CloseWatch
  /\ UNCHANGED <<pgVars, ctxDone, listenAt, seenVer>>

\* The Provider receives; nothing of a crashed process does.
ProviderTakes ==
  /\ loop # "crashed"
  /\ Receive
  /\ seenVer' = Head(watchCh).ver
  /\ UNCHANGED <<pgVars, listenVars, ctxDone, listenAt>>

\* The Provider is closed, or New's context is cancelled.
CancelWatch ==
  /\ ~ctxDone
  /\ ctxDone' = TRUE
  /\ UNCHANGED <<pgVars, listenVars, storeVars, listenAt, seenVer>>

Next ==
  \/ \E w \in Writers : TxStep(w) \/ CommitStep(w)
  \/ Watch
  \/ LoopStep
  \/ NetworkStep
  \/ LoopReconnect
  \/ LoopSend
  \/ LoopEnds
  \/ ProviderTakes
  \/ CancelWatch

Spec == Init /\ [][Next]_vars

(***************************************************************************)
(* Fairness.  listenLoop runs when it can; its selects choose ctx.Done if  *)
(* they are reached with it again and again; an attempt to reconnect that  *)
(* is made again and again succeeds in the end; the Provider receives until *)
(* its context ends.  Nothing is assumed of writers and of the network.    *)
(***************************************************************************)
Fairness ==
  /\ WF_vars(LoopStep \/ LoopReconnect \/ LoopSend \/ LoopEnds)
  /\ SF_vars(LoopReconnect)
  /\ SF_vars(LoopEnds)
  /\ WF_vars(ProviderTakes /\ ~ctxDone)

FairSpec == Spec /\ Fairness

-----------------------------------------------------------------------------
\* Every variable keeps its type; what listenLoop sends is an event.
TypeOK ==
  /\ PGTypeOK
  /\ ListenTypeOK
  /\ ContractTypeOK
  /\ ctxDone \in BOOLEAN
  /\ {listenAt, seenVer} \subseteq Nat

\* What is on its way to the Provider, oldest first.
Pipeline ==
  watchCh \o (IF held = {} THEN << >> ELSE <<CHOOSE ev \in held : TRUE>>) \o inbox

(***************************************************************************)
(* What is on its way to the Provider is in commit order, without          *)
(* repetition and newer than all it has received, also across              *)
(* reconnections and blocked sends.  While the connection listens it is    *)
(* exactly what was committed in the namespace since the LISTEN and not    *)
(* yet received: no change is missing, and none of a transaction that was  *)
(* rolled back is there.                                                   *)
(***************************************************************************)
ListenIsExact ==
  LET Mine(ev) == ev.ns = NS /\ ev.ver > listenAt + 1
  IN  /\ \A i, j \in 1..Len(Pipeline) : i < j => Pipeline[i].ver < Pipeline[j].ver
      /\ \A i \in 1..Len(Pipeline) : seenVer < Pipeline[i].ver
      /\ conn = "listening" =>
           {ev \in ToSet(Pipeline) : Mine(ev)}
             = {ev \in ToSet(log) : Mine(ev) /\ ev.ver > seenVer}

(***************************************************************************)
(* listenLoop, the trigger and the transactions keep the contract that     *)
(* LiveStore assumes: an event announces a state that List has reached.    *)
(***************************************************************************)
ImplementsContract == ContractSpec

(***************************************************************************)
(* Watch: "The channel is closed when ctx is cancelled", even if the loop  *)
(* is blocked on a full channel nobody reads, or is about to reconnect     *)
(* (if that fails, it is the deferred close of the panic that closes it).  *)
(***************************************************************************)
WatchClosesAfterCancel ==
  (ctxDone /\ watchState = "open") ~> (watchState = "closed")

(***************************************************************************)
(* Watch: "The connection is re-established automatically with exponential *)
(* backoff when it drops."                                                 *)
(***************************************************************************)
ListenResumes ==
  (conn = "lost" /\ ~ctxDone) ~> (conn = "listening" \/ ctxDone)

=============================================================================
