------------------------------ MODULE Provider ------------------------------
(***************************************************************************)
(* Provider[T]: New, the event loop, Get, Refresh, Subscribe and Close.    *)
(*                                                                         *)
(* Concurrent actors: the goroutine that runs New and then the event loop  *)
(* (pc), the cleanup goroutine of each subscription, the subscribers that  *)
(* receive from their channels, and any callers of Refresh, Subscribe and  *)
(* Close.  What the Store answers is a parameter of the actions, so that a *)
(* module that composes the Provider with a store supplies it.             *)
(*                                                                         *)
(* Store states are numbered from 1.  The variables listedVer, currentVer, *)
(* asked, built and notified hold such numbers and exist only for the      *)
(* properties.                                                             *)
(* The counters of Stats are in module ProviderStats.                      *)
(***************************************************************************)
EXTENDS ConfigData

CONSTANTS
  Subs,     \* subscriptions: one per call of Subscribe
  Closers,  \* calls of Close
  SubBuf    \* WithSubscriberBuffer: capacity of a subscriber channel

ASSUME ProviderAssumption == SubBuf \in Nat \ {0}

VARIABLES
  pc,          \* control point of New and, after it, of eventLoop
  handling,    \* {event} while handleChangeEvent runs, else {}
  listed,      \* local variable "overrides" of refresh, while it runs
  listedVer,   \* number of the store state that List returned, or 0
  current,     \* p.current
  currentVer,  \* number of the store state the snapshot was built from
  lastErr,     \* p.lastErrText holds an error
  trigger,     \* p.refreshTrigger holds its one element
  asked,       \* number of the store state at the last call of Refresh
  ctxDone,     \* eventCtx is cancelled
  subs,        \* p.subs
  subCh,       \* contents of each subscriber channel
  subState,    \* "none" before Subscribe, then "open", then "closed"
  subDone,     \* subscriptions whose own context is cancelled
  built,       \* store state the subscriber last rebuilt its resource from
  notified,    \* number of the snapshot at the last notifySubscribers
  once,        \* p.closeMu: progress of the function given to Once.Do
  closer,      \* each call of Close: "idle", "in" or "returned"
  panicked     \* a send on, or a close of, a closed channel happened

loopVars == <<pc, handling, listed, listedVer, current, currentVer, lastErr>>
reqVars  == <<trigger, asked>>
subVars  == <<subs, subCh, subState, subDone, built, notified>>
stopVars == <<ctxDone, once, closer>>
providerVars == <<loopVars, reqVars, subVars, stopVars, panicked>>

NewSteps  == {"newList", "newInstall", "newWatch"}
LoopSteps == {"select", "list", "install", "notify"}

ProviderTypeOK ==
  /\ pc \in NewSteps \cup LoopSteps \cup {"failed", "exited"}
  /\ handling \in SUBSET ChangeEvent
  /\ listed \in Overrides
  /\ listedVer \in Nat
  /\ current \in Config \cup {NilConfig}
  /\ currentVer \in Nat
  /\ lastErr \in BOOLEAN
  /\ trigger \in BOOLEAN
  /\ asked \in Nat
  /\ ctxDone \in BOOLEAN
  /\ subs \in SUBSET Subs
  /\ subCh \in [Subs -> Seq(ChangeEvent)]
  /\ subState \in [Subs -> {"none", "open", "closed"}]
  /\ subDone \in SUBSET Subs
  /\ built \in [Subs -> Nat]
  /\ notified \in Nat
  /\ once \in {"idle", "waiting", "subsClosed", "done"}
  /\ closer \in [Closers -> {"idle", "in", "returned"}]
  /\ panicked \in BOOLEAN

ProviderInit ==
  /\ pc = "newList"
  /\ handling = {}
  /\ listed = NoOverrides
  /\ listedVer = 0
  /\ current = NilConfig
  /\ currentVer = 0
  /\ lastErr = FALSE
  /\ trigger = FALSE
  /\ asked = 0
  /\ ctxDone = FALSE
  /\ subs = {}
  /\ subCh = [s \in Subs |-> << >>]
  /\ subState = [s \in Subs |-> "none"]
  /\ subDone = {}
  /\ built = [s \in Subs |-> 0]
  /\ notified = 0
  /\ once = "idle"
  /\ closer = [c \in Closers |-> "idle"]
  /\ panicked = FALSE

\* New has returned a Provider, so its methods can be called.
Constructed == pc \in LoopSteps \cup {"exited"}

\* The event loop goroutine has not returned.
LoopAlive == pc \in LoopSteps

-----------------------------------------------------------------------------
(***************************************************************************)
(* refresh.  The call of store.List and the installation of the snapshot   *)
(* are two steps: the store may change between them.                       *)
(***************************************************************************)

\* store.List answers ovr, the store state with number ver.
ListStep(from, to, ovr, ver) ==
  /\ pc = from
  /\ pc' = to
  /\ listed' = ovr
  /\ listedVer' = ver
  /\ UNCHANGED <<handling, current, currentVer, lastErr>>

\* Seeded fault: the overrides are applied to the last snapshot, not to base.
Fault_InstallMerged ==
  /\ current' = [k \in Keys |-> IF listed[k] = Absent /\ current # NilConfig
                                THEN current[k]
                                ELSE ApplyOverrides(listed)[k]]
  /\ currentVer' = listedVer
  /\ lastErr' = FALSE
  /\ listed' = NoOverrides
  /\ listedVer' = 0

\* applyOverrides on the base struct, then p.current.Store; refresh returns.
Install ==
  /\ current' = ApplyOverrides(listed)
  /\ currentVer' = listedVer
  /\ lastErr' = FALSE
  /\ listed' = NoOverrides
  /\ listedVer' = 0

-----------------------------------------------------------------------------
(***************************************************************************)
(* New.  Its goroutine becomes the event loop here: New starts the loop as *)
(* its last action and returns.                                            *)
(***************************************************************************)
NewList(ovr, ver) ==
  /\ ListStep("newList", "newInstall", ovr, ver)
  /\ UNCHANGED <<reqVars, subVars, stopVars, panicked>>

\* The initial store.List returns an error, and so does New.
NewListFail ==
  /\ pc = "newList"
  /\ pc' = "failed"
  /\ lastErr' = TRUE
  /\ UNCHANGED <<handling, listed, listedVer, current, currentVer>>
  /\ UNCHANGED <<reqVars, subVars, stopVars, panicked>>

NewInstall ==
  /\ pc = "newInstall"
  /\ pc' = "newWatch"
  /\ Install
  /\ UNCHANGED handling
  /\ UNCHANGED <<reqVars, subVars, stopVars, panicked>>

\* store.Watch succeeds and the event loop starts.
NewWatch ==
  /\ pc = "newWatch"
  /\ pc' = "select"
  /\ UNCHANGED <<handling, listed, listedVer, current, currentVer, lastErr>>
  /\ UNCHANGED <<reqVars, subVars, stopVars, panicked>>

\* store.Watch returns an error: cancel(), and New returns an error.
NewWatchFail ==
  /\ pc = "newWatch"
  /\ pc' = "failed"
  /\ ctxDone' = TRUE
  /\ UNCHANGED <<handling, listed, listedVer, current, currentVer, lastErr>>
  /\ UNCHANGED <<reqVars, subVars, once, closer, panicked>>

-----------------------------------------------------------------------------
(***************************************************************************)
(* eventLoop.  At "select" any ready case may be chosen.                   *)
(***************************************************************************)
LoopGoto(to, evs) ==
  /\ pc = "select"
  /\ pc' = to
  /\ handling' = evs
  /\ UNCHANGED <<listed, listedVer, current, currentVer, lastErr>>
  /\ UNCHANGED <<subVars, stopVars, panicked>>

\* case <-ctx.Done(): return
LoopDone == ctxDone /\ LoopGoto("exited", {}) /\ UNCHANGED reqVars

\* case event, ok := <-watchCh with ok = FALSE: return
LoopClosed == LoopGoto("exited", {}) /\ UNCHANGED reqVars

\* Seeded fault: only events of recreate-on-change fields refresh.
Fault_EventRecreateOnly(ev) ==
  /\ IF Strategy[ev.key] = Recreate
     THEN LoopGoto("list", {ev})
     ELSE LoopGoto("select", {})
  /\ UNCHANGED reqVars

\* case event, ok := <-watchCh with ok = TRUE
LoopEvent(ev) == LoopGoto("list", {ev}) /\ UNCHANGED reqVars

\* Seeded fault: the safety tick only retries a refresh that failed.
Fault_TickOnError == lastErr /\ LoopGoto("list", {}) /\ UNCHANGED reqVars

\* case <-safetyTicker.C: the ticker may have fired at any time.
LoopTick == LoopGoto("list", {}) /\ UNCHANGED reqVars

\* case <-p.refreshTrigger
LoopTrigger ==
  /\ trigger
  /\ LoopGoto("list", {})
  /\ trigger' = FALSE
  /\ UNCHANGED asked

\* refresh calls store.List.
LoopList(ovr, ver) ==
  /\ ListStep("list", "install", ovr, ver)
  /\ UNCHANGED <<reqVars, subVars, stopVars, panicked>>

\* Seeded fault: handleChangeEvent goes on after a failed refresh.
Fault_NotifyAfterFail ==
  /\ pc = "list"
  /\ pc' = IF handling = {} THEN "select" ELSE "notify"
  /\ lastErr' = TRUE
  /\ UNCHANGED <<handling, listed, listedVer, current, currentVer>>
  /\ UNCHANGED <<reqVars, subVars, stopVars, panicked>>

\* store.List fails: the error is recorded, the snapshot stays, nobody is told.
LoopListFail ==
  /\ pc = "list"
  /\ pc' = "select"
  /\ handling' = {}
  /\ lastErr' = TRUE
  /\ UNCHANGED <<listed, listedVer, current, currentVer>>
  /\ UNCHANGED <<reqVars, subVars, stopVars, panicked>>

\* The changed key belongs to a recreate-on-change field.
MustNotify(ev) == Strategy[ev.key] = Recreate

\* Seeded fault: an event that finds the snapshot up to date is not passed on.
Fault_NotifyIfChanged ==
  /\ pc = "install"
  /\ Install
  /\ IF current' # current /\ \E ev \in handling : MustNotify(ev)
     THEN pc' = "notify" /\ UNCHANGED handling
     ELSE pc' = "select" /\ handling' = {}
  /\ UNCHANGED <<reqVars, subVars, stopVars, panicked>>

\* The rest of refresh, and the strategy check of handleChangeEvent.
LoopInstall ==
  /\ pc = "install"
  /\ Install
  /\ IF \E ev \in handling : MustNotify(ev)
     THEN pc' = "notify" /\ UNCHANGED handling
     ELSE pc' = "select" /\ handling' = {}
  /\ UNCHANGED <<reqVars, subVars, stopVars, panicked>>

\* Seeded fault: the last free slot of a channel is never used.
Fault_NotifyKeepsSlot ==
  /\ pc = "notify"
  /\ pc' = "select"
  /\ handling' = {}
  /\ \E ev \in handling :
       subCh' = [s \in Subs |->
                   IF s \in subs /\ Len(subCh[s]) < SubBuf - 1
                   THEN Append(subCh[s], ev) ELSE subCh[s]]
  /\ notified' = currentVer
  /\ panicked' = (panicked \/ \E s \in subs : subState[s] = "closed")
  /\ UNCHANGED <<listed, listedVer, current, currentVer, lastErr>>
  /\ UNCHANGED <<subs, subState, subDone, built, reqVars, stopVars>>

\* notifySubscribers, under subsMu: a full channel drops the event.
Notify ==
  /\ pc = "notify"
  /\ pc' = "select"
  /\ handling' = {}
  /\ \E ev \in handling :
       subCh' = [s \in Subs |->
                   IF s \in subs /\ Len(subCh[s]) < SubBuf
                   THEN Append(subCh[s], ev) ELSE subCh[s]]
  /\ notified' = currentVer
  /\ panicked' = (panicked \/ \E s \in subs : subState[s] = "closed")
  /\ UNCHANGED <<listed, listedVer, current, currentVer, lastErr>>
  /\ UNCHANGED <<subs, subState, subDone, built, reqVars, stopVars>>

-----------------------------------------------------------------------------
(***************************************************************************)
(* Subscribe and its cleanup goroutine; the subscriber itself is external: *)
(* it rebuilds its resource from Get when it subscribes and whenever an    *)
(* event arrives.                                                          *)
(***************************************************************************)
Subscribe(s) ==
  /\ Constructed
  /\ subState[s] = "none"
  /\ subState' = [subState EXCEPT ![s] = "open"]
  /\ subs' = subs \cup {s}
  /\ built' = [built EXCEPT ![s] = currentVer]
  /\ UNCHANGED <<subCh, subDone, notified, loopVars, reqVars, stopVars, panicked>>

\* The caller cancels the context it passed to Subscribe.
SubCancel(s) ==
  /\ subState[s] # "none"
  /\ s \notin subDone
  /\ subDone' = subDone \cup {s}
  /\ UNCHANGED <<subs, subCh, subState, built, notified>>
  /\ UNCHANGED <<loopVars, reqVars, stopVars, panicked>>

\* Seeded fault: the cleanup closes the channel and leaves it in p.subs.
Fault_CloseOnly(s) ==
  /\ s \in subDone
  /\ s \in subs
  /\ panicked' = (panicked \/ subState[s] = "closed")
  /\ subState' = [subState EXCEPT ![s] = "closed"]
  /\ UNCHANGED <<subs, subCh, subDone, built, notified, loopVars, reqVars, stopVars>>

\* The cleanup goroutine, under subsMu: only a registered channel is closed.
SubCleanup(s) ==
  /\ s \in subDone
  /\ s \in subs
  /\ subs' = subs \ {s}
  /\ panicked' = (panicked \/ subState[s] = "closed")
  /\ subState' = [subState EXCEPT ![s] = "closed"]
  /\ UNCHANGED <<subCh, subDone, built, notified, loopVars, reqVars, stopVars>>

\* The subscriber receives an event, calls Get and rebuilds.
SubRecv(s) ==
  /\ subCh[s] # << >>
  /\ subCh' = [subCh EXCEPT ![s] = Tail(@)]
  /\ built' = [built EXCEPT ![s] = currentVer]
  /\ UNCHANGED <<subs, subState, subDone, notified>>
  /\ UNCHANGED <<loopVars, reqVars, stopVars, panicked>>

-----------------------------------------------------------------------------
\* Seeded fault: the request is dropped while the loop is refreshing.
Fault_RefreshSkipped(ver) ==
  /\ Constructed
  /\ trigger' = (trigger \/ pc = "select")
  /\ asked' = ver
  /\ UNCHANGED <<loopVars, subVars, stopVars, panicked>>

\* Refresh, called when the store is in state number ver.
RequestRefresh(ver) ==
  /\ Constructed
  /\ trigger' = TRUE
  /\ asked' = ver
  /\ UNCHANGED <<loopVars, subVars, stopVars, panicked>>

\* The context passed to New is cancelled.
ParentCancel ==
  /\ ~ctxDone
  /\ ctxDone' = TRUE
  /\ UNCHANGED <<loopVars, reqVars, subVars, once, closer, panicked>>

\* Seeded fault: Close waits for the loop and does not cancel its context.
Fault_CloseNoCancel(c) ==
  /\ Constructed
  /\ closer[c] = "idle"
  /\ closer' = [closer EXCEPT ![c] = "in"]
  /\ once' = IF once = "idle" THEN "waiting" ELSE once
  /\ UNCHANGED <<ctxDone, loopVars, reqVars, subVars, panicked>>

(***************************************************************************)
(* Close.  The first caller runs the function given to Once.Do; the others *)
(* block in Do until that function has returned.                           *)
(***************************************************************************)
CloseEnter(c) ==
  /\ Constructed
  /\ closer[c] = "idle"
  /\ closer' = [closer EXCEPT ![c] = "in"]
  /\ IF once = "idle"
     THEN once' = "waiting" /\ ctxDone' = TRUE
     ELSE UNCHANGED <<once, ctxDone>>
  /\ UNCHANGED <<loopVars, reqVars, subVars, panicked>>

\* Seeded fault: Close does not wait for the event loop.
Fault_CloseNoWait ==
  /\ once = "waiting"
  /\ once' = "subsClosed"
  /\ panicked' = (panicked \/ \E s \in subs : subState[s] = "closed")
  /\ subState' = [s \in Subs |-> IF s \in subs THEN "closed" ELSE subState[s]]
  /\ subs' = {}
  /\ UNCHANGED <<subCh, subDone, built, notified, loopVars, reqVars, ctxDone, closer>>

\* Seeded fault: Close forgets the channels without closing them.
Fault_CloseForgets ==
  /\ once = "waiting"
  /\ pc = "exited"
  /\ once' = "subsClosed"
  /\ subs' = {}
  /\ UNCHANGED <<subState, subCh, subDone, built, notified>>
  /\ UNCHANGED <<loopVars, reqVars, ctxDone, closer, panicked>>

\* p.wg.Wait() returns; then, under subsMu, every channel is closed.
CloseSubs ==
  /\ once = "waiting"
  /\ pc = "exited"
  /\ once' = "subsClosed"
  /\ panicked' = (panicked \/ \E s \in subs : subState[s] = "closed")
  /\ subState' = [s \in Subs |-> IF s \in subs THEN "closed" ELSE subState[s]]
  /\ subs' = {}
  /\ UNCHANGED <<subCh, subDone, built, notified, loopVars, reqVars, ctxDone, closer>>

\* p.store.Close, the last step of the function given to Once.Do.
CloseStore ==
  /\ once = "subsClosed"
  /\ once' = "done"
  /\ UNCHANGED <<loopVars, reqVars, subVars, ctxDone, closer, panicked>>

CloseReturn(c) ==
  /\ closer[c] = "in"
  /\ once = "done"
  /\ closer' = [closer EXCEPT ![c] = "returned"]
  /\ UNCHANGED <<loopVars, reqVars, subVars, ctxDone, once, panicked>>

=============================================================================
