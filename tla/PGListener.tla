----------------------------- MODULE PGListener -----------------------------
(***************************************************************************)
(* PGStore.Watch and listenLoop: one goroutine with a connection of its    *)
(* own.  Notifications queue up on the connection while it listens and are *)
(* gone with it.  pgx is external and modelled as the code uses it: after  *)
(* the connection is lost or closed WaitForNotification fails, and a       *)
(* ConnectConfig that fails returns a nil connection.                      *)
(*                                                                         *)
(* How long the loop backs off, and the doubling and resetting of that     *)
(* time, is left out: the timer fires some time.  The channel and the      *)
(* context belong to the module that composes this one with the database.  *)
(***************************************************************************)
EXTENDS ConfigData

VARIABLES
  conn,    \* the connection
  inbox,   \* notifications on the connection, not yet received
  loop,    \* control point of listenLoop
  held     \* {event} while listenLoop sends it, else {}

listenVars == <<conn, inbox, loop, held>>

ListenTypeOK ==
  /\ conn \in {"none", "listening", "lost", "closed", "nil"}
  /\ inbox \in Seq(ChangeEvent)
  /\ loop \in {"off", "wait", "send", "backoff", "connect", "exited", "crashed"}
  /\ held \in SUBSET ChangeEvent

ListenInit ==
  /\ conn = "none"
  /\ inbox = << >>
  /\ loop = "off"
  /\ held = {}

\* listenLoop runs.
Listening == loop \in {"wait", "send", "backoff", "connect"}

-----------------------------------------------------------------------------
\* Watch: ConnectConfig and LISTEN succeed, and the goroutine starts.
WatchListen ==
  /\ loop = "off"
  /\ loop' = "wait"
  /\ conn' = "listening"
  /\ UNCHANGED <<inbox, held>>

\* A transaction that commits notifies the sessions that listen.
Enqueue(note) ==
  /\ inbox' = IF conn = "listening" THEN Append(inbox, note) ELSE inbox
  /\ UNCHANGED <<conn, loop, held>>

\* The connection breaks; some of what is queued on it never arrives.
ConnLost ==
  /\ conn = "listening"
  /\ conn' = "lost"
  /\ \E n \in 0..Len(inbox) : inbox' = SubSeq(inbox, 1, n)
  /\ UNCHANGED <<loop, held>>

\* Seeded fault: events of all namespaces are forwarded.
Fault_TakeAll(ns) ==
  /\ loop = "wait"
  /\ inbox # << >>
  /\ inbox' = Tail(inbox)
  /\ loop' = "send" /\ held' = {Head(inbox)}
  /\ UNCHANGED conn

\* WaitForNotification returns a notification; other namespaces are skipped.
TakeNotification(ns) ==
  /\ loop = "wait"
  /\ inbox # << >>
  /\ inbox' = Tail(inbox)
  /\ IF Head(inbox).ns = ns
     THEN loop' = "send" /\ held' = {Head(inbox)}
     ELSE UNCHANGED <<loop, held>>
  /\ UNCHANGED conn

\* The event has found room in the channel.
Sent ==
  /\ loop = "send"
  /\ loop' = "wait"
  /\ held' = {}
  /\ UNCHANGED <<conn, inbox>>

\* WaitForNotification fails on a broken or closed connection.
WaitFails ==
  /\ loop = "wait"
  /\ conn \in {"lost", "closed"}
  /\ inbox = << >>
  /\ loop' = "backoff"
  /\ conn' = "closed"
  /\ UNCHANGED <<inbox, held>>

\* time.After(backoff)
BackoffOver ==
  /\ loop = "backoff"
  /\ loop' = "connect"
  /\ UNCHANGED <<conn, inbox, held>>

\* ConnectConfig and LISTEN succeed.
Reconnect ==
  /\ loop = "connect"
  /\ loop' = "wait"
  /\ conn' = "listening"
  /\ UNCHANGED <<inbox, held>>

\* ConnectConfig succeeds and LISTEN fails: the new connection is closed.
RelistenFails ==
  /\ loop = "connect"
  /\ loop' = "wait"
  /\ conn' = "closed"
  /\ UNCHANGED <<inbox, held>>

\* ConnectConfig fails: conn is nil, and the loop continues.
ReconnectFails ==
  /\ loop = "connect"
  /\ loop' = "wait"
  /\ conn' = "nil"
  /\ UNCHANGED <<inbox, held>>

\* WaitForNotification on a nil connection: the process panics.
WaitOnNil ==
  /\ loop = "wait"
  /\ conn = "nil"
  /\ loop' = "crashed"
  /\ UNCHANGED <<conn, inbox, held>>

\* Seeded fault: a blocked send does not watch the context.
Fault_StopUnlessSending ==
  /\ loop \in {"wait", "backoff"}
  /\ conn # "nil"
  /\ loop' = "exited"
  /\ conn' = "closed"
  /\ inbox' = << >>
  /\ held' = {}

(***************************************************************************)
(* The context is done: WaitForNotification fails, or one of the two       *)
(* selects chooses ctx.Done.  The connection is closed and the loop        *)
(* returns.                                                                *)
(***************************************************************************)
ListenExit ==
  /\ loop \in {"wait", "send", "backoff"}
  /\ conn # "nil"
  /\ loop' = "exited"
  /\ conn' = "closed"
  /\ inbox' = << >>
  /\ held' = {}

=============================================================================
