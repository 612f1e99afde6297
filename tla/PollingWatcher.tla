--------------------------- MODULE PollingWatcher ---------------------------
(***************************************************************************)
(* PollingWatcher.pollLoop for one call of Watch.  Every tick lists the    *)
(* namespace; the first successful list is the baseline, each later one is *)
(* compared with the one before it, and the differences are sent one by    *)
(* one, blocking while the channel is full.  A list that fails changes     *)
(* nothing and has no action here.                                         *)
(*                                                                         *)
(* The channel and the context belong to the module that composes this one *)
(* with a store and a Provider.  The numbers prevVer, currVer and diffVer  *)
(* and the map mirror exist only for the properties.                       *)
(***************************************************************************)
EXTENDS ConfigData

VARIABLES
  poll,     \* "off" before Watch, "wait" for a tick, "send" or "exited"
  seeded,   \* the baseline is recorded
  prev,     \* the list of the last finished tick
  prevVer,  \* number of the store state prev is
  curr,     \* the list of this tick, while its differences are sent
  currVer,  \* number of the store state curr is
  todo,     \* keys that differ and have no event yet
  diffVer,  \* number of the store state that last differed from prev
  mirror    \* what replaying all events on the baseline gives, as text

pollVars ==
  <<poll, seeded, prev, prevVer, curr, currVer, todo, diffVer, mirror>>

PollTypeOK ==
  /\ poll \in {"off", "wait", "send", "exited"}
  /\ seeded \in BOOLEAN
  /\ {prev, curr} \subseteq Overrides
  /\ {prevVer, currVer, diffVer} \subseteq Nat
  /\ todo \subseteq Keys
  /\ mirror \in [Keys -> RawValues]

PollInit ==
  /\ poll = "off"
  /\ seeded = FALSE
  /\ prev = NoOverrides
  /\ prevVer = 0
  /\ curr = NoOverrides
  /\ currVer = 0
  /\ todo = {}
  /\ diffVer = 0
  /\ mirror = [k \in Keys |-> Empty]

-----------------------------------------------------------------------------
\* Watch starts the goroutine.
PollStart ==
  /\ poll = "off"
  /\ poll' = "wait"
  /\ UNCHANGED <<seeded, prev, prevVer, curr, currVer, todo, diffVer, mirror>>

\* A tick whose List is the first to succeed.
PollSeed(ovr, ver) ==
  /\ poll = "wait"
  /\ ~seeded
  /\ seeded' = TRUE
  /\ prev' = ovr
  /\ prevVer' = ver
  /\ mirror' = [k \in Keys |-> TextOf(ovr[k])]
  /\ UNCHANGED <<poll, curr, currVer, todo, diffVer>>

\* Keys added, updated or deleted since the last tick.
Differences(ovr) == {k \in Keys : ovr[k] # prev[k]}

\* A later tick.
PollCompare(ovr, ver) ==
  /\ poll = "wait"
  /\ seeded
  /\ IF Differences(ovr) = {}
     THEN /\ prev' = ovr
          /\ prevVer' = ver
          /\ UNCHANGED <<poll, curr, currVer, todo, diffVer>>
     ELSE /\ poll' = "send"
          /\ curr' = ovr
          /\ currVer' = ver
          /\ todo' = Differences(ovr)
          /\ diffVer' = ver
          /\ UNCHANGED <<prev, prevVer>>
  /\ UNCHANGED <<seeded, mirror>>

\* Seeded fault: the old and the new value are swapped.
Fault_EventSwapped(ns, k) ==
  [ns |-> ns, key |-> k, old |-> TextOf(curr[k]), new |-> TextOf(prev[k]),
   ver |-> currVer]

\* The event of a key that differs.
EventOf(ns, k) ==
  [ns |-> ns, key |-> k, old |-> TextOf(prev[k]), new |-> TextOf(curr[k]),
   ver |-> currVer]

\* Seeded fault: prev keeps the baseline.
Fault_SendKeepsPrev(k) ==
  /\ poll = "send"
  /\ k \in todo
  /\ curr[k] = Absent => \A j \in todo : curr[j] = Absent
  /\ todo' = todo \ {k}
  /\ mirror' = [mirror EXCEPT ![k] = TextOf(curr[k])]
  /\ poll' = IF todo' = {} THEN "wait" ELSE "send"
  /\ UNCHANGED <<seeded, prev, prevVer, curr, currVer, diffVer>>

(***************************************************************************)
(* The event of k is sent.  Maps are iterated in any order, deleted keys   *)
(* after all others; prev is replaced when everything is sent.             *)
(***************************************************************************)
PollSend(k) ==
  /\ poll = "send"
  /\ k \in todo
  /\ curr[k] = Absent => \A j \in todo : curr[j] = Absent
  /\ todo' = todo \ {k}
  /\ mirror' = [mirror EXCEPT ![k] = TextOf(curr[k])]
  /\ IF todo' = {}
     THEN /\ poll' = "wait"
          /\ prev' = curr
          /\ prevVer' = currVer
     ELSE UNCHANGED <<poll, prev, prevVer>>
  /\ UNCHANGED <<seeded, curr, currVer, diffVer>>

\* Seeded fault: a blocked send does not watch the context.
Fault_ExitOnTickOnly ==
  /\ poll = "wait"
  /\ poll' = "exited"
  /\ UNCHANGED <<seeded, prev, prevVer, curr, currVer, todo, diffVer, mirror>>

\* ctx.Done, while waiting for a tick or for room in the channel.
PollExit ==
  /\ poll \in {"wait", "send"}
  /\ poll' = "exited"
  /\ UNCHANGED <<seeded, prev, prevVer, curr, currVer, todo, diffVer, mirror>>

=============================================================================
