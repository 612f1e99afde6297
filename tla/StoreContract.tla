--------------------------- MODULE StoreContract ---------------------------
(***************************************************************************)
(* What the Provider may assume of a Store, for the one namespace it uses. *)
(*                                                                         *)
(* The store goes through a sequence of states; List returns the current   *)
(* one or fails.  The channel that Watch returned is bounded and may lose, *)
(* delay, repeat and reorder the events of changes; an event never         *)
(* announces a state the store has not reached.  The channel is closed at  *)
(* a moment the store chooses.                                             *)
(***************************************************************************)
EXTENDS ConfigData

CONSTANTS
  NS,           \* the Provider's namespace
  StoreStates,  \* the states the namespace may be in
  WatchBuf,     \* capacity of the watch channel
  MaxStates     \* bound: number of states the store goes through

ASSUME ContractAssumption ==
  /\ NS \in Namespaces
  /\ StoreStates \subseteq Overrides
  /\ WatchBuf \in Nat \ {0}
  /\ MaxStates \in Nat \ {0}

VARIABLES
  states,      \* the states of the namespace so far, newest last
  watchCh,     \* contents of the watch channel
  watchState   \* "none" before Watch, then "open", then "closed"

storeVars == <<states, watchCh, watchState>>

\* What List returns, and its number.
Latest    == states[Len(states)]
LatestVer == Len(states)

ContractTypeOK ==
  /\ states \in Seq(StoreStates)
  /\ Len(states) >= 1
  /\ watchCh \in Seq(ChangeEvent)
  /\ watchState \in {"none", "open", "closed"}

ContractInit ==
  /\ \E ovr \in StoreStates : states = <<ovr>>
  /\ watchCh = << >>
  /\ watchState = "none"

\* An event that announces state ver of the store for key k.
AnnouncesChange(ev) ==
  /\ ev.ns = NS
  /\ ev.ver \in 2..Len(states)
  /\ ev.new = TextOf(states[ev.ver][ev.key])
  /\ \E m \in 1..(ev.ver - 1) : ev.old = TextOf(states[m][ev.key])

\* The events the watch channel may deliver now.
Announcements ==
  {ev \in [ns : {NS}, key : Keys, old : RawValues, new : RawValues,
           ver : 2..Len(states)] : AnnouncesChange(ev)}

\* One or more overrides of the namespace are written or deleted at once.
Change(ovr) ==
  /\ Len(states) < MaxStates
  /\ states' = Append(states, ovr)
  /\ UNCHANGED <<watchCh, watchState>>

\* Watch returns a new channel.
OpenWatch ==
  /\ watchState = "none"
  /\ watchState' = "open"
  /\ UNCHANGED <<states, watchCh>>

\* The store puts an event on the channel.
Deliver(ev) ==
  /\ watchState = "open"
  /\ Len(watchCh) < WatchBuf
  /\ watchCh' = Append(watchCh, ev)
  /\ UNCHANGED <<states, watchState>>

\* The store closes the channel; events already in it stay readable.
CloseWatch ==
  /\ watchState = "open"
  /\ watchState' = "closed"
  /\ UNCHANGED <<states, watchCh>>

\* The Provider receives the oldest event of the channel.
Receive ==
  /\ watchCh # << >>
  /\ watchCh' = Tail(watchCh)
  /\ UNCHANGED <<states, watchState>>

\* The store on its own, with a Provider that may receive at any time.
ContractNext ==
  \/ \E ovr \in StoreStates : Change(ovr)
  \/ OpenWatch
  \/ \E ev \in Announcements : Deliver(ev)
  \/ CloseWatch
  \/ Receive

ContractSpec == ContractInit /\ [][ContractNext]_storeVars

=============================================================================
