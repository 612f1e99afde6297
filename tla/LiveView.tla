------------------------------ MODULE LiveView ------------------------------
(***************************************************************************)
(* What a Provider promises to the callers of Get, whatever the store and  *)
(* the schedule: the snapshot is always the base struct with all overrides *)
(* of ONE state the store was in, and it never goes back to an older one.  *)
(***************************************************************************)
EXTENDS ConfigData

CONSTANT StoreStates

VARIABLES
  states,  \* the states of the store so far, newest last
  pos,     \* number of the state the snapshot shows, 0 before the first one
  view     \* the snapshot

viewVars == <<states, pos, view>>

ViewInit ==
  /\ \E ovr \in StoreStates : states = <<ovr>>
  /\ pos = 0
  /\ view = NilConfig

\* The store moves on.
Publish ==
  /\ \E ovr \in StoreStates : states' = Append(states, ovr)
  /\ UNCHANGED <<pos, view>>

\* The snapshot moves to a store state that is not older.
Advance ==
  /\ \E n \in 1..Len(states) :
       /\ n >= pos
       /\ pos' = n
       /\ view' = ApplyOverrides(states[n])
  /\ UNCHANGED states

ViewNext == Publish \/ Advance

ViewSpec == ViewInit /\ [][ViewNext]_viewVars

=============================================================================
