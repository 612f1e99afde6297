------------------------------ MODULE MCLiveMem ------------------------------
(***************************************************************************)
(* LiveMem with one recreate-on-change field.                              *)
(***************************************************************************)
EXTENDS LiveMem

MCBase     == [k \in Keys |-> "base"]
MCStrategy == [k \in Keys |-> Recreate]
MCParse    == [k \in Keys |-> [v \in RawValues |-> v]]
MCWatchNs  == [w \in Watchers |-> NS]

=============================================================================
