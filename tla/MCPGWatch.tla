----------------------------- MODULE MCPGWatch -----------------------------
(***************************************************************************)
(* PGWatch with one key in the Provider's namespace and in another one.    *)
(***************************************************************************)
EXTENDS PGWatch, TLC

CONSTANTS w1, w2  \* writers

MCBase     == [k \in Keys |-> "base"]
MCStrategy == [k \in Keys |-> Live]
MCParse    == [k \in Keys |-> [v \in RawValues |-> v]]

WriterSymmetry == Permutations({w1, w2})

=============================================================================
