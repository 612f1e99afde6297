------------------------------ MODULE MCMemUse ------------------------------
(***************************************************************************)
(* MemUse with two namespaces, one key in each, and a watcher of each      *)
(* namespace.                                                              *)
(***************************************************************************)
EXTENDS MemUse

MCWatchNs == [w \in Watchers |-> IF w = "w2" THEN "ns2" ELSE "ns1"]
MCBase     == [k \in Keys |-> "base"]
MCStrategy == [k \in Keys |-> Live]
MCParse    == [k \in Keys |-> [v \in RawValues |-> v]]
MCPageKey  == <<"ns1", "k">>

=============================================================================
