----------------------------- MODULE MCLivePoll -----------------------------
(***************************************************************************)
(* LivePoll with a recreate-on-change field r and a live field l.          *)
(***************************************************************************)
EXTENDS LivePoll, TLC

MCBase     == [k \in Keys |-> "base"]
MCStrategy == [k \in Keys |-> IF k = "r" THEN Recreate ELSE Live]
MCParse    == [k \in Keys |-> [v \in RawValues |-> v]]

Ovr(vr, vl) == "r" :> vr @@ "l" :> vl

\* Two states that differ in both keys, and one that differs in one of them.
MCStates == {Ovr(Absent, "a"), Ovr("a", Absent), Ovr("a", "a")}

=============================================================================
