---------------------------- MODULE MCLiveStore ----------------------------
(***************************************************************************)
(* LiveStore with one recreate-on-change string field and one live integer *)
(* field, for which the empty string and "b" do not parse.                 *)
(***************************************************************************)
EXTENDS LiveStore, TLC

CONSTANTS r, l,         \* keys
          s1,           \* subscription
          c1, c2        \* calls of Close

MCKeys   == {r, l}
MCRaw    == {"", "a", "b"}
MCEmpty  == ""
MCFields == {"base", "", "a", "b"}
MCBase   == [k \in MCKeys |-> "base"]
MCStrategy == r :> Recreate @@ l :> Live
MCParse ==
  r :> [v \in MCRaw |-> v] @@
  l :> [v \in MCRaw |-> IF v = "a" THEN "a" ELSE Invalid]

Ovr(vr, vl) == r :> vr @@ l :> vl

\* The two states give configs that differ in both fields, so a mixture of them
\* is neither; an event of r does not tell its deletion from the empty string.
MCStates == {Ovr(Absent, "a"), Ovr("", "b")}

=============================================================================
