----------------------------- MODULE MCCatalog -----------------------------
(***************************************************************************)
(* Struct types of two fields: a section with one leaf, and a leaf.  The   *)
(* section, or its leaf, takes every combination of attributes; the second *)
(* field has a key of its own, or one that meets the first leaf's.  One    *)
(* more type nests pointers two deep.                                      *)
(***************************************************************************)
EXTENDS CatalogUse

MCNumber  == "1" :> 1 @@ "6" :> 6 @@ "99" :> 99
MCAccepts == [k \in {"string", "[]named", "float32"} |-> RawValues]

\* A float32 so narrow that it rounds 99.
MCSingle == [v \in RawValues |-> IF v = "99" THEN "6" ELSE v]

Attributes(exported, name, dyn, ptr, kind) ==
  [exported |-> exported, name |-> name, dyn |-> dyn, ptr |-> ptr, kind |-> kind]

Leaf(exported, dyn, ptr, kind) == Attributes(exported, <<"a">>, dyn, ptr, kind)
Section(exported, name, dyn, ptr) == Attributes(exported, <<name>>, dyn, ptr, "struct")

Sections ==
  {<<1>> :> Section(e, n, d, p) @@ <<1, 1>> :> Leaf(TRUE, t, FALSE, "int8") :
     e \in BOOLEAN, n \in {"s", "-"}, d \in {"", "live", "secret", "typo"},
     p \in BOOLEAN, t \in {"live", "typo"}}

Leaves ==
  {<<1>> :> Section(TRUE, "s", "", p) @@ <<1, 1>> :> Leaf(e, d, q, k) :
     p \in BOOLEAN, e \in BOOLEAN, q \in BOOLEAN,
     d \in {"", "live", "restart-required", "secret", "bootstrap"},
     k \in {"int", "string", "float32", "time", "[]named"}}

Second(name) ==
  <<2>> :> Attributes(TRUE, name, "recreate-on-change", FALSE, "uint8")

Deep ==
  <<1>> :> Section(TRUE, "s", "", TRUE)
    @@ <<1, 1>> :> Section(TRUE, "t", "", TRUE)
    @@ <<1, 1, 1>> :> Leaf(TRUE, "live", FALSE, "int")
    @@ <<1, 2>> :> Leaf(TRUE, "live", FALSE, "string")

MCTypes ==
  {t @@ Second(n) : t \in Sections \cup Leaves, n \in {<<"a">>, <<"s", "a">>}}
    \cup {Deep}

=============================================================================
