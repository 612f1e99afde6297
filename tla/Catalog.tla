------------------------------ MODULE Catalog ------------------------------
(***************************************************************************)
(* catalog.go: the walk over a config struct type that yields the field    *)
(* descriptors, and the parsing of a raw override for a field.             *)
(*                                                                         *)
(* A struct type is a function on paths.  A path, the sequence of indices  *)
(* that leads to a field, is mapped to the attributes of the field.  A key *)
(* is the sequence of its parts, so that joining with "." is concatenation *)
(* and a json name with a dot in it has two parts.  Integers keep their    *)
(* width, scaled down.                                                     *)
(***************************************************************************)
EXTENDS Integers, SequencesExt

CONSTANTS
  Types,       \* struct types
  Absent,      \* "no override for this key"
  RawValues,   \* raw strings
  Number,      \* the integer a raw string spells, for those that do
  Accepts,     \* raw strings that parse, per kind that is no integer
  Single,      \* the number a float32 holds of the one a raw string spells
  WordHalf,    \* half the number of values of int, int64, uint, uint64 (2^63)
  NarrowHalf   \* half the number of values of int8 and uint8 (2^7)

\* The attributes that walkStruct looks at; ptr is a pointer to the kind.
Field == [exported : BOOLEAN, name : Seq(STRING), dyn : STRING, ptr : BOOLEAN,
          kind : STRING]

IsStruct(f) == f.kind = "struct"

\* The fields of a struct are numbered from 1, and only structs have fields.
IsType(t) ==
  /\ IsFiniteSet(DOMAIN t)
  /\ DOMAIN t \subseteq Seq(Nat \ {0}) \ {<< >>}
  /\ \A p \in DOMAIN t :
       /\ t[p] \in Field
       /\ \A n \in 1..(Len(p) - 1) :
            SubSeq(p, 1, n) \in DOMAIN t /\ IsStruct(t[SubSeq(p, 1, n)])
       /\ \A i \in 1..Last(p) : Append(Front(p), i) \in DOMAIN t

ASSUME CatalogAssumption ==
  /\ \A t \in Types : IsType(t)
  /\ Absent \notin RawValues
  /\ DOMAIN Number \subseteq RawValues /\ Number \in [DOMAIN Number -> Int]
  /\ \A k \in DOMAIN Accepts : Accepts[k] \subseteq RawValues
  /\ "float32" \in DOMAIN Accepts /\ Single \in [Accepts["float32"] -> RawValues]
  /\ {NarrowHalf, WordHalf} \subseteq Nat
  /\ 1 < NarrowHalf /\ NarrowHalf < WordHalf

DynamicTags == {"live", "recreate-on-change", "restart-required"}
ValidTags   == DynamicTags \cup {"bootstrap", "secret", ""}

SignedKinds   == {"int", "int8"}
UnsignedKinds == {"uint", "uint8"}
IntKinds      == SignedKinds \cup UnsignedKinds
NarrowKinds   == {"int8", "uint8"}

\* isSupportedLeafType
Supported(kind) == kind \in IntKinds \cup DOMAIN Accepts

-----------------------------------------------------------------------------
VARIABLES
  type,      \* the struct type T
  cursor,    \* path of the next field that walkStruct looks at, << >> at the end
  prefixes,  \* parameter prefix of each active call of walkStruct
  catalog,   \* *out: the descriptors so far
  failed     \* buildCatalog has returned an error

walkVars == <<type, cursor, prefixes, catalog, failed>>

Paths     == DOMAIN type
LeafPaths == {p \in Paths : ~IsStruct(type[p])}
PtrPaths  == {p \in Paths : IsStruct(type[p]) /\ type[p].ptr}

\* An exported field whose json name is not "-".
Visible(f) == f.exported /\ f.name # <<"-">>

\* A field for which buildCatalog returns an error.
Refused(f) ==
  \/ f.dyn \notin ValidTags
  \/ ~IsStruct(f) /\ f.dyn \in DynamicTags /\ ~Supported(f.kind)

\* Seeded fault: a struct tagged secret is walked like any other.
Fault_LeftOutLeaf(f) == ~IsStruct(f) /\ f.dyn \notin DynamicTags

\* A secret subtree, or a leaf without a dynamic strategy.
LeftOut(f) ==
  IF IsStruct(f) THEN f.dyn = "secret" ELSE f.dyn \notin DynamicTags

\* Seeded fault: the prefix is lost.
Fault_KeyPart(prefix, f) == f.name

\* prefix + "." + keyPart
FullKey(prefix, f) == prefix \o f.name

Descriptor(f, path, key) ==
  [key |-> key, path |-> path, kind |-> f.kind, ptr |-> f.ptr, strategy |-> f.dyn]

-----------------------------------------------------------------------------
\* buildCatalog calls walkStruct for T itself, which is a struct: for any other
\* type it returns ErrNotStruct, and New fails before anything else happens.
WalkInit ==
  /\ type \in Types
  /\ cursor = <<1>>
  /\ prefixes = << << >> >>
  /\ catalog = << >>
  /\ failed = FALSE

\* i++
NextField(p) == Append(Front(p), Last(p) + 1)

Walks(f) == Visible(f) /\ ~Refused(f) /\ ~LeftOut(f)

\* A nested struct: the recursive call.
EnterStruct ==
  /\ cursor \in Paths
  /\ Walks(type[cursor]) /\ IsStruct(type[cursor])
  /\ cursor' = Append(cursor, 1)
  /\ prefixes' = Append(prefixes, FullKey(Last(prefixes), type[cursor]))
  /\ UNCHANGED <<type, catalog, failed>>

\* A leaf with a dynamic strategy.
CollectLeaf ==
  /\ cursor \in Paths
  /\ Walks(type[cursor]) /\ ~IsStruct(type[cursor])
  /\ catalog' = Append(catalog, Descriptor(type[cursor], cursor,
                                  FullKey(Last(prefixes), type[cursor])))
  /\ cursor' = NextField(cursor)
  /\ UNCHANGED <<type, prefixes, failed>>

\* The continue statements.
SkipField ==
  /\ cursor \in Paths
  /\ LET f == type[cursor] IN ~Visible(f) \/ (~Refused(f) /\ LeftOut(f))
  /\ cursor' = NextField(cursor)
  /\ UNCHANGED <<type, prefixes, catalog, failed>>

\* The error goes through all active calls, and New returns it.
RefuseField ==
  /\ cursor \in Paths
  /\ Visible(type[cursor]) /\ Refused(type[cursor])
  /\ failed' = TRUE
  /\ cursor' = << >>
  /\ UNCHANGED <<type, prefixes, catalog>>

\* The end of a call's loop; the caller goes on with its next field.
ReturnFromStruct ==
  /\ cursor # << >> /\ cursor \notin Paths
  /\ cursor' = IF Len(cursor) = 1 THEN << >> ELSE NextField(Front(cursor))
  /\ prefixes' = Front(prefixes)
  /\ UNCHANGED <<type, catalog, failed>>

WalkStruct ==
  EnterStruct \/ CollectLeaf \/ SkipField \/ RefuseField \/ ReturnFromStruct

Returned == cursor = << >>

\* New goes on only with a catalog.
Built == Returned /\ ~failed

\* descByKey: New enters the descriptors in order, so the last of a key stays.
DescByKey(key) ==
  LET found == {i \in 1..Len(catalog) : catalog[i].key = key}
  IN  catalog[CHOOSE i \in found : \A j \in found : j <= i]

-----------------------------------------------------------------------------
\* parseFieldValue returns a value: integers must fit in 64 bits.
Parses(raw, kind) ==
  CASE kind \in SignedKinds ->
         raw \in DOMAIN Number /\ Number[raw] \in (-WordHalf)..(WordHalf - 1)
    [] kind \in UnsignedKinds ->
         raw \in DOMAIN Number /\ Number[raw] \in 0..(2 * WordHalf - 1)
    [] OTHER -> raw \in Accepts[kind]

Half(kind) == IF kind \in NarrowKinds THEN NarrowHalf ELSE WordHalf

\* The values of an integer type.
IntType(kind) ==
  IF kind \in SignedKinds THEN (-Half(kind))..(Half(kind) - 1)
  ELSE 0..(2 * Half(kind) - 1)

\* Seeded fault: the integer keeps the width it was parsed with.
Fault_ParsedWide(raw, kind) == IF kind \in IntKinds THEN Number[raw] ELSE raw

\* Convert to the field's type keeps the low bits of an integer, and rounds
\* the float64 that was parsed to a float32, or makes it infinite.
Parsed(raw, kind) ==
  CASE kind \in SignedKinds ->
         ((Number[raw] + Half(kind)) % (2 * Half(kind))) - Half(kind)
    [] kind \in UnsignedKinds -> Number[raw] % (2 * Half(kind))
    [] kind = "float32" -> Single[raw]
    [] OTHER -> raw

-----------------------------------------------------------------------------
\* A path on which every field is visible and no struct is secret.
Exposed(p) ==
  /\ Visible(type[p])
  /\ \A n \in 1..(Len(p) - 1) :
       LET f == type[SubSeq(p, 1, n)] IN Visible(f) /\ f.dyn # "secret"

(***************************************************************************)
(* buildCatalog's promise: New fails if and only if some exposed field has *)
(* an unknown tag or a dynamic leaf an unsupported type; else the catalog  *)
(* has each exposed leaf with a dynamic tag once, and nothing secret.      *)
(***************************************************************************)
CatalogIsComplete ==
  Returned =>
    /\ failed <=> \E p \in Paths : Exposed(p) /\ Refused(type[p])
    /\ ~failed =>
         LET found == [i \in 1..Len(catalog) |-> catalog[i].path]
         IN  /\ IsInjective(found)
             /\ ToSet(found) =
                  {p \in LeafPaths : Exposed(p) /\ type[p].dyn \in DynamicTags}

Siblings(p, q) == p # q /\ Len(p) = Len(q) /\ Front(p) = Front(q)

(***************************************************************************)
(* handleChangeEvent decides by the strategy descByKey finds for the key,  *)
(* while applyOverrides changes all fields of the key.  Two fields never   *)
(* meet in one key, and each is the one found for its key, as long as      *)
(* names have no dots and the fields of a struct have different names.     *)
(***************************************************************************)
FieldIsFoundByKey ==
  (LET shown == {p \in Paths : Visible(type[p])} IN
   /\ \A p \in shown : Len(type[p].name) = 1
   /\ \A p, q \in shown : Siblings(p, q) => type[p].name # type[q].name)
  => \A i \in 1..Len(catalog) : DescByKey(catalog[i].key) = catalog[i]

=============================================================================
