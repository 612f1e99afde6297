----------------------------- MODULE ConfigData -----------------------------
(***************************************************************************)
(* The data every part of liveconfig shares: raw overrides as a Store      *)
(* keeps them, the typed config struct a Provider serves, the reload       *)
(* strategy of each field, and the ChangeEvent that travels from a Store   *)
(* through the Provider to its subscribers.                                *)
(*                                                                         *)
(* A raw string is an element of RawValues, one of which is the empty      *)
(* string.  A field of the config struct is named by its store key.        *)
(***************************************************************************)
EXTENDS Integers, Sequences, FiniteSets

CONSTANTS
  Namespaces,   \* store namespaces
  Keys,         \* store keys, including keys no field of the struct has
  RawValues,    \* raw strings an override may hold
  Empty,        \* the empty string, an element of RawValues
  Absent,       \* "no override for this key": not a raw string
  FieldValues,  \* values a struct field may hold
  Invalid,      \* the error result of parseFieldValue: not a field value
  Base,         \* the config struct the caller passed to New
  Strategy,     \* reload strategy of each key, or "unmanaged"
  Parse         \* parseFieldValue: per key, raw string -> field value or Invalid

Live      == "live"
Recreate  == "recreate-on-change"
Restart   == "restart-required"
Unmanaged == "unmanaged"

ReloadStrategies == {Live, Recreate, Restart}

ASSUME DataAssumption ==
  /\ Empty \in RawValues
  /\ Absent \notin RawValues
  /\ Invalid \notin FieldValues
  /\ Base \in [Keys -> FieldValues]
  /\ Strategy \in [Keys -> ReloadStrategies \cup {Unmanaged}]
  /\ Parse \in [Keys -> [RawValues -> FieldValues \cup {Invalid}]]

\* The overrides of one namespace, as Store.List returns them.
Overrides == [Keys -> RawValues \cup {Absent}]

NoOverrides == [k \in Keys |-> Absent]

\* The config struct T, one value per key.
Config == [Keys -> FieldValues]

\* The nil snapshot pointer of a Provider whose first refresh is not done.
NilConfig == << >>

(***************************************************************************)
(* ChangeEvent.  "ver" is not a field of the Go struct: it is the number   *)
(* of the store state the change led to (the initial state is number 1),   *)
(* kept so that properties can relate an event to the store's states.      *)
(***************************************************************************)
ChangeEvent ==
  [ns : Namespaces, key : Keys, old : RawValues, new : RawValues, ver : Nat]

\* Seeded fault: a missing override is not turned into the empty string.
Fault_TextOf(v) == v

\* What a Go map lookup, or an event field, holds for a missing override.
TextOf(v) == IF v = Absent THEN Empty ELSE v

\* A key of the catalog: a field tagged with a dynamic strategy.
InCatalog(k) == Strategy[k] \in ReloadStrategies

-----------------------------------------------------------------------------
\* Seeded fault: a value that does not parse is installed as it comes.
Fault_ApplyAny(ovr) ==
  [k \in Keys |-> IF InCatalog(k) /\ ovr[k] # Absent
                  THEN Parse[k][ovr[k]] ELSE Base[k]]

(***************************************************************************)
(* applyOverrides: a copy of base in which every catalog field that has an *)
(* override with a parseable value takes that value.  All other fields     *)
(* keep their base value: keys outside the catalog are never looked up,    *)
(* and a parse error is logged and skipped.  T holds its fields, and the   *)
(* structs it nests, by value: the copy shares nothing with base.          *)
(***************************************************************************)
ApplyOverrides(ovr) ==
  [k \in Keys |->
     IF InCatalog(k) /\ ovr[k] # Absent /\ Parse[k][TextOf(ovr[k])] # Invalid
     THEN Parse[k][TextOf(ovr[k])]
     ELSE Base[k]]

-----------------------------------------------------------------------------
\* HistoryOptions.Normalised; the code's default limit is 50.
DefaultHistoryLimit == 50
NormalLimit(limit)   == IF limit <= 0 THEN DefaultHistoryLimit ELSE limit
NormalOffset(offset) == IF offset < 0 THEN 0 ELSE offset

=============================================================================
