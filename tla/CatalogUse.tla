----------------------------- MODULE CatalogUse -----------------------------
(***************************************************************************)
(* New builds the catalog; then refresh calls applyOverrides again and     *)
(* again on the same base, a config struct with pointers, while callers    *)
(* keep what Get returned.                                                 *)
(*                                                                         *)
(* heap holds struct values: the base (number 1), the copy of each refresh *)
(* and the structs that pointer fields point to.  An object has a value    *)
(* for every leaf path and an address, or 0 for nil, for every pointer     *)
(* path of the type; only those in the object itself are used.             *)
(***************************************************************************)
EXTENDS Catalog

CONSTANTS
  BaseText,      \* what a field that is no integer holds in base
  ZeroText,      \* its zero value
  MaxRefreshes   \* bound: number of calls of refresh

ASSUME UseAssumption == MaxRefreshes \in Nat

VARIABLES
  heap,
  listed,     \* the overrides that refresh applies or has applied last
  at,         \* next descriptor of the running applyOverrides, or 0
  work,       \* its result
  depth,      \* next index of the running navigateField, or 0
  obj,        \* the object it has come to
  current,    \* p.current, 0 before the first refresh
  installed,  \* the overrides that current was built from
  refreshes,  \* calls of refresh so far
  kept,       \* what a caller got from Get, 0 before
  seen,       \* the value of it when it got it
  panicked    \* reflect has panicked

applyVars == <<heap, at, depth, obj, panicked>>
providerVars == <<listed, work, current, installed, refreshes>>
vars == <<walkVars, applyVars, providerVars, kept, seen>>

-----------------------------------------------------------------------------
(***************************************************************************)
(* A struct whose integers are n, with the given text and pointers.  of is *)
(* history: the struct, base or copy, that it was allocated for.           *)
(***************************************************************************)
Object(n, text, ptrs, of) ==
  [leaf |-> [p \in LeafPaths |-> IF type[p].kind \in IntKinds THEN n ELSE text],
   ptr  |-> ptrs,
   of   |-> of]

ZeroObject(of) == Object(0, ZeroText, [p \in PtrPaths |-> 0], of)

Keys == {catalog[i].key : i \in 1..Len(catalog)}

\* Base has any of its pointers set, each to an object of its own.
Init ==
  /\ WalkInit
  /\ \E nils \in SUBSET PtrPaths,
        addr \in Injection(PtrPaths, 2..(Cardinality(PtrPaths) + 1)) :
       heap = [o \in 1..(Cardinality(PtrPaths) + 1) |->
                 Object(1, BaseText,
                        [p \in PtrPaths |-> IF p \in nils THEN 0 ELSE addr[p]], 1)]
  /\ listed = << >>
  /\ at = 0
  /\ work = 0
  /\ depth = 0
  /\ obj = 0
  /\ current = 0
  /\ installed = << >>
  /\ refreshes = 0
  /\ kept = 0
  /\ seen = << >>
  /\ panicked = FALSE

-----------------------------------------------------------------------------
\* buildCatalog, before New does anything else.
Walk == WalkStruct /\ UNCHANGED <<applyVars, providerVars, kept, seen>>

\* Seeded fault: the overrides are applied to a copy of the last snapshot.
Fault_CopyCurrent(ovr) ==
  /\ Built /\ ~panicked /\ at = 0 /\ refreshes < MaxRefreshes
  /\ refreshes' = refreshes + 1
  /\ listed' = ovr
  /\ heap' = Append(heap, heap[IF current = 0 THEN 1 ELSE current])
  /\ work' = Len(heap) + 1
  /\ at' = 1
  /\ UNCHANGED <<walkVars, depth, obj, panicked, current, installed, kept, seen>>

\* Seeded fault: the sections that are nil in base are allocated at once.
Fault_AllocateAll(ovr) ==
  /\ Built /\ ~panicked /\ at = 0 /\ refreshes < MaxRefreshes
  /\ refreshes' = refreshes + 1
  /\ listed' = ovr
  /\ LET n == Len(heap) + 1
         ptrs == [p \in PtrPaths |-> IF heap[1].ptr[p] = 0 THEN n + 1 ELSE heap[1].ptr[p]]
     IN  heap' = heap \o <<[heap[1] EXCEPT !.of = n, !.ptr = ptrs], ZeroObject(n)>>
  /\ work' = Len(heap) + 1
  /\ at' = 1
  /\ UNCHANGED <<walkVars, depth, obj, panicked, current, installed, kept, seen>>

\* refresh has listed ovr; applyOverrides copies base.
StartApply(ovr) ==
  /\ Built /\ ~panicked /\ at = 0 /\ refreshes < MaxRefreshes
  /\ refreshes' = refreshes + 1
  /\ listed' = ovr
  /\ heap' = Append(heap, [heap[1] EXCEPT !.of = Len(heap) + 1])
  /\ work' = Len(heap) + 1
  /\ at' = 1
  /\ UNCHANGED <<walkVars, depth, obj, panicked, current, installed, kept, seen>>

\* applyOverrides has a descriptor to handle, or is handling one.
Applying == at \in 1..Len(catalog) /\ ~panicked
Desc == catalog[at]

\* The store has an override for d, and it parses.
HasValue(ovr, d) == ovr[d.key] # Absent /\ Parses(ovr[d.key], d.kind)

\* The continue statements of applyOverrides.
SkipDescriptor ==
  /\ Applying /\ depth = 0 /\ ~HasValue(listed, Desc)
  /\ at' = at + 1
  /\ UNCHANGED <<walkVars, heap, depth, obj, panicked, providerVars, kept, seen>>

\* navigateField is called with the copy.
StartNavigate ==
  /\ Applying /\ depth = 0 /\ HasValue(listed, Desc)
  /\ depth' = 1
  /\ obj' = work
  /\ UNCHANGED <<walkVars, heap, at, panicked, providerVars, kept, seen>>

\* Seeded fault: nil pointers are followed.
Fault_FollowNil(q) ==
  /\ obj' = IF q \in PtrPaths /\ obj # 0 THEN heap[obj].ptr[q] ELSE obj
  /\ UNCHANGED heap

\* From the field q, a struct or a pointer to one, which is allocated if nil.
Follow(q) ==
  \/ /\ q \notin PtrPaths
     /\ UNCHANGED <<heap, obj>>
  \/ /\ q \in PtrPaths /\ heap[obj].ptr[q] # 0
     /\ obj' = heap[obj].ptr[q]
     /\ UNCHANGED heap
  \/ /\ q \in PtrPaths /\ heap[obj].ptr[q] = 0
     /\ obj' = Len(heap) + 1
     /\ heap' = Append([heap EXCEPT ![obj].ptr[q] = Len(heap) + 1],
                       ZeroObject(heap[obj].of))

\* One round of the loop of navigateField.
NavigateField ==
  /\ Applying /\ depth \in 1..(Len(Desc.path) - 1)
  /\ Follow(SubSeq(Desc.path, 1, depth))
  /\ depth' = depth + 1
  /\ UNCHANGED <<walkVars, at, panicked, providerVars, kept, seen>>

\* The value that was parsed cannot be assigned to the field itself.
Unassignable(d) == d.ptr \/ d.kind = "[]named"

\* field.Set(parsed), which panics on a nil struct or a type mismatch.
SetField ==
  /\ Applying /\ depth = Len(Desc.path)
  /\ IF Unassignable(Desc) \/ obj = 0
     THEN panicked' = TRUE /\ UNCHANGED <<heap, at, depth>>
     ELSE /\ heap' = [heap EXCEPT ![obj].leaf[Desc.path] =
                        Parsed(listed[Desc.key], Desc.kind)]
          /\ at' = at + 1
          /\ depth' = 0
          /\ UNCHANGED panicked
  /\ UNCHANGED <<walkVars, obj, providerVars, kept, seen>>

\* applyOverrides returns, and refresh stores the result in p.current.
FinishApply ==
  /\ at = Len(catalog) + 1
  /\ at' = 0
  /\ current' = work
  /\ installed' = listed
  /\ UNCHANGED <<walkVars, heap, depth, obj, panicked, listed, work, refreshes, kept, seen>>

-----------------------------------------------------------------------------
(***************************************************************************)
(* The object that holds p in the struct o, or 0 behind a nil pointer: the *)
(* last of the objects that the fields on the way to p lead to.            *)
(***************************************************************************)
Holder(o, p) ==
  LET way[n \in 0..(Len(p) - 1)] ==
        IF n = 0 THEN o
        ELSE IF SubSeq(p, 1, n) \in PtrPaths /\ way[n - 1] # 0
        THEN heap[way[n - 1]].ptr[SubSeq(p, 1, n)]
        ELSE way[n - 1]
  IN  way[Len(p) - 1]

\* What a reader finds in the struct o.
Value(o) ==
  [p \in {q \in LeafPaths : Holder(o, q) # 0} |-> heap[Holder(o, p)].leaf[p]]

\* Seeded fault: Get returns the struct that is being built.
Fault_GetWork ==
  /\ work # 0 /\ ~panicked /\ kept # work
  /\ kept' = work
  /\ seen' = Value(work)
  /\ UNCHANGED <<walkVars, applyVars, providerVars>>

\* A caller keeps what Get returns: a copy of the struct, with its pointers.
Get ==
  /\ current # 0 /\ ~panicked /\ kept # current
  /\ kept' = current
  /\ seen' = Value(current)
  /\ UNCHANGED <<walkVars, applyVars, providerVars>>

Next ==
  \/ Walk
  \/ \E ovr \in [Keys -> RawValues \cup {Absent}] : StartApply(ovr)
  \/ SkipDescriptor
  \/ StartNavigate
  \/ NavigateField
  \/ SetField
  \/ FinishApply
  \/ Get

Spec == Init /\ [][Next]_vars

-----------------------------------------------------------------------------
\* Every leaf holds a value of its type.
TypeOK ==
  /\ at \in 0..(Len(catalog) + 1)
  /\ {work, current, kept, obj} \subseteq 0..Len(heap)
  /\ \A o \in 1..Len(heap), p \in LeafPaths :
       IF type[p].kind \in IntKinds
       THEN heap[o].leaf[p] \in IntType(type[p].kind)
       ELSE heap[o].leaf[p] \in RawValues \cup {BaseText, ZeroText}

\* The pointers above p: their lengths as paths.
Above(p) == {n \in 1..(Len(p) - 1) : SubSeq(p, 1, n) \in PtrPaths}

\* A field of which base has no pointer above it, or a nil one outermost.
Unshared(p) ==
  \A n \in Above(p) :
    (\A m \in Above(p) : n <= m) => heap[1].ptr[SubSeq(p, 1, n)] = 0

\* The first field of the section p; the object that holds it is the section.
FieldOf(p) == Append(p, 1)

(***************************************************************************)
(* Get returns a point-in-time copy, as far as the leaf is held by value   *)
(* or behind a pointer that is nil in base: no later refresh changes it in *)
(* the struct a caller has kept.                                           *)
(***************************************************************************)
UnsharedIsPointInTime ==
  kept # 0 =>
    \A p \in LeafPaths : Unshared(p) =>
      IF p \in DOMAIN seen
      THEN p \in DOMAIN Value(kept) /\ Value(kept)[p] = seen[p]
      ELSE p \notin DOMAIN Value(kept)

\* The leaf p of a struct made of zero values.
ZeroLeaf(p) == IF type[p].kind \in IntKinds THEN 0 ELSE ZeroText

\* v is the number or text that raw spells, unless that does not fit the type.
Spells(raw, kind, v) ==
  IF kind \in IntKinds THEN Number[raw] \in IntType(kind) => v = Number[raw]
  ELSE (kind = "float32" => Single[raw] = raw) => v = raw

(***************************************************************************)
(* A snapshot has, in each leaf of the catalog, the number or the text its *)
(* override spells, if it fits the type.  Without an override, an unshared *)
(* leaf has what base has there, or the zero value in a section that was   *)
(* allocated for another override: a removed override leaves no trace.     *)
(* While the next refresh runs, this still holds for the unshared leaves.  *)
(* A restart-required leaf is looked at in the snapshot of New only.       *)
(***************************************************************************)
SnapshotSpellsOverrides ==
  current # 0 =>
    \A i \in 1..Len(catalog) :
      LET d == catalog[i]
          p == d.path
      IN
      d.strategy # "restart-required" \/ refreshes = 1 =>
      IF HasValue(installed, d)
      THEN at = 0 \/ Unshared(p) =>
             /\ p \in DOMAIN Value(current)
             /\ Spells(installed[d.key], d.kind, Value(current)[p])
      ELSE Unshared(p) /\ p \in DOMAIN Value(current) =>
             Value(current)[p] = IF Above(p) = {} THEN heap[1].leaf[p] ELSE ZeroLeaf(p)

(***************************************************************************)
(* A section that is nil in base, or lies below one that is, is nil in the *)
(* snapshot unless a valid override lies in it: a value that does not      *)
(* parse creates no section, and none outlives its overrides.  (Below a    *)
(* pointer that base has set this is not so: there navigateField allocates *)
(* in a struct that base and all snapshots share, and the section stays.)  *)
(***************************************************************************)
NilSectionStaysNil ==
  current # 0 =>
    \A p \in PtrPaths :
      Unshared(FieldOf(p)) /\ Holder(current, FieldOf(p)) # 0 =>
        \E i \in 1..Len(catalog) :
          IsPrefix(p, catalog[i].path) /\ HasValue(installed, catalog[i])

(***************************************************************************)
(* "This avoids surprises at the first store update": the only overrides   *)
(* that make applyOverrides panic are those for a pointer to a leaf or a   *)
(* slice of a named string type.  In all other fields that the catalog     *)
(* accepts, navigateField finds or makes the struct that holds the field.  *)
(***************************************************************************)
OnlyUnassignablePanics ==
  panicked => at \in 1..Len(catalog) /\ Unassignable(Desc)

(***************************************************************************)
(* restart-required: "No live reload is performed - the current process    *)
(* continues to use the old value".  What a caller has seen in such a leaf *)
(* is what a later snapshot has there.                                     *)
(***************************************************************************)
RestartRequiredIsKept ==
  kept # 0 =>
    \A i \in 1..Len(catalog) :
      LET p == catalog[i].path IN
      /\ catalog[i].strategy = "restart-required" /\ Unshared(p)
      /\ p \in DOMAIN seen \cap DOMAIN Value(current)
      => Value(current)[p] = seen[p]

(***************************************************************************)
(* Get: "the returned struct is a point-in-time copy and is not            *)
(* auto-updated".                                                          *)
(***************************************************************************)
PointInTime == kept # 0 => Value(kept) = seen

=============================================================================
