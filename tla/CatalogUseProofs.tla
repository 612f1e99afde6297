--------------------------- MODULE CatalogUseProofs ---------------------------
(***************************************************************************)
(* Proofs about applyOverrides and Get: what a snapshot holds, what a      *)
(* caller keeps and which sections are created, for every set of struct    *)
(* types, every base and any number of refreshes.                          *)
(***************************************************************************)
EXTENDS CatalogProofs

\* A struct that is base or a copy of it, not the target of a pointer.
Root(x) == heap[x].of = x

LeafValue(p, v) ==
  IF type[p].kind \in IntKinds THEN v \in IntType(type[p].kind)
  ELSE v \in RawValues \cup {BaseText, ZeroText}

AnyValue == Int \cup RawValues \cup {BaseText, ZeroText}

Objects == [leaf : [LeafPaths -> AnyValue], ptr : [PtrPaths -> Nat], of : Nat]

HeapTypes ==
  /\ type \in Types
  /\ heap \in Seq(Objects) /\ Len(heap) > 0
  /\ \A x \in 1..Len(heap) :
       /\ heap[x].of \in 1..Len(heap)
       /\ \A q \in PtrPaths : heap[x].ptr[q] \in 0..Len(heap)
       /\ \A p \in LeafPaths : LeafValue(p, heap[x].leaf[p])
  /\ Root(1)

(***************************************************************************)
(* A pointer that base has set is shared by all copies; what any other     *)
(* pointer of a copy leads to has been allocated for that copy alone.      *)
(***************************************************************************)
OwnerIn(h, x, q) ==
  /\ h[x].of = x /\ h[1].ptr[q] # 0 => h[x].ptr[q] = h[1].ptr[q]
  /\ h[x].ptr[q] # 0 =>
       /\ h[h[x].ptr[q]].of # h[x].ptr[q]
       /\ h[h[x].ptr[q]].of =
            IF h[x].of # x THEN h[x].of ELSE IF h[1].ptr[q] # 0 THEN 1 ELSE x

Owners == \A x \in 1..Len(heap), q \in PtrPaths : OwnerIn(heap, x, q)

\* The copies the provider and its callers hold; the one in work is nobody's yet.
Copies ==
  /\ \A o \in {work, current, kept} : o = 0 \/ (o \in 2..Len(heap) /\ Root(o))
  /\ at \in 0..(Len(catalog) + 1) /\ depth \in Nat /\ obj \in 0..Len(heap)
  /\ at # 0 => Built /\ work # 0 /\ work # current /\ work # kept
  /\ current # 0 => Built
  /\ kept # 0 => current # 0
  /\ panicked \in BOOLEAN /\ (panicked => at \in 1..Len(catalog))

\* The objects on the way from o to p, in the heap h with the pointer paths P.
WayIn(h, P, o, p) ==
  LET way[n \in 0..(Len(p) - 1)] ==
        IF n = 0 THEN o
        ELSE IF SubSeq(p, 1, n) \in P /\ way[n - 1] # 0
        THEN h[way[n - 1]].ptr[SubSeq(p, 1, n)]
        ELSE way[n - 1]
  IN  way

\* navigateField follows the way to the field, in the copy or what it shares.
Navigation ==
  depth # 0 =>
    /\ at \in 1..Len(catalog) /\ HasValue(listed, Desc)
    /\ depth \in 1..Len(Desc.path)
    /\ obj \in 1..Len(heap) /\ (obj = work \/ ~Root(obj)) /\ heap[obj].of \in {work, 1}
    /\ obj = WayIn(heap, PtrPaths, work, Desc.path)[depth - 1]

\* The override of d, if it is valid, is in the struct o.
Spelled(o, ovr, d) ==
  HasValue(ovr, d) =>
    /\ Holder(o, d.path) # 0
    /\ Spells(ovr[d.key], d.kind, heap[Holder(o, d.path)].leaf[d.path])

\* Without one, an unshared leaf of o is as in base, or zero in a new section.
Plain(o, ovr, d) ==
  ~HasValue(ovr, d) /\ Unshared(d.path) /\ Holder(o, d.path) # 0 =>
    heap[Holder(o, d.path)].leaf[d.path] =
      IF Above(d.path) = {} THEN heap[1].leaf[d.path] ELSE ZeroLeaf(d.path)

\* A valid override of ovr lies in the section p.
Needed(p, ovr) ==
  \E i \in 1..Len(catalog) : IsPrefix(p, catalog[i].path) /\ HasValue(ovr, catalog[i])

\* The pointers of what was allocated for the copy o, and those of o that are
\* nil in base, lead to sections that are there for an override.
Sections(o, ovr) ==
  \A x \in 1..Len(heap), p \in PtrPaths :
    /\ heap[x].of = o /\ heap[x].ptr[p] # 0
    /\ x = o => heap[1].ptr[p] = 0
    => Needed(p, ovr)

\* The copy in work, up to the descriptor at.
WorkOK ==
  at # 0 =>
    /\ \A i \in 1..Len(catalog) : /\ i < at => Spelled(work, listed, catalog[i])
                                  /\ Plain(work, listed, catalog[i])
    /\ Sections(work, listed)

\* The snapshot in current; while the next one is built, as far as not shared.
CurrentOK ==
  current # 0 =>
    /\ \A i \in 1..Len(catalog) :
         /\ at = 0 \/ Unshared(catalog[i].path) => Spelled(current, installed, catalog[i])
         /\ Plain(current, installed, catalog[i])
    /\ Sections(current, installed)

UseInv ==
  HeapTypes /\ Owners /\ Copies /\ Navigation /\ WorkOK /\ CurrentOK
    /\ UnsharedIsPointInTime /\ OnlyUnassignablePanics

-----------------------------------------------------------------------------
\* w is the way from o to p.
Leads(w, h, P, o, p) ==
  /\ w[0] = o
  /\ \A n \in 1..(Len(p) - 1) :
       w[n] = IF SubSeq(p, 1, n) \in P /\ w[n - 1] # 0
              THEN h[w[n - 1]].ptr[SubSeq(p, 1, n)] ELSE w[n - 1]

\* The pointers of the N objects of h are nil or lead to one of them.
Closed(h, P, N) == \A x \in 1..N : \A q \in P : h[x].ptr[q] \in 0..N

\* The heap g has the pointers of h in the objects of X.
SamePtrs(h, g, P, X) == \A x \in X : \A q \in P : g[x].ptr[q] = h[x].ptr[q]

\* In g, nil pointers of h may lead to a new object, which has no pointers.
Grows(h, g, P, N) ==
  /\ \A x \in 1..N : \A q \in P : \/ g[x].ptr[q] = h[x].ptr[q]
                                  \/ h[x].ptr[q] = 0 /\ g[x].ptr[q] = N + 1
  /\ \A q \in P : g[N + 1].ptr[q] = 0

\* The way from o to p keeps to the objects of X.
WayWithin(h, P, o, p, X) ==
  \A n \in 0..(Len(p) - 1) : WayIn(h, P, o, p)[n] = 0 \/ WayIn(h, P, o, p)[n] \in X

SameWay(h, g, P, o, p) ==
  \A n \in 0..(Len(p) - 1) : WayIn(g, P, o, p)[n] = WayIn(h, P, o, p)[n]

\* As far as it led somewhere in h, the way is the same in g.
GrownWay(h, g, P, o, p, N) ==
  \A n \in 0..(Len(p) - 1) :
    IF WayIn(h, P, o, p)[n] # 0 THEN WayIn(g, P, o, p)[n] = WayIn(h, P, o, p)[n]
    ELSE WayIn(g, P, o, p)[n] \in {0, N + 1}

\* The outermost pointer on the way is nil in o.
NilFirst(h, P, o, p) ==
  \A n \in 1..(Len(p) - 1) :
    SubSeq(p, 1, n) \in P /\ (\A m \in 1..(n - 1) : SubSeq(p, 1, m) \notin P)
      => h[o].ptr[SubSeq(p, 1, n)] = 0

\* The way is cut by the first pointer.
CutWay(h, P, o, p) ==
  \A n \in 0..(Len(p) - 1) :
    WayIn(h, P, o, p)[n] = IF \E m \in 1..n : SubSeq(p, 1, m) \in P THEN 0 ELSE o

\* A set of indices that has 0 and the successor of each of its elements.
LEMMA Upward ==
  ASSUME NEW L \in Nat, NEW G \in SUBSET (0..L), 0 \in G,
         \A n \in 1..L : n - 1 \in G => n \in G
  PROVE  \A n \in 0..L : n \in G
<1> SUFFICES ASSUME (0..L) \ G # {} PROVE FALSE
  OBVIOUS
<1>1. (0..L) \ G \in SUBSET (0..L)
  OBVIOUS
<1>2. PICK m \in (0..L) \ G : \A z \in (0..L) \ G : m <= z
  BY <1>1, LeastIndex
<1>3. m \in 1..L /\ m - 1 \in 0..L /\ ~(m <= m - 1)
  BY <1>2
<1>4. m - 1 \in G
  BY <1>2, <1>3
<1> QED
  BY <1>2, <1>3, <1>4

\* The recursive definition of the way to a field has a solution.
LEMMA WayIs ==
  ASSUME NEW h, NEW P, NEW o, NEW p \in Path, p # << >>
  PROVE  Leads(WayIn(h, P, o, p), h, P, o, p)
<1> DEFINE L == Len(p) - 1
           To(n, x) == IF SubSeq(p, 1, n) \in P /\ x # 0
                       THEN h[x].ptr[SubSeq(p, 1, n)] ELSE x
           Fits(f, m) == f = [n \in 0..m |-> IF n = 0 THEN o ELSE To(n, f[n - 1])]
           G == {m \in 0..L : \E f : Fits(f, m)}
<1>1. L \in Nat
  BY PathFront
<1> HIDE DEF L, To
<1>2. 0 \in G
  <2> DEFINE f == [n \in 0..0 |-> o]
  <2>1. Fits(f, 0)
    OBVIOUS
  <2> HIDE DEF f, Fits
  <2> QED
    BY <1>1, <2>1
<1>3. ASSUME NEW m \in 1..L, m - 1 \in G PROVE m \in G
  <2>1. PICK f : Fits(f, m - 1)
    BY <1>3
  <2> DEFINE g == [n \in 0..m |-> IF n = m THEN To(m, f[m - 1]) ELSE f[n]]
  <2>2. f = [n \in 0..(m - 1) |-> IF n = 0 THEN o ELSE To(n, f[n - 1])]
    BY <2>1
  <2>3. ASSUME NEW n \in 0..m PROVE g[n] = IF n = 0 THEN o ELSE To(n, g[n - 1])
    <3>1. CASE n = m
      <4>1. n # 0 /\ n - 1 \in 0..m /\ n - 1 # m
        BY <1>1, <3>1
      <4>2. g[n - 1] = f[n - 1]
        BY <4>1
      <4> QED
        BY <3>1, <4>1, <4>2
    <3>2. CASE n = 0
      <4>1. n # m /\ n \in 0..(m - 1)
        BY <1>1, <3>2
      <4>2. g[n] = f[n]
        BY <4>1
      <4>3. f[n] = o
        BY <2>2, <3>2, <4>1
      <4> QED
        BY <3>2, <4>2, <4>3
    <3>3. CASE n # 0 /\ n # m
      <4>1. n \in 0..(m - 1) /\ n - 1 \in 0..m /\ n - 1 # m
        BY <1>1, <3>3
      <4>2. g[n] = f[n] /\ g[n - 1] = f[n - 1]
        BY <3>3, <4>1
      <4>3. f[n] = To(n, f[n - 1])
        BY <2>2, <3>3, <4>1
      <4> QED
        BY <3>3, <4>2, <4>3
    <3> QED
      BY <3>1, <3>2, <3>3
  <2>4. Fits(g, m)
    BY <2>3
  <2> HIDE DEF g, Fits
  <2> QED
    BY <1>1, <2>4
<1>4. L \in G
  <2>1. G \in SUBSET (0..L)
    OBVIOUS
  <2> HIDE DEF G
  <2>2. \A n \in 0..L : n \in G
    BY <1>1, <1>2, <1>3, <2>1, Upward
  <2> QED
    BY <1>1, <2>2
<1>5. PICK f : Fits(f, L)
  BY <1>4
<1> DEFINE w == WayIn(h, P, o, p)
<1> DEFINE Solves(v) == v = [n \in 0..(Len(p) - 1) |-> IF n = 0 THEN o
                        ELSE IF SubSeq(p, 1, n) \in P /\ v[n - 1] # 0
                             THEN h[v[n - 1]].ptr[SubSeq(p, 1, n)] ELSE v[n - 1]]
<1>6. w = CHOOSE v : Solves(v)
  BY DEF WayIn
<1>7. Solves(w)
  <2>1. Solves(f)
    BY <1>5 DEF L, To
  <2> HIDE DEF w, Solves
  <2> QED
    BY <1>6, <2>1, Zenon
<1> HIDE DEF w
<1>8. w[0] = o
  <2>1. 0 \in 0..(Len(p) - 1)
    BY <1>1 DEF L
  <2> QED
    BY <1>7, <2>1
<1>9. ASSUME NEW n \in 1..(Len(p) - 1)
      PROVE  w[n] = IF SubSeq(p, 1, n) \in P /\ w[n - 1] # 0
                    THEN h[w[n - 1]].ptr[SubSeq(p, 1, n)] ELSE w[n - 1]
  <2>1. n \in 0..(Len(p) - 1) /\ n # 0
    BY <1>1 DEF L
  <2> QED
    BY <1>7, <2>1, Zenon
<1>10. Leads(w, h, P, o, p)
  BY <1>8, <1>9 DEF Leads
<1> QED
  BY <1>10 DEF w

\* The way to a field stays among the objects of the heap.
LEMMA WayInHeap ==
  ASSUME NEW h, NEW P, NEW N \in Nat, NEW o \in 0..N, NEW p \in Path, p # << >>,
         Closed(h, P, N)
  PROVE  WayWithin(h, P, o, p, 1..N)
<1> DEFINE w == WayIn(h, P, o, p)
           L == Len(p) - 1
           G == {n \in 0..L : w[n] \in 0..N}
<1>1. L \in Nat
  BY PathFront
<1>2. /\ w[0] = o
      /\ \A n \in 1..L : w[n] = IF SubSeq(p, 1, n) \in P /\ w[n - 1] # 0
                                THEN h[w[n - 1]].ptr[SubSeq(p, 1, n)] ELSE w[n - 1]
  BY WayIs DEF Leads
<1> HIDE DEF w, L
<1>3. 0 \in G /\ G \in SUBSET (0..L)
  BY <1>1, <1>2
<1>4. ASSUME NEW n \in 1..L, n - 1 \in G PROVE n \in G
  <2>1. n \in 0..L /\ w[n - 1] \in 0..N
    BY <1>1, <1>4
  <2>2. CASE SubSeq(p, 1, n) \in P /\ w[n - 1] # 0
    <3>1. w[n - 1] \in 1..N
      BY <2>1, <2>2
    <3> QED
      BY <1>2, <2>1, <2>2, <3>1 DEF Closed
  <2>3. CASE ~(SubSeq(p, 1, n) \in P /\ w[n - 1] # 0)
    BY <1>2, <2>1, <2>3
  <2> QED
    BY <2>2, <2>3
<1>5. \A n \in 0..L : n \in G
  <2> HIDE DEF G
  <2> QED
    BY <1>1, <1>3, <1>4, Upward
<1>6. \A n \in 0..L : w[n] = 0 \/ w[n] \in 1..N
  BY <1>5
<1> QED
  BY <1>6 DEF WayWithin, w, L

\* If no pointer changes in the objects of a way, the way stays.
LEMMA WaySame ==
  ASSUME NEW h, NEW g, NEW P, NEW X, NEW o, NEW p \in Path, p # << >>,
         SamePtrs(h, g, P, X), WayWithin(h, P, o, p, X)
  PROVE  SameWay(h, g, P, o, p)
<1> DEFINE w == WayIn(h, P, o, p)
           v == WayIn(g, P, o, p)
           L == Len(p) - 1
           G == {n \in 0..L : v[n] = w[n]}
<1>1. L \in Nat
  BY PathFront
<1>2. /\ w[0] = o
      /\ \A n \in 1..L : w[n] = IF SubSeq(p, 1, n) \in P /\ w[n - 1] # 0
                                THEN h[w[n - 1]].ptr[SubSeq(p, 1, n)] ELSE w[n - 1]
  BY WayIs DEF Leads
<1>3. /\ v[0] = o
      /\ \A n \in 1..L : v[n] = IF SubSeq(p, 1, n) \in P /\ v[n - 1] # 0
                                THEN g[v[n - 1]].ptr[SubSeq(p, 1, n)] ELSE v[n - 1]
  BY WayIs DEF Leads
<1>4. \A n \in 0..L : w[n] = 0 \/ w[n] \in X
  BY DEF WayWithin
<1> HIDE DEF w, v, L
<1>5. 0 \in G /\ G \in SUBSET (0..L)
  BY <1>1, <1>2, <1>3
<1>6. ASSUME NEW n \in 1..L, n - 1 \in G PROVE n \in G
  <2>1. n \in 0..L /\ v[n - 1] = w[n - 1] /\ (w[n - 1] = 0 \/ w[n - 1] \in X)
    BY <1>1, <1>4, <1>6
  <2> QED
    BY <1>2, <1>3, <2>1 DEF SamePtrs
<1>7. \A n \in 0..L : n \in G
  <2> HIDE DEF G
  <2> QED
    BY <1>1, <1>5, <1>6, Upward
<1> QED
  BY <1>7 DEF SameWay, w, v, L

(***************************************************************************)
(* If only nil pointers change, and to a new object without pointers, then *)
(* a way that led somewhere still leads there, and one that met nil leads  *)
(* nowhere or to the new object.                                           *)
(***************************************************************************)
LEMMA WayGrows ==
  ASSUME NEW h, NEW g, NEW P, NEW N \in Nat, NEW o \in 1..N, NEW p \in Path, p # << >>,
         Closed(h, P, N), Grows(h, g, P, N)
  PROVE  GrownWay(h, g, P, o, p, N)
<1> DEFINE w == WayIn(h, P, o, p)
           v == WayIn(g, P, o, p)
           L == Len(p) - 1
           G == {n \in 0..L : IF w[n] # 0 THEN v[n] = w[n] ELSE v[n] \in {0, N + 1}}
<1>1. L \in Nat
  BY PathFront
<1>2. /\ w[0] = o
      /\ \A n \in 1..L : w[n] = IF SubSeq(p, 1, n) \in P /\ w[n - 1] # 0
                                THEN h[w[n - 1]].ptr[SubSeq(p, 1, n)] ELSE w[n - 1]
  BY WayIs DEF Leads
<1>3. /\ v[0] = o
      /\ \A n \in 1..L : v[n] = IF SubSeq(p, 1, n) \in P /\ v[n - 1] # 0
                                THEN g[v[n - 1]].ptr[SubSeq(p, 1, n)] ELSE v[n - 1]
  BY WayIs DEF Leads
<1>4. \A n \in 0..L : w[n] \in 0..N
  <2>1. o \in 0..N
    OBVIOUS
  <2> QED
    BY <2>1, WayInHeap DEF WayWithin
<1> HIDE DEF w, v, L
<1>5. 0 \in G /\ G \in SUBSET (0..L)
  BY <1>1, <1>2, <1>3
<1>6. ASSUME NEW n \in 1..L, n - 1 \in G PROVE n \in G
  <2> DEFINE q == SubSeq(p, 1, n)
             y == w[n - 1]
             z == v[n - 1]
  <2>1. n \in 0..L /\ n - 1 \in 0..L
    BY <1>1
  <2>2. /\ y \in 0..N /\ (IF y # 0 THEN z = y ELSE z \in {0, N + 1})
        /\ w[n] = IF q \in P /\ y # 0 THEN h[y].ptr[q] ELSE y
        /\ v[n] = IF q \in P /\ z # 0 THEN g[z].ptr[q] ELSE z
    BY <1>2, <1>3, <1>4, <1>6, <2>1
  <2> HIDE DEF q, y, z
  <2>3. CASE y # 0
    <3>1. y \in 1..N
      BY <2>2, <2>3
    <3> QED
      BY <2>1, <2>2, <2>3, <3>1 DEF Closed, Grows
  <2>4. CASE y = 0
    BY <2>1, <2>2, <2>4 DEF Grows
  <2> QED
    BY <2>3, <2>4
<1>7. \A n \in 0..L : n \in G
  <2> HIDE DEF G
  <2> QED
    BY <1>1, <1>5, <1>6, Upward
<1> QED
  BY <1>7 DEF GrownWay, w, v, L

\* Holder, in this and in the next state, is the end of the way.
LEMMA HolderIs ==
  \A o, p : /\ Holder(o, p) = WayIn(heap, PtrPaths, o, p)[Len(p) - 1]
            /\ Holder(o, p)' = WayIn(heap', PtrPaths', o, p)[Len(p) - 1]
BY DEF Holder, WayIn

\* In a struct whose outermost pointer on the way is nil, the way ends there.
LEMMA WayToNil ==
  ASSUME NEW h, NEW P, NEW o, NEW p \in Path, p # << >>, NilFirst(h, P, o, p)
  PROVE  CutWay(h, P, o, p)
<1> DEFINE w == WayIn(h, P, o, p)
           L == Len(p) - 1
           B(n) == \E m \in 1..n : SubSeq(p, 1, m) \in P
           G == {n \in 0..L : w[n] = IF B(n) THEN 0 ELSE o}
<1>1. L \in Nat
  BY PathFront
<1>2. /\ w[0] = o
      /\ \A n \in 1..L : w[n] = IF SubSeq(p, 1, n) \in P /\ w[n - 1] # 0
                                THEN h[w[n - 1]].ptr[SubSeq(p, 1, n)] ELSE w[n - 1]
  BY WayIs DEF Leads
<1> HIDE DEF w, L
<1>3. 0 \in G /\ G \in SUBSET (0..L)
  <2>1. ~B(0)
    OBVIOUS
  <2> HIDE DEF B
  <2> QED
    BY <1>1, <1>2, <2>1
<1>4. ASSUME NEW n \in 1..L, n - 1 \in G PROVE n \in G
  <2>1. n \in 0..L /\ w[n - 1] = IF B(n - 1) THEN 0 ELSE o
    BY <1>1, <1>4
  <2>2. B(n) <=> B(n - 1) \/ SubSeq(p, 1, n) \in P
    BY <1>1
  <2>3. ASSUME SubSeq(p, 1, n) \in P, ~B(n - 1) PROVE h[o].ptr[SubSeq(p, 1, n)] = 0
    BY <2>3 DEF L, NilFirst
  <2> HIDE DEF B
  <2>4. w[n] = IF B(n) THEN 0 ELSE o
    BY <1>2, <2>1, <2>2, <2>3
  <2> QED
    BY <2>1, <2>4
<1>5. \A n \in 0..L : n \in G
  <2> HIDE DEF G
  <2> QED
    BY <1>1, <1>3, <1>4, Upward
<1> QED
  BY <1>5 DEF CutWay, w, L

\* The way to an unshared field of a copy stays in what was allocated for it, and
\* the pointer that it follows from the copy itself is nil in base.
LEMMA OwnWay ==
  ASSUME HeapTypes, Owners, NEW o \in 1..Len(heap), Root(o),
         NEW p \in Path, p # << >>, Unshared(p)
  PROVE  /\ WayWithin(heap, PtrPaths, o, p, {x \in 1..Len(heap) : heap[x].of = o})
         /\ \A n \in 1..(Len(p) - 1) :
              /\ SubSeq(p, 1, n) \in PtrPaths
              /\ WayIn(heap, PtrPaths, o, p)[n - 1] = o
              => heap[1].ptr[SubSeq(p, 1, n)] = 0
<1> DEFINE w == WayIn(heap, PtrPaths, o, p)
           L == Len(p) - 1
           B(n) == \E m \in 1..n : SubSeq(p, 1, m) \in PtrPaths
           G == {n \in 0..L : /\ w[n] # 0 => w[n] \in 1..Len(heap) /\ heap[w[n]].of = o
                              /\ ~B(n) => w[n] = o
                              /\ B(n) /\ w[n] # 0 => ~Root(w[n])}
<1>1. L \in Nat
  BY PathFront
<1>2. /\ w[0] = o
      /\ \A n \in 1..L : w[n] = IF SubSeq(p, 1, n) \in PtrPaths /\ w[n - 1] # 0
                                THEN heap[w[n - 1]].ptr[SubSeq(p, 1, n)] ELSE w[n - 1]
  <2>1. Leads(w, heap, PtrPaths, o, p)
    BY <1>1, WayIs
  <2> HIDE DEF B, G, w
  <2> QED
    BY <2>1 DEF Leads
<1>3. ASSUME NEW n \in 1..L, SubSeq(p, 1, n) \in PtrPaths, ~B(n - 1)
      PROVE  heap[1].ptr[SubSeq(p, 1, n)] = 0
  <2>1. n \in Above(p) /\ \A m \in Above(p) : n <= m
    BY <1>1, <1>3 DEF Above
  <2> QED
    BY <2>1 DEF Unshared
<1> HIDE DEF w
<1>4. 0 \in G /\ G \in SUBSET (0..L)
  <2>1. ~B(0)
    OBVIOUS
  <2> HIDE DEF B, L
  <2> QED
    BY <1>1, <1>2, <2>1 DEF Root
<1>5. ASSUME NEW n \in 1..L, n - 1 \in G PROVE n \in G
  <2> DEFINE q == SubSeq(p, 1, n)
             x == w[n - 1]
  <2>1. /\ n \in 0..L /\ (x # 0 => x \in 1..Len(heap) /\ heap[x].of = o)
        /\ (~B(n - 1) => x = o) /\ (B(n - 1) /\ x # 0 => ~Root(x))
        /\ w[n] = IF q \in PtrPaths /\ x # 0 THEN heap[x].ptr[q] ELSE x
    BY <1>1, <1>2, <1>5
  <2>2. B(n) <=> B(n - 1) \/ q \in PtrPaths
    BY <1>1
  <2>3. q \in PtrPaths /\ ~B(n - 1) => heap[1].ptr[q] = 0
    BY <1>3
  <2> HIDE DEF B, q, x, L
  <2>4. CASE q \notin PtrPaths \/ x = 0
    BY <2>1, <2>2, <2>4
  <2>5. CASE q \in PtrPaths /\ x # 0
    <3> DEFINE t == heap[x].ptr[q]
    <3>1. w[n] = t /\ B(n)
      BY <2>1, <2>2, <2>5
    <3>2. t # 0 => t \in 1..Len(heap)
      BY <2>1, <2>5 DEF HeapTypes
    <3>3. t # 0 => /\ ~Root(t)
                   /\ heap[t].of = IF ~Root(x) THEN heap[x].of
                                   ELSE IF heap[1].ptr[q] # 0 THEN 1 ELSE x
      BY <2>1, <2>5 DEF Owners, OwnerIn, Root
    <3>4. t # 0 => heap[t].of = o
      BY <2>1, <2>3, <2>5, <3>3
    <3> QED
      BY <2>1, <3>1, <3>2, <3>3, <3>4
  <2> QED
    BY <2>4, <2>5
<1>6. \A n \in 0..L : n \in G
  <2> HIDE DEF G, L
  <2> QED
    BY <1>1, <1>4, <1>5, Upward
<1>7. ASSUME NEW n \in 1..L, SubSeq(p, 1, n) \in PtrPaths, w[n - 1] = o
      PROVE  heap[1].ptr[SubSeq(p, 1, n)] = 0
  <2>1. n - 1 \in 0..L /\ o # 0
    BY <1>1
  <2>2. B(n - 1) /\ w[n - 1] # 0 => ~Root(w[n - 1])
    BY <1>6, <2>1
  <2> HIDE DEF B
  <2>3. ~B(n - 1)
    BY <1>7, <2>1, <2>2
  <2> QED
    BY <1>3, <1>7, <2>3
<1> QED
  BY <1>6, <1>7 DEF WayWithin, w

\* An unshared leaf of a copy does not change unless the copy's objects do.
LEMMA Frozen ==
  ASSUME HeapTypes, Owners, type' = type, NEW o \in 1..Len(heap), Root(o),
         NEW p \in LeafPaths, Unshared(p),
         \A x \in 1..Len(heap) : heap[x].of = o => heap'[x] = heap[x]
  PROVE  /\ Holder(o, p)' = Holder(o, p)
         /\ Holder(o, p) # 0 => heap'[Holder(o, p)] = heap[Holder(o, p)]
<1> DEFINE X == {x \in 1..Len(heap) : heap[x].of = o}
           w == WayIn(heap, PtrPaths, o, p)
<1>1. p \in Path /\ p # << >> /\ Len(p) - 1 \in 0..(Len(p) - 1)
  BY TypeFacts, PathFront DEF HeapTypes, LeafPaths
<1>2. WayWithin(heap, PtrPaths, o, p, X)
  BY <1>1, OwnWay
<1>3. \A x \in X : heap'[x] = heap[x]
  OBVIOUS
<1> HIDE DEF X
<1>4. SameWay(heap, heap', PtrPaths, o, p)
  <2>1. SamePtrs(heap, heap', PtrPaths, X)
    BY <1>3 DEF SamePtrs
  <2> QED
    BY <1>1, <1>2, <2>1, WaySame
<1>5. Holder(o, p) = w[Len(p) - 1] /\ Holder(o, p)' = w[Len(p) - 1]
  BY <1>1, <1>4, HolderIs, SameType DEF SameWay
<1> QED
  BY <1>1, <1>2, <1>3, <1>5 DEF WayWithin

-----------------------------------------------------------------------------
\* The objects of the heap, and the paths that they are functions on.
LEMMA HeapFacts ==
  ASSUME HeapTypes
  PROVE  /\ Len(heap) \in Nat \ {0}
         /\ \A x \in 1..Len(heap) : /\ heap[x] \in Objects
                                    /\ heap[x].leaf \in [LeafPaths -> AnyValue]
                                    /\ heap[x].ptr \in [PtrPaths -> Nat] /\ heap[x].of \in Nat
         /\ Closed(heap, PtrPaths, Len(heap))
<1>1. heap \in Seq(Objects) /\ Len(heap) > 0
  BY DEF HeapTypes
<1>2. Len(heap) \in Nat \ {0} /\ \A x \in 1..Len(heap) : heap[x] \in Objects
  BY <1>1, SeqParts
<1>3. Closed(heap, PtrPaths, Len(heap))
  BY DEF HeapTypes, Closed
<1> QED
  BY <1>2, <1>3 DEF Objects

\* StartApply: base is copied.
LEMMA CopyHeap ==
  ASSUME HeapTypes, heap' = Append(heap, [heap[1] EXCEPT !.of = Len(heap) + 1])
  PROVE  /\ heap' \in Seq(Objects) /\ Len(heap') = Len(heap) + 1
         /\ \A x \in 1..Len(heap) : heap'[x] = heap[x]
         /\ heap'[Len(heap) + 1].leaf = heap[1].leaf
         /\ heap'[Len(heap) + 1].ptr = heap[1].ptr
         /\ heap'[Len(heap) + 1].of = Len(heap) + 1
<1> DEFINE c == [heap[1] EXCEPT !.of = Len(heap) + 1]
<1>1. heap[1] \in Objects /\ Len(heap) \in Nat \ {0}
  BY HeapFacts
<1>2. c \in Objects /\ c.leaf = heap[1].leaf /\ c.ptr = heap[1].ptr /\ c.of = Len(heap) + 1
  BY <1>1 DEF Objects
<1>3. heap \in Seq(Objects) /\ heap' = Append(heap, c)
  BY DEF HeapTypes
<1> HIDE DEF c
<1>4. /\ heap' \in Seq(Objects) /\ Len(heap') = Len(heap) + 1
      /\ \A x \in 1..Len(heap) : heap'[x] = heap[x]
      /\ heap'[Len(heap) + 1] = c
  BY <1>2, <1>3, SeqParts
<1> QED
  BY <1>2, <1>4

\* A section is allocated for the nil pointer q of obj.
LEMMA AllocHeap ==
  ASSUME HeapTypes, obj \in 1..Len(heap), NEW q \in PtrPaths,
         heap' = Append([heap EXCEPT ![obj].ptr[q] = Len(heap) + 1],
                        ZeroObject(heap[obj].of))
  PROVE  /\ heap' \in Seq(Objects) /\ Len(heap') = Len(heap) + 1
         /\ \A x \in 1..Len(heap) : /\ heap'[x].leaf = heap[x].leaf
                                    /\ heap'[x].of = heap[x].of
                                    /\ x # obj => heap'[x] = heap[x]
         /\ \A x \in 1..Len(heap), r \in PtrPaths :
              heap'[x].ptr[r] = IF x = obj /\ r = q THEN Len(heap) + 1 ELSE heap[x].ptr[r]
         /\ heap'[Len(heap) + 1].of = heap[obj].of
         /\ \A r \in PtrPaths : heap'[Len(heap) + 1].ptr[r] = 0
         /\ \A p \in LeafPaths : heap'[Len(heap) + 1].leaf[p] = ZeroLeaf(p)
<1> DEFINE h == [heap EXCEPT ![obj].ptr[q] = Len(heap) + 1]
           z == ZeroObject(heap[obj].of)
           N == Len(heap)
<1>1. /\ N \in Nat \ {0} /\ heap \in Seq(Objects)
      /\ \A x \in 1..N : heap[x] \in Objects
      /\ heap = [x \in 1..N |-> heap[x]]
  <2>1. heap \in Seq(Objects)
    BY DEF HeapTypes
  <2> QED
    BY <2>1, HeapFacts
<1>2. /\ z \in Objects /\ z.of = heap[obj].of /\ (\A r \in PtrPaths : z.ptr[r] = 0)
      /\ \A p \in LeafPaths : z.leaf[p] = ZeroLeaf(p)
  <2>1. heap[obj].of \in Nat
    BY HeapFacts
  <2> QED
    BY <2>1 DEF ZeroObject, Object, Objects, ZeroLeaf, AnyValue
<1>3. ASSUME NEW x \in 1..N
      PROVE  /\ h[x] \in Objects /\ h[x].leaf = heap[x].leaf /\ h[x].of = heap[x].of
             /\ x # obj => h[x] = heap[x]
             /\ \A r \in PtrPaths :
                  h[x].ptr[r] = IF x = obj /\ r = q THEN N + 1 ELSE heap[x].ptr[r]
  <2>1. CASE x # obj
    BY <1>1, <2>1
  <2>2. CASE x = obj
    <3>1. h[x] = [heap[x] EXCEPT !.ptr[q] = N + 1]
      BY <1>1, <2>2
    <3>2. heap[x] \in Objects /\ N + 1 \in Nat
      BY <1>1
    <3> HIDE DEF h, N
    <3>3. heap[x].ptr \in [PtrPaths -> Nat]
      BY <3>2 DEF Objects
    <3> DEFINE f == [heap[x].ptr EXCEPT ![q] = N + 1]
    <3>4. f \in [PtrPaths -> Nat] /\ \A r \in PtrPaths :
            f[r] = IF r = q THEN N + 1 ELSE heap[x].ptr[r]
      BY <3>2, <3>3
    <3>5. h[x] = [heap[x] EXCEPT !.ptr = f]
      BY <3>1
    <3> HIDE DEF f
    <3>6. h[x] \in Objects /\ h[x].leaf = heap[x].leaf /\ h[x].of = heap[x].of /\ h[x].ptr = f
      BY <3>2, <3>4, <3>5 DEF Objects
    <3> QED
      BY <2>2, <3>4, <3>6
  <2> QED
    BY <2>1, <2>2
<1>4. h \in Seq(Objects) /\ Len(h) = N
  <2>1. h = [x \in 1..N |-> h[x]]
    BY <1>1
  <2> HIDE DEF h
  <2>2. h \in [1..N -> Objects]
    BY <1>3, <2>1
  <2> QED
    BY <1>1, <2>2
<1> HIDE DEF h, z
<1>5. /\ heap' \in Seq(Objects) /\ Len(heap') = N + 1
      /\ \A x \in 1..N : heap'[x] = h[x]
      /\ heap'[N + 1] = z
  <2>1. heap' = Append(h, z)
    BY DEF h, z
  <2>2. /\ Append(h, z) \in Seq(Objects) /\ Len(Append(h, z)) = Len(h) + 1
        /\ \A x \in 1..Len(h) : Append(h, z)[x] = h[x]
        /\ Append(h, z)[Len(h) + 1] = z
    BY <1>2, <1>4, SeqParts
  <2> QED
    BY <1>4, <2>1, <2>2
<1>6. ASSUME NEW x \in 1..N
      PROVE  /\ heap'[x].leaf = heap[x].leaf /\ heap'[x].of = heap[x].of
             /\ x # obj => heap'[x] = heap[x]
             /\ \A r \in PtrPaths :
                  heap'[x].ptr[r] = IF x = obj /\ r = q THEN N + 1 ELSE heap[x].ptr[r]
  <2>1. heap'[x] = h[x]
    BY <1>5
  <2>2. /\ h[x].leaf = heap[x].leaf /\ h[x].of = heap[x].of /\ (x # obj => h[x] = heap[x])
        /\ \A r \in PtrPaths :
             h[x].ptr[r] = IF x = obj /\ r = q THEN N + 1 ELSE heap[x].ptr[r]
    BY <1>3
  <2> QED
    BY <2>1, <2>2, Zenon
<1> QED
  BY <1>2, <1>5, <1>6

\* A leaf of obj is set.
LEMMA SetHeap ==
  ASSUME HeapTypes, obj \in 1..Len(heap), NEW p \in LeafPaths, NEW v \in AnyValue,
         heap' = [heap EXCEPT ![obj].leaf[p] = v]
  PROVE  /\ heap' \in Seq(Objects) /\ Len(heap') = Len(heap)
         /\ \A x \in 1..Len(heap) : /\ heap'[x].ptr = heap[x].ptr
                                    /\ heap'[x].of = heap[x].of
                                    /\ x # obj => heap'[x] = heap[x]
         /\ \A x \in 1..Len(heap), r \in LeafPaths :
              heap'[x].leaf[r] = IF x = obj /\ r = p THEN v ELSE heap[x].leaf[r]
<1> DEFINE h == [heap EXCEPT ![obj].leaf[p] = v]
           N == Len(heap)
<1>1. /\ N \in Nat \ {0} /\ heap \in Seq(Objects)
      /\ \A x \in 1..N : heap[x] \in Objects
      /\ heap = [x \in 1..N |-> heap[x]]
  <2>1. heap \in Seq(Objects)
    BY DEF HeapTypes
  <2> QED
    BY <2>1, HeapFacts
<1>2. ASSUME NEW x \in 1..N
      PROVE  /\ h[x] \in Objects /\ h[x].ptr = heap[x].ptr /\ h[x].of = heap[x].of
             /\ x # obj => h[x] = heap[x]
             /\ \A r \in LeafPaths :
                  h[x].leaf[r] = IF x = obj /\ r = p THEN v ELSE heap[x].leaf[r]
  <2>1. CASE x # obj
    BY <1>1, <2>1
  <2>2. CASE x = obj
    <3>1. h[x] = [heap[x] EXCEPT !.leaf[p] = v]
      BY <1>1, <2>2
    <3>2. heap[x] \in Objects
      BY <1>1
    <3> HIDE DEF h, N
    <3>3. heap[x].leaf \in [LeafPaths -> AnyValue]
      BY <3>2 DEF Objects
    <3> DEFINE f == [heap[x].leaf EXCEPT ![p] = v]
    <3>4. f \in [LeafPaths -> AnyValue] /\ \A r \in LeafPaths :
            f[r] = IF r = p THEN v ELSE heap[x].leaf[r]
      BY <3>3
    <3>5. h[x] = [heap[x] EXCEPT !.leaf = f]
      BY <3>1
    <3> HIDE DEF f
    <3>6. h[x] \in Objects /\ h[x].ptr = heap[x].ptr /\ h[x].of = heap[x].of /\ h[x].leaf = f
      BY <3>2, <3>4, <3>5 DEF Objects
    <3> QED
      BY <2>2, <3>4, <3>6
  <2> QED
    BY <2>1, <2>2
<1>3. h \in Seq(Objects) /\ Len(h) = N
  <2>1. h = [x \in 1..N |-> h[x]]
    BY <1>1
  <2> HIDE DEF h
  <2>2. h \in [1..N -> Objects]
    BY <1>2, <2>1
  <2> QED
    BY <1>1, <2>2
<1> HIDE DEF N
<1> QED
  BY <1>2, <1>3 DEF N

-----------------------------------------------------------------------------
\* As long as base does not change, the same leaves are unshared.
LEMMA SameBase ==
  ASSUME type' = type, heap'[1] = heap[1]
  PROVE  \A p : /\ Unshared(p)' <=> Unshared(p)
                /\ Above(p)' = Above(p) /\ ZeroLeaf(p)' = ZeroLeaf(p)
<1>1. PtrPaths' = PtrPaths
  BY SameType
<1>2. \A p : Above(p)' = Above(p)
  BY <1>1 DEF Above
<1>3. \A p : Unshared(p)' <=> Unshared(p)
  BY <1>2 DEF Unshared
<1> QED
  BY <1>2, <1>3 DEF ZeroLeaf

\* Nothing that is said of the heap changes if the heap does not.
LEMMA SameHeap ==
  ASSUME type' = type, heap' = heap
  PROVE  /\ \A o, p : Holder(o, p)' = Holder(o, p)
         /\ \A o, ovr, d : /\ Spelled(o, ovr, d)' <=> Spelled(o, ovr, d)
                           /\ Plain(o, ovr, d)' <=> Plain(o, ovr, d)
         /\ \A x : Root(x)' <=> Root(x)
         /\ HeapTypes => HeapTypes'
         /\ Owners => Owners'
<1>1. Paths' = Paths /\ LeafPaths' = LeafPaths /\ PtrPaths' = PtrPaths
  BY SameType
<1>2. \A o, p : Holder(o, p)' = Holder(o, p)
  BY <1>1, HolderIs
<1>3. \A o, ovr, d : Spelled(o, ovr, d)' <=> Spelled(o, ovr, d)
  BY <1>2 DEF Spelled
<1>4. \A o, ovr, d : Plain(o, ovr, d)' <=> Plain(o, ovr, d)
  BY <1>2, SameBase DEF Plain
<1>5. HeapTypes => HeapTypes'
  BY <1>1 DEF HeapTypes, Objects, LeafValue, Root
<1>6. (\A x : Root(x)' <=> Root(x)) /\ (Owners => Owners')
  BY <1>1 DEF Owners, OwnerIn, Root
<1> QED
  BY <1>2, <1>3, <1>4, <1>5, <1>6

\* An override stays spelled where it is.
LEMMA SpelledStays ==
  ASSUME type' = type, NEW o, NEW ovr, NEW d, Spelled(o, ovr, d),
         Holder(o, d.path) # 0 =>
           /\ Holder(o, d.path)' = Holder(o, d.path)
           /\ heap'[Holder(o, d.path)].leaf[d.path] = heap[Holder(o, d.path)].leaf[d.path]
  PROVE  Spelled(o, ovr, d)'
BY DEF Spelled

\* A leaf without an override stays as in base, or zero.
LEMMA PlainStays ==
  ASSUME type' = type, heap'[1] = heap[1], NEW o, NEW ovr, NEW d, Plain(o, ovr, d),
         Unshared(d.path) /\ Holder(o, d.path)' # 0 =>
           /\ Holder(o, d.path)' = Holder(o, d.path)
           /\ heap'[Holder(o, d.path)].leaf[d.path] = heap[Holder(o, d.path)].leaf[d.path]
  PROVE  Plain(o, ovr, d)'
BY SameBase DEF Plain

(***************************************************************************)
(* A step that leaves the objects of the held copies alone leaves what is  *)
(* said of the snapshot and of the copy a caller keeps.                    *)
(***************************************************************************)
LEMMA HeldStays ==
  ASSUME WalkInv, HeapTypes, Owners, Copies, CurrentOK, UnsharedIsPointInTime,
         type' = type, catalog' = catalog, heap'[1] = heap[1], at' # 0,
         current' = current, installed' = installed, kept' = kept, seen' = seen,
         \A x \in 1..Len(heap) : heap[x].of \in {current, kept} => heap'[x] = heap[x],
         \A x \in 1..Len(heap') : heap'[x].of = current =>
                                   x \in 1..Len(heap) /\ heap[x].of = current
  PROVE  CurrentOK' /\ UnsharedIsPointInTime'
<1>1. Paths' = Paths /\ LeafPaths' = LeafPaths /\ PtrPaths' = PtrPaths
  BY SameType
<1>2. ASSUME NEW o, o \in {current, kept}, o # 0, NEW p \in LeafPaths, Unshared(p)
      PROVE  /\ Holder(o, p)' = Holder(o, p)
             /\ Holder(o, p) # 0 => heap'[Holder(o, p)] = heap[Holder(o, p)]
  <2>1. o \in 1..Len(heap) /\ Root(o)
    BY <1>2 DEF Copies
  <2> QED
    BY <1>2, <2>1, Frozen
<1>3. \A i \in 1..Len(catalog) : catalog[i].path \in LeafPaths
  BY DEF WalkInv, CollectedOK, Describes, Listed
<1>4. CurrentOK'
  <2> SUFFICES ASSUME current # 0 PROVE CurrentOK'
    BY DEF CurrentOK
  <2>1. PICK o : o = current
    OBVIOUS
  <2>2. PICK ovr : ovr = installed
    OBVIOUS
  <2>3. ASSUME NEW i \in 1..Len(catalog)
        PROVE  /\ Unshared(catalog[i].path) => Spelled(current, installed, catalog[i])'
               /\ Plain(current, installed, catalog[i])'
    <3>1. PICK d : d = catalog[i]
      OBVIOUS
    <3>2. (Unshared(d.path) => Spelled(o, ovr, d)) /\ Plain(o, ovr, d) /\ d.path \in LeafPaths
      BY <1>3, <2>1, <2>2, <3>1 DEF CurrentOK
    <3>3. Unshared(d.path) => Spelled(o, ovr, d)'
      BY <1>2, <2>1, <3>2, SpelledStays
    <3>4. Plain(o, ovr, d)'
      BY <1>2, <2>1, <3>2, PlainStays
    <3> QED
      BY <2>1, <2>2, <3>1, <3>3, <3>4
  <2>4. Sections(current, installed)'
    <3> SUFFICES ASSUME NEW x \in 1..Len(heap'), NEW p \in PtrPaths, heap'[x].of = current,
                        heap'[x].ptr[p] # 0, x = current => heap[1].ptr[p] = 0
                 PROVE  Needed(p, installed)
      BY <1>1 DEF Sections, Needed
    <3>1. x \in 1..Len(heap) /\ heap[x].of = current /\ heap'[x] = heap[x]
      OBVIOUS
    <3> QED
      BY <3>1 DEF CurrentOK, Sections
  <2> QED
    BY <2>3, <2>4, SameBase DEF CurrentOK
<1>5. UnsharedIsPointInTime'
  <2> SUFFICES ASSUME kept # 0, NEW p \in LeafPaths, Unshared(p)
               PROVE  IF p \in DOMAIN seen
                      THEN p \in DOMAIN Value(kept)' /\ Value(kept)'[p] = seen[p]
                      ELSE p \notin DOMAIN Value(kept)'
    BY <1>1, SameBase DEF UnsharedIsPointInTime
  <2>1. PICK o : o = kept
    OBVIOUS
  <2>2. /\ Holder(o, p)' = Holder(o, p)
        /\ Holder(o, p) # 0 => heap'[Holder(o, p)] = heap[Holder(o, p)]
    BY <1>2, <2>1
  <2>3. IF p \in DOMAIN seen
        THEN p \in DOMAIN Value(o) /\ Value(o)[p] = seen[p]
        ELSE p \notin DOMAIN Value(o)
    BY <2>1 DEF UnsharedIsPointInTime
  <2>4. /\ p \in DOMAIN Value(o) <=> Holder(o, p) # 0
        /\ Holder(o, p) # 0 => Value(o)[p] = heap[Holder(o, p)].leaf[p]
    BY DEF Value
  <2>5. /\ p \in DOMAIN Value(kept)' <=> Holder(o, p)' # 0
        /\ Holder(o, p)' # 0 => Value(kept)'[p] = heap'[Holder(o, p)'].leaf[p]
    BY <1>1, <2>1 DEF Value
  <2> QED
    BY <2>2, <2>3, <2>4, <2>5
<1> QED
  BY <1>4, <1>5

-----------------------------------------------------------------------------
\* Base, as New is given it.
LEMMA UseInitOK ==
  ASSUME Init PROVE UseInv
<1> DEFINE N == Cardinality(PtrPaths)
<1>1. type \in Types
  BY DEF Init, WalkInit
<1>2. N \in Nat
  <2>1. IsFiniteSet(DOMAIN type)
    BY <1>1, CatalogAssumption DEF IsType
  <2>2. PtrPaths \subseteq DOMAIN type
    BY DEF PtrPaths, Paths
  <2> QED
    BY <2>1, <2>2, FS_Subset, FS_CardinalityType
<1>3. PICK nils \in SUBSET PtrPaths, addr \in Injection(PtrPaths, 2..(N + 1)) :
        heap = [o \in 1..(N + 1) |->
                  Object(1, BaseText, [p \in PtrPaths |-> IF p \in nils THEN 0 ELSE addr[p]], 1)]
  BY DEF Init
<1> HIDE DEF N
<1> DEFINE ptrs == [p \in PtrPaths |-> IF p \in nils THEN 0 ELSE addr[p]]
           ob == Object(1, BaseText, ptrs, 1)
<1>4. \A q \in PtrPaths : ptrs[q] \in 0..(N + 1) /\ ptrs[q] # 1
  <2>1. addr \in [PtrPaths -> 2..(N + 1)]
    BY DEF Injection
  <2> QED
    BY <1>2, <2>1
<1>5. /\ ob \in Objects /\ ob.of = 1 /\ ob.ptr = ptrs
      /\ \A p \in LeafPaths : ob.leaf[p] = IF type[p].kind \in IntKinds THEN 1 ELSE BaseText
  <2>1. ptrs \in [PtrPaths -> Nat]
    BY <1>2, <1>4
  <2> HIDE DEF ptrs
  <2> QED
    BY <2>1 DEF Object, Objects, AnyValue
<1>6. /\ heap \in Seq(Objects) /\ Len(heap) = N + 1
      /\ \A x \in 1..Len(heap) : heap[x] = ob
  <2>1. heap = [o \in 1..(N + 1) |-> ob]
    BY <1>3
  <2> HIDE DEF ob
  <2>2. heap \in [1..(N + 1) -> Objects] /\ N + 1 \in Nat
    BY <1>2, <1>5, <2>1
  <2>3. heap \in Seq(Objects) /\ Len(heap) = N + 1
    BY <2>2
  <2> QED
    BY <2>1, <2>3
<1> HIDE DEF ob, ptrs
<1>7. HeapTypes
  <2>1. ASSUME NEW p \in LeafPaths PROVE LeafValue(p, ob.leaf[p])
    <3>1. Half(type[p].kind) \in Nat /\ 1 < Half(type[p].kind)
      BY CatalogAssumption DEF Half
    <3>2. 1 \in IntType(type[p].kind)
      BY <3>1 DEF IntType
    <3> QED
      BY <1>5, <3>2 DEF LeafValue
  <2> QED
    BY <1>1, <1>2, <1>4, <1>5, <1>6, <2>1 DEF HeapTypes, Root
<1>8. Owners
  <2>1. \A x \in 1..Len(heap) : heap[x].of = 1 /\ heap[x].ptr = ptrs
    BY <1>5, <1>6
  <2>2. 1 \in 1..Len(heap) /\ \A q \in PtrPaths : ptrs[q] # 0 => ptrs[q] \in 2..Len(heap)
    BY <1>2, <1>4, <1>6
  <2> SUFFICES ASSUME NEW x \in 1..Len(heap), NEW q \in PtrPaths
               PROVE  /\ heap[x].ptr[q] = heap[1].ptr[q]
                      /\ heap[x].ptr[q] # 0 =>
                           /\ ~Root(heap[x].ptr[q])
                           /\ heap[heap[x].ptr[q]].of = 1
                      /\ heap[x].of = 1 /\ (Root(x) => x = 1)
    BY DEF Owners, OwnerIn, Root
  <2>3. heap[x].ptr[q] = ptrs[q] /\ heap[1].ptr[q] = ptrs[q]
    BY <2>1, <2>2
  <2>4. ASSUME ptrs[q] # 0 PROVE heap[ptrs[q]].of = 1 /\ ptrs[q] # 1
    <3>1. ptrs[q] \in 1..Len(heap)
      BY <2>2, <2>4
    <3> QED
      BY <1>4, <2>1, <3>1
  <2> QED
    BY <2>1, <2>3, <2>4 DEF Root
<1>9. /\ at = 0 /\ work = 0 /\ depth = 0 /\ obj = 0 /\ current = 0 /\ kept = 0
      /\ panicked = FALSE /\ Len(catalog) = 0
  BY DEF Init, WalkInit
<1>10. Copies
  <2>1. obj \in 0..Len(heap) /\ at \in 0..(Len(catalog) + 1) /\ depth \in Nat
    BY <1>2, <1>6, <1>9
  <2> QED
    BY <1>9, <2>1 DEF Copies
<1> QED
  BY <1>7, <1>8, <1>9, <1>10
  DEF UseInv, Navigation, WorkOK, CurrentOK, UnsharedIsPointInTime, OnlyUnassignablePanics

\* A step of walkStruct comes before the first refresh.
LEMMA WalkUse ==
  ASSUME WalkInv, UseInv, Walk PROVE UseInv'
<1>1. /\ type' = type /\ heap' = heap /\ at' = at /\ depth' = depth /\ obj' = obj
      /\ panicked' = panicked /\ work' = work /\ current' = current /\ kept' = kept
  BY DEF Walk, WalkStruct, EnterStruct, CollectLeaf, SkipField, RefuseField,
         ReturnFromStruct, applyVars, providerVars
<1>2. cursor # << >>
  BY TypeFacts DEF Walk, WalkStruct, EnterStruct, CollectLeaf, SkipField, RefuseField,
         ReturnFromStruct, WalkInv, WalkTypes
<1>3. ~Built
  BY <1>2 DEF Built, Returned
<1>4. at = 0 /\ current = 0 /\ kept = 0 /\ depth = 0 /\ panicked = FALSE
  <2>1. at = 0 /\ current = 0 /\ kept = 0
    BY <1>3 DEF UseInv, Copies
  <2> QED
    BY <2>1 DEF UseInv, Copies, Navigation
<1>5. HeapTypes' /\ Owners' /\ \A x : Root(x)' <=> Root(x)
  BY <1>1, SameHeap DEF UseInv
<1>6. Len(catalog') \in Nat
  <2>1. catalog \in Seq(Descriptors)
    BY DEF WalkInv, WalkTypes
  <2>2. WalkInv'
    BY EnterKeeps, CollectKeeps, SkipKeeps, RefuseKeeps, ReturnKeeps DEF Walk, WalkStruct
  <2> QED
    BY <2>2 DEF WalkInv, WalkTypes
<1>7. Copies'
  <2>1. work' = 0 \/ (work' \in 2..Len(heap') /\ Root(work)')
    BY <1>1, <1>5 DEF UseInv, Copies
  <2> QED
    BY <1>1, <1>4, <1>6, <2>1 DEF UseInv, Copies
<1> QED
  BY <1>1, <1>4, <1>5, <1>7
  DEF UseInv, Navigation, WorkOK, CurrentOK, UnsharedIsPointInTime, OnlyUnassignablePanics

\* What the steps that leave the heap, the catalog and the held copies alone keep.
LEMMA HeldRests ==
  ASSUME UseInv, type' = type, catalog' = catalog, heap' = heap, (at' = 0 => at = 0),
         current' = current, installed' = installed
  PROVE  /\ CurrentOK'
         /\ kept' = kept /\ seen' = seen => UnsharedIsPointInTime'
<1>1. Paths' = Paths /\ LeafPaths' = LeafPaths /\ PtrPaths' = PtrPaths
  BY SameType
<1>2. CurrentOK'
  <2> SUFFICES ASSUME current # 0 PROVE CurrentOK'
    BY DEF CurrentOK
  <2>1. ASSUME NEW i \in 1..Len(catalog)
        PROVE  /\ at' = 0 \/ Unshared(catalog[i].path)' => Spelled(current, installed, catalog[i])'
               /\ Plain(current, installed, catalog[i])'
    <3>1. PICK d, o, ovr : d = catalog[i] /\ o = current /\ ovr = installed
      OBVIOUS
    <3>2. (at = 0 \/ Unshared(d.path) => Spelled(o, ovr, d)) /\ Plain(o, ovr, d)
      BY <3>1 DEF UseInv, CurrentOK
    <3>3. (at' = 0 \/ Unshared(d.path)' => Spelled(o, ovr, d)') /\ Plain(o, ovr, d)'
      BY <3>2, SameHeap, SameBase
    <3> QED
      BY <3>1, <3>3
  <2>2. Sections(current, installed)'
    BY <1>1 DEF UseInv, CurrentOK, Sections, Needed
  <2> QED
    BY <2>1, <2>2 DEF CurrentOK
<1>3. ASSUME kept' = kept, seen' = seen PROVE UnsharedIsPointInTime'
  <2>1. PICK o : o = kept
    OBVIOUS
  <2>2. Value(kept)' = Value(kept)
    BY <1>1, <1>3, SameHeap DEF Value
  <2> QED
    BY <1>1, <1>3, <2>2, SameBase DEF UseInv, UnsharedIsPointInTime
<1> QED
  BY <1>2, <1>3

\* What the steps that do not change the copy in work keep of it.
LEMMA WorkRests ==
  ASSUME UseInv, type' = type, catalog' = catalog, heap' = heap, work' = work, listed' = listed,
         at # 0, at' = at \/ (at' = at + 1 /\ at \in 1..Len(catalog) /\ ~HasValue(listed, Desc))
  PROVE  WorkOK'
<1>1. Paths' = Paths /\ LeafPaths' = LeafPaths /\ PtrPaths' = PtrPaths
  BY SameType
<1>2. ASSUME NEW i \in 1..Len(catalog)
      PROVE  /\ i < at' => Spelled(work, listed, catalog[i])'
             /\ Plain(work, listed, catalog[i])'
  <2>1. PICK d, o, ovr : d = catalog[i] /\ o = work /\ ovr = listed
    OBVIOUS
  <2>2. (i < at => Spelled(o, ovr, d)) /\ Plain(o, ovr, d)
    BY <2>1 DEF UseInv, WorkOK
  <2>3. i < at' => Spelled(o, ovr, d)
    <3>1. CASE i < at
      BY <2>2, <3>1
    <3>2. CASE ~(i < at) /\ i < at'
      <4>1. i = at /\ ~HasValue(listed, Desc)
        BY <3>2 DEF UseInv, Copies
      <4> QED
        BY <2>1, <4>1 DEF Desc, Spelled
    <3> QED
      BY <3>1, <3>2
  <2>4. (i < at' => Spelled(o, ovr, d)') /\ Plain(o, ovr, d)'
    BY <2>2, <2>3, SameHeap
  <2> QED
    BY <2>1, <2>4
<1>3. Sections(work, listed)'
  BY <1>1 DEF UseInv, WorkOK, Sections, Needed
<1> QED
  BY <1>2, <1>3 DEF WorkOK

\* The descriptor that is handled, and the field it describes.
LEMMA DescFacts ==
  ASSUME WalkInv, at \in 1..Len(catalog)
  PROVE  /\ Desc.path \in LeafPaths /\ Desc.path \in Path /\ Desc.path # << >>
         /\ Len(Desc.path) \in Nat \ {0} /\ Desc.kind = type[Desc.path].kind
<1>1. Describes(Desc)
  BY DEF WalkInv, CollectedOK, Desc
<1>2. Desc.path \in LeafPaths /\ Desc.kind = type[Desc.path].kind
  BY <1>1 DEF Describes, Listed
<1>3. Desc.path \in Path /\ Desc.path # << >>
  BY <1>2, TypeFacts DEF LeafPaths, WalkInv, WalkTypes
<1> QED
  BY <1>2, <1>3, PathFront

\* SkipDescriptor and StartNavigate change only the place that applyOverrides is at.
LEMMA SkipUse ==
  ASSUME WalkInv, UseInv, SkipDescriptor PROVE UseInv'
<1>1. /\ type' = type /\ catalog' = catalog /\ cursor' = cursor /\ failed' = failed
      /\ heap' = heap /\ at' = at + 1 /\ depth' = depth /\ obj' = obj /\ depth = 0
      /\ panicked' = panicked /\ work' = work /\ current' = current /\ kept' = kept
      /\ seen' = seen /\ listed' = listed /\ installed' = installed
      /\ at \in 1..Len(catalog) /\ ~panicked /\ ~HasValue(listed, Desc)
  BY DEF SkipDescriptor, Applying, walkVars, providerVars
<1>2. Len(catalog) \in Nat
  BY DEF WalkInv, WalkTypes
<1>3. HeapTypes' /\ Owners' /\ \A x : Root(x)' <=> Root(x)
  BY <1>1, SameHeap DEF UseInv
<1>4. Copies'
  <2>1. ASSUME NEW o \in {work, current, kept} PROVE o = 0 \/ (o \in 2..Len(heap') /\ Root(o)')
    BY <1>1, <1>3 DEF UseInv, Copies
  <2>2. at' \in 0..(Len(catalog) + 1) /\ at' # 0
    BY <1>1, <1>2
  <2> QED
    BY <1>1, <1>2, <2>1, <2>2 DEF UseInv, Copies, Built, Returned
<1>5. CurrentOK' /\ UnsharedIsPointInTime' /\ WorkOK'
  BY <1>1, <1>2, HeldRests, WorkRests
<1> QED
  BY <1>1, <1>3, <1>4, <1>5 DEF UseInv, Navigation, OnlyUnassignablePanics

\* StartNavigate: the way to the field starts at the copy.
LEMMA StartNavigateUse ==
  ASSUME WalkInv, UseInv, StartNavigate PROVE UseInv'
<1>1. /\ type' = type /\ catalog' = catalog /\ cursor' = cursor /\ failed' = failed
      /\ heap' = heap /\ at' = at /\ depth' = 1 /\ obj' = work
      /\ panicked' = panicked /\ work' = work /\ current' = current /\ kept' = kept
      /\ seen' = seen /\ listed' = listed /\ installed' = installed
      /\ at \in 1..Len(catalog) /\ ~panicked /\ HasValue(listed, Desc)
  BY DEF StartNavigate, Applying, walkVars, providerVars
<1>2. Len(catalog) \in Nat /\ at # 0
  BY <1>1 DEF WalkInv, WalkTypes
<1>3. HeapTypes' /\ Owners' /\ \A x : Root(x)' <=> Root(x)
  BY <1>1, SameHeap DEF UseInv
<1>4. work \in 2..Len(heap) /\ Root(work) /\ Len(heap) \in Nat
  BY <1>2, HeapFacts DEF UseInv, Copies
<1>5. Copies'
  <2>1. ASSUME NEW o \in {work, current, kept} PROVE o = 0 \/ (o \in 2..Len(heap') /\ Root(o)')
    BY <1>1, <1>3 DEF UseInv, Copies
  <2> QED
    BY <1>1, <1>4, <2>1 DEF UseInv, Copies, Built, Returned
<1>6. CurrentOK' /\ UnsharedIsPointInTime' /\ WorkOK'
  BY <1>1, <1>2, HeldRests, WorkRests
<1>7. Navigation'
  <2>1. Desc' = Desc /\ PtrPaths' = PtrPaths
    BY <1>1, SameType DEF Desc
  <2>2. Desc.path \in Path /\ Desc.path # << >> /\ Len(Desc.path) \in Nat \ {0}
    BY <1>1, DescFacts
  <2>3. WayIn(heap, PtrPaths, work, Desc.path)[0] = work
    BY <2>2, WayIs DEF Leads
  <2>4. obj' \in 1..Len(heap) /\ heap[obj'].of = work /\ depth' - 1 = 0
    BY <1>1, <1>4 DEF Root
  <2>5. depth' \in 1..Len(Desc.path)
    BY <1>1, <2>2
  <2> QED
    BY <1>1, <2>1, <2>3, <2>4, <2>5 DEF Navigation
<1> QED
  BY <1>1, <1>3, <1>5, <1>6, <1>7 DEF UseInv, OnlyUnassignablePanics

\* FinishApply: the copy in work, complete now, becomes the snapshot.
LEMMA FinishUse ==
  ASSUME WalkInv, UseInv, FinishApply PROVE UseInv'
<1>1. /\ type' = type /\ catalog' = catalog /\ cursor' = cursor /\ failed' = failed
      /\ heap' = heap /\ at' = 0 /\ depth' = depth /\ obj' = obj
      /\ panicked' = panicked /\ work' = work /\ current' = work /\ kept' = kept
      /\ seen' = seen /\ listed' = listed /\ installed' = listed
      /\ at = Len(catalog) + 1
  BY DEF FinishApply, walkVars
<1>2. Len(catalog) \in Nat /\ at # 0 /\ at \notin 1..Len(catalog) /\ depth = 0 /\ ~panicked
  BY <1>1 DEF WalkInv, WalkTypes, UseInv, Copies, Navigation
<1>3. /\ HeapTypes' /\ Owners' /\ (\A x : Root(x)' <=> Root(x))
      /\ LeafPaths' = LeafPaths /\ PtrPaths' = PtrPaths
  BY <1>1, SameHeap, SameType DEF UseInv
<1>4. Copies'
  <2>1. ASSUME NEW o \in {work, kept} PROVE o = 0 \/ (o \in 2..Len(heap') /\ Root(o)')
    BY <1>1, <1>3 DEF UseInv, Copies
  <2> QED
    BY <1>1, <1>2, <2>1 DEF UseInv, Copies, Built, Returned
<1>5. UnsharedIsPointInTime'
  <2>1. Value(kept)' = Value(kept)
    BY <1>1, <1>3, SameHeap DEF Value
  <2> QED
    BY <1>1, <1>3, <2>1, SameBase DEF UseInv, UnsharedIsPointInTime
<1>6. CurrentOK'
  <2>1. ASSUME NEW i \in 1..Len(catalog)
        PROVE  Spelled(current, installed, catalog[i])' /\ Plain(current, installed, catalog[i])'
    <3>1. PICK d, o, ovr : d = catalog[i] /\ o = work /\ ovr = listed
      OBVIOUS
    <3>2. i < at
      BY <1>1, <1>2
    <3>3. Spelled(o, ovr, d) /\ Plain(o, ovr, d)
      BY <1>2, <3>1, <3>2 DEF UseInv, WorkOK
    <3>4. Spelled(o, ovr, d)' /\ Plain(o, ovr, d)'
      BY <1>1, <3>3, SameHeap
    <3> QED
      BY <1>1, <3>1, <3>4
  <2>2. Sections(current, installed)'
    BY <1>1, <1>2, <1>3 DEF UseInv, WorkOK, Sections, Needed
  <2> QED
    BY <1>1, <2>1, <2>2 DEF CurrentOK
<1> QED
  BY <1>1, <1>2, <1>3, <1>4, <1>5, <1>6
  DEF UseInv, Navigation, WorkOK, OnlyUnassignablePanics

\* Get: the caller keeps what it has seen.
LEMMA GetUse ==
  ASSUME WalkInv, UseInv, Get PROVE UseInv'
<1>1. /\ type' = type /\ catalog' = catalog /\ cursor' = cursor /\ failed' = failed
      /\ heap' = heap /\ at' = at /\ depth' = depth /\ obj' = obj
      /\ panicked' = panicked /\ work' = work /\ current' = current /\ kept' = current
      /\ seen' = Value(current) /\ listed' = listed /\ installed' = installed
      /\ current # 0 /\ ~panicked
  BY DEF Get, walkVars, applyVars, providerVars
<1>2. /\ HeapTypes' /\ Owners' /\ (\A x : Root(x)' <=> Root(x))
      /\ LeafPaths' = LeafPaths /\ PtrPaths' = PtrPaths
  BY <1>1, SameHeap, SameType DEF UseInv
<1>3. Copies'
  <2>1. ASSUME NEW o \in {work, current} PROVE o = 0 \/ (o \in 2..Len(heap') /\ Root(o)')
    BY <1>1, <1>2 DEF UseInv, Copies
  <2> QED
    BY <1>1, <2>1 DEF UseInv, Copies, Built, Returned
<1>4. CurrentOK' /\ (at # 0 => WorkOK')
  BY <1>1, HeldRests, WorkRests
<1>5. WorkOK'
  BY <1>1, <1>4 DEF WorkOK
<1>6. UnsharedIsPointInTime'
  <2>1. Value(kept)' = Value(current)
    BY <1>1, <1>2, SameHeap DEF Value
  <2> QED
    BY <1>1, <2>1 DEF UnsharedIsPointInTime
<1>7. Navigation'
  BY <1>1, <1>2 DEF UseInv, Navigation, Desc, Root
<1> QED
  BY <1>1, <1>2, <1>3, <1>4, <1>5, <1>6, <1>7 DEF UseInv, OnlyUnassignablePanics

\* An unshared leaf has a nil pointer first on its way, in a struct with base's pointers.
LEMMA UnsharedIsNilFirst ==
  ASSUME NEW p \in Path, p # << >>, Unshared(p), NEW h, NEW o, h[o].ptr = heap[1].ptr
  PROVE  NilFirst(h, PtrPaths, o, p)
<1>1. Len(p) \in Nat \ {0}
  BY PathFront
<1> SUFFICES ASSUME NEW n \in 1..(Len(p) - 1), SubSeq(p, 1, n) \in PtrPaths,
                    \A m \in 1..(n - 1) : SubSeq(p, 1, m) \notin PtrPaths
             PROVE  heap[1].ptr[SubSeq(p, 1, n)] = 0
  BY DEF NilFirst
<1>2. n \in Above(p) /\ \A m \in Above(p) : n <= m
  BY <1>1 DEF Above
<1> QED
  BY <1>2 DEF Unshared

\* StartApply: a copy of base has none of the overrides and no section of its own.
LEMMA StartApplyUse ==
  ASSUME WalkInv, UseInv, NEW ovr, StartApply(ovr) PROVE UseInv'
<1>0. PICK N : N = Len(heap)
  OBVIOUS
<1>1. /\ type' = type /\ catalog' = catalog /\ cursor' = cursor /\ failed' = failed
      /\ at = 0 /\ at' = 1 /\ depth' = depth /\ obj' = obj
      /\ panicked' = panicked /\ work' = N + 1 /\ current' = current /\ kept' = kept
      /\ seen' = seen /\ listed' = ovr /\ installed' = installed /\ Built /\ ~panicked
      /\ heap' = Append(heap, [heap[1] EXCEPT !.of = N + 1])
  BY <1>0 DEF StartApply, walkVars
<1>2. Len(catalog) \in Nat /\ depth = 0 /\ HeapTypes /\ Owners /\ Copies
  BY <1>1 DEF WalkInv, WalkTypes, UseInv, Copies, Navigation
<1>3. N \in Nat \ {0} /\ 1 \in 1..N
  BY <1>0, <1>2, HeapFacts
<1>4. /\ heap' \in Seq(Objects) /\ Len(heap') = N + 1
      /\ (\A x \in 1..N : heap'[x] = heap[x])
      /\ heap'[N + 1].leaf = heap[1].leaf
      /\ heap'[N + 1].ptr = heap[1].ptr
      /\ heap'[N + 1].of = N + 1
  BY <1>0, <1>1, <1>2, CopyHeap
<1>5. LeafPaths' = LeafPaths /\ PtrPaths' = PtrPaths /\ Objects' = Objects
  BY <1>1, SameType DEF Objects
<1>6. ASSUME NEW x \in 1..Len(heap') PROVE x \in 1..N \/ x = N + 1
  BY <1>3, <1>4
<1>7. HeapTypes'
  <2>1. ASSUME NEW x \in 1..Len(heap')
        PROVE  /\ heap'[x].of \in 1..Len(heap')
               /\ \A q \in PtrPaths : heap'[x].ptr[q] \in 0..Len(heap')
               /\ \A p \in LeafPaths : LeafValue(p, heap'[x].leaf[p])
    <3>1. PICK y \in 1..N : heap'[x].ptr = heap[y].ptr /\ heap'[x].leaf = heap[y].leaf
      BY <1>3, <1>4, <1>6
    <3>2. /\ \A q \in PtrPaths : heap[y].ptr[q] \in 0..N
          /\ \A p \in LeafPaths : LeafValue(p, heap[y].leaf[p])
      BY <1>0, <1>2 DEF HeapTypes
    <3>3. heap'[x].of \in 1..(N + 1)
      <4>1. \A z \in 1..N : heap[z].of \in 1..N
        BY <1>0, <1>2 DEF HeapTypes
      <4> QED
        BY <1>3, <1>4, <1>6, <4>1
    <3> QED
      BY <1>3, <1>4, <3>1, <3>2, <3>3
  <2>2. \A p, v : LeafValue(p, v)' <=> LeafValue(p, v)
    BY <1>1 DEF LeafValue
  <2>3. Root(1)'
    BY <1>2, <1>3, <1>4 DEF HeapTypes, Root
  <2>4. type' \in Types /\ Len(heap') > 0
    BY <1>1, <1>2, <1>3, <1>4 DEF HeapTypes
  <2> QED
    BY <1>4, <1>5, <2>1, <2>2, <2>3, <2>4 DEF HeapTypes
<1>8. (\A x \in 1..N : Root(x)' <=> Root(x)) /\ Root(N + 1)'
  BY <1>4 DEF Root
<1>9. Owners'
  <2> SUFFICES ASSUME NEW x \in 1..Len(heap'), NEW q \in PtrPaths
               PROVE  OwnerIn(heap', x, q)
    BY <1>5 DEF Owners, OwnerIn, Root
  <2>1. heap'[1] = heap[1] /\ Root(1)
    BY <1>2, <1>3, <1>4 DEF HeapTypes
  <2>2. \A y \in 1..N : heap[y].ptr[q] \in 0..N
    BY <1>0, <1>2 DEF HeapTypes
  <2>3. CASE x \in 1..N
    <3>1. PICK t : t = heap[x].ptr[q]
      OBVIOUS
    <3>2. /\ Root(x) /\ heap[1].ptr[q] # 0 => t = heap[1].ptr[q]
          /\ t # 0 => /\ ~Root(t)
                      /\ heap[t].of = IF ~Root(x) THEN heap[x].of
                                      ELSE IF heap[1].ptr[q] # 0 THEN 1 ELSE x
      BY <1>0, <1>2, <2>3, <3>1 DEF Owners, OwnerIn, Root
    <3>3. /\ heap'[x] = heap[x] /\ (Root(x)' <=> Root(x))
          /\ t # 0 => t \in 1..N /\ heap'[t] = heap[t] /\ (Root(t)' <=> Root(t))
      BY <1>3, <1>4, <1>8, <2>2, <2>3, <3>1
    <3> QED
      BY <2>1, <3>1, <3>2, <3>3 DEF OwnerIn, Root
  <2>4. CASE x = N + 1
    <3>1. PICK t : t = heap[1].ptr[q]
      OBVIOUS
    <3>2. t # 0 => ~Root(t) /\ heap[t].of = 1
      BY <1>0, <1>2, <1>3, <2>1, <3>1 DEF Owners, OwnerIn, Root
    <3>3. /\ heap'[x].ptr[q] = t /\ heap'[1].ptr[q] = t /\ Root(x)'
          /\ t # 0 => t \in 1..N /\ heap'[t] = heap[t] /\ (Root(t)' <=> Root(t))
      BY <1>3, <1>4, <1>8, <2>1, <2>2, <2>4, <3>1
    <3> QED
      BY <3>2, <3>3 DEF OwnerIn, Root
  <2> QED
    BY <1>6, <2>3, <2>4
<1>10. Copies'
  <2>1. ASSUME NEW o \in {current, kept} PROVE o = 0 \/ (o \in 2..N /\ Root(o)')
    BY <1>0, <1>2, <1>8 DEF Copies
  <2>2. \A o \in {work', current', kept'} : o = 0 \/ (o \in 2..Len(heap') /\ Root(o)')
    BY <1>1, <1>3, <1>4, <1>8, <2>1
  <2>3. work' # 0 /\ work' # current' /\ work' # kept'
    BY <1>1, <1>3, <2>1
  <2>4. obj' \in 0..Len(heap') /\ at' \in 0..(Len(catalog') + 1)
    BY <1>0, <1>1, <1>2, <1>3, <1>4 DEF Copies
  <2> QED
    BY <1>1, <1>2, <2>2, <2>3, <2>4 DEF Copies, Built, Returned
<1>11. CurrentOK' /\ UnsharedIsPointInTime'
  <2>1. \A x \in 1..Len(heap) : heap'[x] = heap[x]
    BY <1>0, <1>4
  <2>2. ASSUME NEW x \in 1..Len(heap'), heap'[x].of = current
        PROVE  x \in 1..Len(heap) /\ heap[x].of = current
    <3>1. current # N + 1
      BY <1>0, <1>2, <1>3 DEF Copies
    <3> QED
      BY <1>0, <1>4, <1>6, <2>2, <3>1
  <2> QED
    BY <1>0, <1>1, <1>2, <1>3, <2>1, <2>2, HeldStays DEF UseInv
<1>12. WorkOK'
  <2>1. ASSUME NEW i \in 1..Len(catalog) PROVE Plain(work, listed, catalog[i])'
    <3>1. PICK d, o : d = catalog[i] /\ o = N + 1
      OBVIOUS
    <3>2. d.path \in LeafPaths /\ d.path \in Path /\ d.path # << >> /\ Len(d.path) \in Nat \ {0}
      <4>1. d.path \in LeafPaths
        BY <3>1 DEF WalkInv, CollectedOK, Describes, Listed
      <4> QED
        BY <1>2, <4>1, TypeFacts, PathFront DEF LeafPaths, HeapTypes
    <3>3. heap'[1] = heap[1]
      BY <1>3, <1>4
    <3>4. ASSUME Unshared(d.path), Holder(o, d.path)' # 0
          PROVE  Above(d.path) = {} /\ heap'[Holder(o, d.path)'].leaf = heap[1].leaf
      <4>1. heap'[o].ptr = heap[1].ptr
        BY <1>4, <3>1
      <4>2. CutWay(heap', PtrPaths, o, d.path)
        BY <3>2, <3>4, <4>1, UnsharedIsNilFirst, WayToNil
      <4>3. Len(d.path) - 1 \in 0..(Len(d.path) - 1)
        BY <3>2
      <4>4. Holder(o, d.path)' = IF Above(d.path) # {} THEN 0 ELSE o
        BY <1>5, <4>2, <4>3, HolderIs DEF CutWay, Above
      <4> QED
        BY <1>4, <3>1, <3>4, <4>4
    <3>5. Plain(o, ovr, d)'
      BY <1>1, <3>3, <3>4, SameBase DEF Plain
    <3> QED
      BY <1>1, <3>1, <3>5
  <2>2. Sections(work, listed)'
    <3> SUFFICES ASSUME NEW x \in 1..Len(heap'), NEW p \in PtrPaths, heap'[x].of = N + 1,
                        heap'[x].ptr[p] # 0, x = N + 1 => heap'[1].ptr[p] = 0
                 PROVE  FALSE
      BY <1>1, <1>5 DEF Sections
    <3>1. \A y \in 1..N : heap'[y].of # N + 1
      <4>1. \A y \in 1..N : heap[y].of \in 1..N
        BY <1>0, <1>2 DEF HeapTypes
      <4> QED
        BY <1>3, <1>4, <4>1
    <3>2. x = N + 1
      BY <1>6, <3>1
    <3>3. heap'[1].ptr = heap[1].ptr /\ heap'[x].ptr = heap[1].ptr
      BY <1>3, <1>4, <3>2
    <3> QED
      BY <3>2, <3>3
  <2>3. ASSUME NEW i \in 1..Len(catalog) PROVE ~(i < at')
    BY <1>1, <1>2
  <2> QED
    BY <1>1, <2>1, <2>2, <2>3 DEF WorkOK
<1> QED
  BY <1>1, <1>2, <1>7, <1>9, <1>10, <1>11, <1>12 DEF UseInv, Navigation, OnlyUnassignablePanics

\* What navigateField knows of the object it has come to.
LEMMA NavigationFacts ==
  ASSUME WalkInv, UseInv, depth # 0
  PROVE  /\ at \in 1..Len(catalog) /\ HasValue(listed, Desc) /\ depth \in 1..Len(Desc.path)
         /\ Len(heap) \in Nat \ {0} /\ work \in 2..Len(heap) /\ heap[work].of = work
         /\ obj \in 1..Len(heap) /\ obj # 1 /\ heap[obj].of \in {work, 1}
         /\ (obj = work \/ heap[obj].of # obj)
         /\ obj = WayIn(heap, PtrPaths, work, Desc.path)[depth - 1]
         /\ \A x \in 1..Len(heap) : heap[x].of \in {current, kept} => x # obj
<1>1. HeapTypes /\ Copies /\ Navigation
  BY DEF UseInv
<1>2. Len(heap) \in Nat \ {0} /\ heap[1].of = 1
  BY <1>1, HeapFacts DEF HeapTypes, Root
<1>3. at # 0 /\ at \in 1..Len(catalog)
  BY <1>1 DEF Navigation
<1>4. work \in 2..Len(heap) /\ heap[work].of = work /\ work # current /\ work # kept
  BY <1>1, <1>3 DEF Copies, Root
<1>5. current # 1 /\ kept # 1
  BY <1>1, <1>2 DEF Copies
<1>6. /\ HasValue(listed, Desc) /\ depth \in 1..Len(Desc.path)
      /\ obj \in 1..Len(heap) /\ heap[obj].of \in {work, 1}
      /\ (obj = work \/ heap[obj].of # obj)
      /\ obj = WayIn(heap, PtrPaths, work, Desc.path)[depth - 1]
  BY <1>1 DEF Navigation, Root
<1>7. obj # 1
  BY <1>2, <1>4, <1>6
<1> QED
  BY <1>2, <1>3, <1>4, <1>5, <1>6, <1>7

\* NavigateField without an allocation: the next object on the way.
LEMMA FollowUse ==
  ASSUME WalkInv, UseInv, NavigateField, heap' = heap PROVE UseInv'
<1> DEFINE q == SubSeq(Desc.path, 1, depth)
           w == WayIn(heap, PtrPaths, work, Desc.path)
<1>1. /\ type' = type /\ catalog' = catalog /\ cursor' = cursor /\ failed' = failed
      /\ at' = at /\ depth' = depth + 1 /\ depth \in 1..(Len(Desc.path) - 1)
      /\ panicked' = panicked /\ ~panicked /\ work' = work /\ current' = current /\ kept' = kept
      /\ seen' = seen /\ listed' = listed /\ installed' = installed /\ Follow(q)
  BY DEF NavigateField, Applying, walkVars, providerVars
<1>2. /\ at \in 1..Len(catalog) /\ HasValue(listed, Desc) /\ Len(heap) \in Nat \ {0}
      /\ work \in 2..Len(heap) /\ heap[work].of = work
      /\ obj \in 1..Len(heap) /\ obj # 1 /\ heap[obj].of \in {work, 1}
      /\ (obj = work \/ heap[obj].of # obj) /\ obj = w[depth - 1]
  <2>1. depth # 0
    BY <1>1
  <2> QED
    BY <2>1, NavigationFacts
<1>3. /\ HeapTypes' /\ Owners' /\ (\A x : Root(x)' <=> Root(x))
      /\ PtrPaths' = PtrPaths /\ Desc' = Desc /\ HeapTypes /\ Owners
  BY <1>1, SameHeap, SameType DEF UseInv, Desc
<1>4. Desc.path \in Path /\ Desc.path # << >> /\ Len(Desc.path) \in Nat \ {0}
  BY <1>2, DescFacts
<1>5. w[depth] = IF q \in PtrPaths /\ obj # 0 THEN heap[obj].ptr[q] ELSE obj
  <2>1. Leads(w, heap, PtrPaths, work, Desc.path)
    BY <1>4, WayIs
  <2> HIDE DEF w
  <2> QED
    BY <1>1, <1>2, <2>1 DEF Leads
<1> HIDE DEF q, w
<1>6. /\ obj' = w[depth]
      /\ \/ obj' = obj
         \/ q \in PtrPaths /\ obj' = heap[obj].ptr[q] /\ obj' # 0
  <2>1. Len(heap') # Len(heap) + 1
    BY <1>2
  <2>2. CASE q \in PtrPaths /\ heap[obj].ptr[q] = 0
    <3>1. heap' = Append([heap EXCEPT ![obj].ptr[q] = Len(heap) + 1], ZeroObject(heap[obj].of))
      BY <1>1, <2>2 DEF Follow
    <3>2. Len(heap') = Len(heap) + 1
      BY <1>2, <1>3, <2>2, <3>1, AllocHeap
    <3> QED
      BY <2>1, <3>2
  <2> QED
    BY <1>1, <1>2, <1>5, <2>2 DEF Follow
<1>7. /\ obj' \in 1..Len(heap) /\ heap[obj'].of \in {work, 1}
      /\ obj' = work \/ heap[obj'].of # obj'
  <2>1. CASE obj' = obj
    BY <1>2, <2>1
  <2>2. CASE q \in PtrPaths /\ obj' = heap[obj].ptr[q] /\ obj' # 0
    <3>1. OwnerIn(heap, obj, q) /\ heap[obj].ptr[q] \in 0..Len(heap)
      BY <1>2, <1>3, <2>2 DEF Owners, HeapTypes
    <3>2. /\ heap[obj'].of # obj'
          /\ heap[obj'].of = IF heap[obj].of # obj THEN heap[obj].of
                             ELSE IF heap[1].ptr[q] # 0 THEN 1 ELSE obj
      BY <2>2, <3>1 DEF OwnerIn
    <3> QED
      BY <1>2, <2>2, <3>1, <3>2
  <2> QED
    BY <1>6, <2>1, <2>2
<1>8. Navigation'
  <2>1. depth' - 1 = depth /\ depth' \in 1..Len(Desc.path)
    BY <1>1, <1>4
  <2> QED
    BY <1>1, <1>2, <1>3, <1>6, <1>7, <2>1 DEF Navigation, Root, w
<1>9. Copies'
  <2>1. ASSUME NEW o \in {work, current, kept} PROVE o = 0 \/ (o \in 2..Len(heap') /\ Root(o)')
    BY <1>3 DEF UseInv, Copies
  <2>2. obj' \in 0..Len(heap') /\ depth' \in Nat
    BY <1>1, <1>2, <1>7
  <2> QED
    BY <1>1, <2>1, <2>2 DEF UseInv, Copies, Built, Returned
<1>10. CurrentOK' /\ UnsharedIsPointInTime' /\ WorkOK'
  <2>1. at # 0
    BY <1>2
  <2> QED
    BY <1>1, <2>1, HeldRests, WorkRests
<1> QED
  BY <1>1, <1>3, <1>8, <1>9, <1>10 DEF UseInv, OnlyUnassignablePanics

\* NavigateField with an allocation: the section belongs to the object's owner.
LEMMA AllocateUse ==
  ASSUME WalkInv, UseInv, NavigateField, heap' # heap PROVE UseInv'
<1>0. PICK N, q, b : N = Len(heap) /\ q = SubSeq(Desc.path, 1, depth) /\ b = obj
  OBVIOUS
<1>1. /\ type' = type /\ catalog' = catalog /\ cursor' = cursor /\ failed' = failed
      /\ at' = at /\ depth' = depth + 1 /\ depth \in 1..(Len(Desc.path) - 1)
      /\ panicked' = panicked /\ ~panicked /\ work' = work /\ current' = current /\ kept' = kept
      /\ seen' = seen /\ listed' = listed /\ installed' = installed /\ Follow(q)
  BY <1>0 DEF NavigateField, Applying, walkVars, providerVars
<1>2. /\ at \in 1..Len(catalog) /\ HasValue(listed, Desc) /\ N \in Nat \ {0}
      /\ work \in 2..N /\ heap[work].of = work
      /\ b \in 1..N /\ b # 1 /\ heap[b].of \in {work, 1}
      /\ (b = work \/ heap[b].of # b)
      /\ b = WayIn(heap, PtrPaths, work, Desc.path)[depth - 1]
      /\ \A x \in 1..N : heap[x].of \in {current, kept} => x # b
  <2>1. depth # 0
    BY <1>1
  <2> QED
    BY <1>0, <2>1, NavigationFacts
<1>3. /\ PtrPaths' = PtrPaths /\ LeafPaths' = LeafPaths /\ Objects' = Objects
      /\ Desc' = Desc /\ HeapTypes /\ Owners /\ Copies
  BY <1>1, SameType DEF UseInv, Desc, Objects
<1>4. /\ q \in PtrPaths /\ heap[b].ptr[q] = 0 /\ obj' = N + 1
      /\ heap' = Append([heap EXCEPT ![obj].ptr[q] = Len(heap) + 1],
                        ZeroObject(heap[obj].of))
  BY <1>0, <1>1 DEF Follow
<1>5. /\ heap' \in Seq(Objects) /\ Len(heap') = N + 1
      /\ \A x \in 1..N : /\ heap'[x].leaf = heap[x].leaf
                         /\ heap'[x].of = heap[x].of
                         /\ x # b => heap'[x] = heap[x]
      /\ \A x \in 1..N, r \in PtrPaths :
           heap'[x].ptr[r] = IF x = b /\ r = q THEN N + 1 ELSE heap[x].ptr[r]
      /\ heap'[N + 1].of = heap[b].of
      /\ \A r \in PtrPaths : heap'[N + 1].ptr[r] = 0
      /\ \A p \in LeafPaths : heap'[N + 1].leaf[p] = ZeroLeaf(p)
  <2>1. obj \in 1..Len(heap)
    BY <1>0, <1>2
  <2>2. /\ heap' \in Seq(Objects) /\ Len(heap') = Len(heap) + 1
        /\ \A x \in 1..Len(heap) : /\ heap'[x].leaf = heap[x].leaf
                                   /\ heap'[x].of = heap[x].of
                                   /\ x # obj => heap'[x] = heap[x]
        /\ \A x \in 1..Len(heap), r \in PtrPaths :
             heap'[x].ptr[r] = IF x = obj /\ r = q THEN Len(heap) + 1 ELSE heap[x].ptr[r]
        /\ heap'[Len(heap) + 1].of = heap[obj].of
        /\ \A r \in PtrPaths : heap'[Len(heap) + 1].ptr[r] = 0
        /\ \A p \in LeafPaths : heap'[Len(heap) + 1].leaf[p] = ZeroLeaf(p)
    BY <1>3, <1>4, <2>1, AllocHeap
  <2> QED
    BY <1>0, <2>2, Zenon
<1>6. heap'[1] = heap[1] /\ heap[1].of = 1 /\ 1 \in 1..N
  <2>1. 1 \in 1..N
    BY <1>2
  <2>2. heap'[1] = heap[1]
    BY <1>2, <1>5, <2>1
  <2> QED
    BY <1>3, <2>1, <2>2 DEF HeapTypes, Root
<1>7. /\ \A x \in 1..N : heap[x].of \in 1..N
      /\ \A x \in 1..N : \A r \in PtrPaths : heap[x].ptr[r] \in 0..N
      /\ \A x \in 1..N : \A p \in LeafPaths : LeafValue(p, heap[x].leaf[p])
  BY <1>0, <1>3 DEF HeapTypes
<1>8. \A x \in 1..Len(heap') : x \in 1..N \/ x = N + 1
  BY <1>2, <1>5
<1>9. HeapTypes'
  <2>1. \A p, v : LeafValue(p, v)' <=> LeafValue(p, v)
    BY <1>1 DEF LeafValue
  <2>2. ASSUME NEW p \in LeafPaths PROVE LeafValue(p, ZeroLeaf(p))
    <3>1. Half(type[p].kind) \in Nat /\ 1 < Half(type[p].kind)
      BY CatalogAssumption DEF Half
    <3>2. 0 \in IntType(type[p].kind)
      BY <3>1 DEF IntType
    <3> QED
      BY <3>2 DEF LeafValue, ZeroLeaf
  <2>3. ASSUME NEW x \in 1..Len(heap')
        PROVE  /\ heap'[x].of \in 1..Len(heap')
               /\ \A r \in PtrPaths : heap'[x].ptr[r] \in 0..Len(heap')
               /\ \A p \in LeafPaths : LeafValue(p, heap'[x].leaf[p])
    <3>1. CASE x \in 1..N
      <4>1. heap'[x].of \in 1..N /\ \A p \in LeafPaths : LeafValue(p, heap'[x].leaf[p])
        BY <1>5, <1>7, <3>1
      <4>2. ASSUME NEW r \in PtrPaths PROVE heap'[x].ptr[r] \in 0..(N + 1)
        <5>1. heap'[x].ptr[r] = N + 1 \/ heap'[x].ptr[r] = heap[x].ptr[r]
          BY <1>5, <3>1
        <5>2. heap[x].ptr[r] \in 0..N
          BY <1>7, <3>1
        <5> QED
          BY <1>2, <5>1, <5>2
      <4> QED
        BY <1>2, <1>5, <4>1, <4>2
    <3>2. CASE x = N + 1
      BY <1>2, <1>5, <1>7, <2>2, <3>2
    <3> QED
      BY <1>8, <3>1, <3>2
  <2>4. type' \in Types /\ Len(heap') > 0 /\ Root(1)'
    BY <1>1, <1>2, <1>3, <1>5, <1>6 DEF HeapTypes, Root
  <2> QED
    BY <1>3, <1>5, <2>1, <2>3, <2>4 DEF HeapTypes
<1>10. Owners'
  <2> SUFFICES ASSUME NEW x \in 1..Len(heap'), NEW r \in PtrPaths PROVE OwnerIn(heap', x, r)
    BY <1>3 DEF Owners
  <2>1. CASE x = N + 1
    <3>1. heap[b].of \in 1..N /\ heap'[x].of # x /\ heap'[x].ptr[r] = 0
      BY <1>2, <1>5, <1>7, <2>1
    <3> QED
      BY <3>1 DEF OwnerIn
  <2>2. CASE x \in 1..N /\ ~(x = b /\ r = q)
    <3>1. PICK t : t = heap[x].ptr[r]
      OBVIOUS
    <3>2. OwnerIn(heap, x, r) /\ t \in 0..N
      BY <1>0, <1>3, <1>7, <2>2, <3>1 DEF Owners
    <3>3. /\ heap'[x].ptr[r] = t /\ heap'[x].of = heap[x].of
          /\ t # 0 => heap'[t].of = heap[t].of
      BY <1>2, <1>5, <2>2, <3>1, <3>2
    <3> QED
      BY <1>6, <3>1, <3>2, <3>3 DEF OwnerIn
  <2>3. CASE x = b /\ r = q
    <3>1. OwnerIn(heap, x, r)
      BY <1>0, <1>2, <1>3, <2>3 DEF Owners
    <3>2. /\ heap'[x].ptr[r] = N + 1 /\ heap'[x].of = heap[x].of /\ heap[x].ptr[r] = 0
          /\ heap'[N + 1].of = heap[x].of /\ heap[x].of # N + 1
      <4>1. x \in 1..N /\ heap[x].of \in 1..N
        BY <1>2, <1>7, <2>3
      <4>2. heap'[x].ptr[r] = N + 1 /\ heap'[x].of = heap[x].of
        BY <1>5, <2>3, <4>1
      <4>3. heap'[N + 1].of = heap[x].of /\ heap[x].ptr[r] = 0
        BY <1>4, <1>5, <2>3
      <4>4. heap[x].of # N + 1
        BY <1>2, <4>1
      <4> QED
        BY <4>2, <4>3, <4>4
    <3>3. heap[x].of = x => heap[1].ptr[r] = 0
      BY <3>1, <3>2 DEF OwnerIn
    <3> QED
      BY <1>2, <1>6, <3>2, <3>3 DEF OwnerIn
  <2> QED
    BY <1>8, <2>1, <2>2, <2>3
<1>11. Copies'
  <2>1. ASSUME NEW o \in {work, current, kept} PROVE o = 0 \/ (o \in 2..Len(heap') /\ Root(o)')
    <3>1. o = 0 \/ (o \in 2..N /\ heap[o].of = o)
      BY <1>0, <1>3 DEF Copies, Root
    <3> QED
      BY <1>2, <1>5, <3>1 DEF Root
  <2>2. obj' \in 0..Len(heap') /\ depth' \in Nat
    <3>1. obj' = N + 1 /\ Len(heap') = N + 1
      BY <1>4, <1>5
    <3>2. depth \in Nat
      BY <1>3 DEF Copies
    <3> QED
      BY <1>1, <1>2, <3>1, <3>2
  <2> QED
    BY <1>1, <1>3, <2>1, <2>2 DEF Copies, Built, Returned
<1>12. CurrentOK' /\ UnsharedIsPointInTime'
  <2>1. \A x \in 1..Len(heap) : heap[x].of \in {current, kept} => heap'[x] = heap[x]
    BY <1>0, <1>2, <1>5
  <2>2. at' # 0 /\ at # 0
    BY <1>1, <1>2
  <2>3. ASSUME NEW x \in 1..Len(heap'), heap'[x].of = current
        PROVE  x \in 1..Len(heap) /\ heap[x].of = current
    <3>1. current # 1 /\ current # work
      BY <1>0, <1>2, <1>3, <2>2 DEF Copies
    <3>2. x # N + 1
      BY <1>2, <1>5, <2>3, <3>1
    <3>3. x \in 1..N
      BY <1>8, <3>2
    <3> QED
      BY <1>0, <1>5, <2>3, <3>3
  <2> QED
    BY <1>1, <1>3, <1>6, <2>1, <2>2, <2>3, HeldStays DEF UseInv
<1>13. Closed(heap, PtrPaths, N) /\ Grows(heap, heap', PtrPaths, N)
  BY <1>4, <1>5, <1>7 DEF Closed, Grows
<1>14. ASSUME NEW o, o = work, NEW p \in LeafPaths
       PROVE  /\ p \in Path /\ p # << >> /\ Len(p) - 1 \in 0..(Len(p) - 1)
              /\ GrownWay(heap, heap', PtrPaths, o, p, N)
              /\ Holder(o, p) # 0 => Holder(o, p) \in 1..N /\ Holder(o, p)' = Holder(o, p)
              /\ Holder(o, p) = 0 => Holder(o, p)' \in {0, N + 1}
  <2>1. p \in Path /\ p # << >> /\ Len(p) - 1 \in 0..(Len(p) - 1)
    BY <1>3, TypeFacts, PathFront DEF LeafPaths, HeapTypes
  <2>2. o \in 1..N /\ o \in 0..N /\ N \in Nat
    BY <1>2, <1>14
  <2>3. GrownWay(heap, heap', PtrPaths, o, p, N)
    BY <1>13, <2>1, <2>2, WayGrows
  <2>4. WayWithin(heap, PtrPaths, o, p, 1..N)
    BY <1>13, <2>1, <2>2, WayInHeap
  <2>5. /\ Holder(o, p) = WayIn(heap, PtrPaths, o, p)[Len(p) - 1]
        /\ Holder(o, p)' = WayIn(heap', PtrPaths, o, p)[Len(p) - 1]
    BY <1>3, HolderIs
  <2> QED
    BY <2>1, <2>3, <2>4, <2>5 DEF GrownWay, WayWithin
<1>15. WorkOK'
  <2>1. ASSUME NEW i \in 1..Len(catalog)
        PROVE  /\ i < at' => Spelled(work, listed, catalog[i])'
               /\ Plain(work, listed, catalog[i])'
    <3>1. PICK d, o, ovr : d = catalog[i] /\ o = work /\ ovr = listed
      OBVIOUS
    <3>2. d.path \in LeafPaths
      BY <3>1 DEF WalkInv, CollectedOK, Describes, Listed
    <3>3. (i < at => Spelled(o, ovr, d)) /\ Plain(o, ovr, d)
      BY <1>2, <3>1 DEF UseInv, WorkOK
    <3>4. /\ Holder(o, d.path) # 0 => Holder(o, d.path) \in 1..N
                                      /\ Holder(o, d.path)' = Holder(o, d.path)
          /\ Holder(o, d.path) = 0 => Holder(o, d.path)' \in {0, N + 1}
      BY <1>14, <3>1, <3>2
    <3>5. Holder(o, d.path) # 0 =>
            heap'[Holder(o, d.path)].leaf[d.path] = heap[Holder(o, d.path)].leaf[d.path]
      BY <1>5, <3>4
    <3>6. i < at' => Spelled(o, ovr, d)'
      BY <1>1, <3>3, <3>4, <3>5, SpelledStays
    <3>7. Plain(o, ovr, d)'
      <4>1. CASE Holder(o, d.path) # 0 \/ Holder(o, d.path)' = 0
        BY <1>1, <1>6, <3>3, <3>4, <3>5, <4>1, PlainStays
      <4>2. CASE Holder(o, d.path) = 0 /\ Holder(o, d.path)' = N + 1
        <5>1. Above(d.path) # {}
          <6> SUFFICES ASSUME Above(d.path) = {} PROVE FALSE
            OBVIOUS
          <6> DEFINE p == d.path
          <6>1. p \in Path /\ p # << >> /\ Len(p) - 1 \in 0..(Len(p) - 1)
            BY <1>14, <3>1, <3>2
          <6>2. \A n \in 1..(Len(p) - 1) : SubSeq(p, 1, n) \notin PtrPaths
            BY DEF Above
          <6>3. NilFirst(heap, PtrPaths, o, p)
            BY <6>2 DEF NilFirst
          <6>4. CutWay(heap, PtrPaths, o, p)
            BY <6>1, <6>3, WayToNil
          <6>5. Holder(o, p) = o
            BY <6>1, <6>2, <6>4, HolderIs DEF CutWay
          <6> QED
            BY <1>2, <3>1, <4>2, <6>5
        <5>2. heap'[N + 1].leaf[d.path] = ZeroLeaf(d.path)
          BY <1>5, <3>2
        <5> QED
          BY <1>1, <1>6, <4>2, <5>1, <5>2, SameBase DEF Plain
      <4> QED
        BY <3>4, <4>1, <4>2
    <3> QED
      BY <1>1, <3>1, <3>6, <3>7
  <2>2. Sections(work, listed)'
    <3> SUFFICES ASSUME NEW x \in 1..Len(heap'), NEW r \in PtrPaths, heap'[x].of = work,
                        heap'[x].ptr[r] # 0, x = work => heap[1].ptr[r] = 0
                 PROVE  Needed(r, listed)
      BY <1>1, <1>3, <1>6 DEF Sections, Needed
    <3>0. x \in 1..N /\ heap[x].of = work
      BY <1>5, <1>8
    <3>1. CASE heap[x].ptr[r] # 0
      BY <1>0, <1>2, <3>0, <3>1 DEF UseInv, WorkOK, Sections
    <3>2. CASE heap[x].ptr[r] = 0
      <4>1. r = q
        BY <1>5, <3>0, <3>2
      <4>2. IsPrefix(q, Desc.path)
        <5> DEFINE p == Desc.path
        <5>1. p \in Path /\ Len(p) \in Nat \ {0} /\ depth \in 0..Len(p)
          BY <1>1, <1>2, DescFacts
        <5>2. q \in Path /\ Len(q) = depth /\ SubSeq(q, 1, Len(q)) = q
          BY <1>0, <5>1, PathPart, SubSeqFull DEF Path
        <5> QED
          BY <1>0, <5>1, <5>2 DEF IsPrefix
      <4> QED
        BY <1>2, <4>1, <4>2 DEF Desc, Needed
    <3> QED
      BY <3>1, <3>2
  <2> QED
    BY <1>1, <2>1, <2>2 DEF WorkOK
<1>16. Navigation'
  <2>1. PICK o, p : o = work /\ p = Desc.path
    OBVIOUS
  <2>2. p \in LeafPaths /\ Len(p) \in Nat \ {0}
    BY <1>2, <2>1, DescFacts
  <2>3. p \in Path /\ p # << >> /\ GrownWay(heap, heap', PtrPaths, o, p, N)
    BY <1>14, <2>1, <2>2
  <2>4. depth - 1 \in 0..(Len(p) - 1) /\ depth \in 1..(Len(p) - 1) /\ b # 0
    BY <1>1, <1>2, <2>1, <2>2
  <2>5. WayIn(heap', PtrPaths, o, p)[depth - 1] = b
    BY <1>2, <2>1, <2>3, <2>4 DEF GrownWay
  <2>6. WayIn(heap', PtrPaths, o, p)[depth] = heap'[b].ptr[q]
    <3>1. Leads(WayIn(heap', PtrPaths, o, p), heap', PtrPaths, o, p)
      BY <2>3, WayIs
    <3> QED
      BY <1>0, <1>4, <2>1, <2>4, <2>5, <3>1 DEF Leads
  <2>7. heap'[b].ptr[q] = N + 1 /\ heap'[N + 1].of = heap[b].of /\ heap[b].of \in 1..N
    BY <1>2, <1>4, <1>5, <1>7
  <2>8. depth' - 1 = depth /\ depth' \in 1..Len(p) /\ obj' \in 1..Len(heap') /\ heap[b].of # N + 1
    <3>1. depth' - 1 = depth /\ depth' \in 1..Len(p)
      BY <1>1, <2>1, <2>2
    <3>2. obj' = N + 1 /\ Len(heap') = N + 1
      BY <1>4, <1>5
    <3> QED
      BY <1>2, <2>7, <3>1, <3>2
  <2> QED
    BY <1>1, <1>2, <1>3, <1>4, <2>1, <2>6, <2>7, <2>8 DEF Navigation, Root
<1> QED
  BY <1>1, <1>9, <1>10, <1>11, <1>12, <1>15, <1>16 DEF UseInv, OnlyUnassignablePanics

-----------------------------------------------------------------------------
\* The remainder of a number below the modulus is the number itself.
LEMMA SmallRemainder ==
  ASSUME NEW m \in Nat, m > 0, NEW x \in Int
  PROVE  x % m \in 0..(m - 1) /\ (x \in 0..(m - 1) => x % m = x)
OBVIOUS

(***************************************************************************)
(* parseFieldValue and Convert: a raw value that parses becomes a value of *)
(* the field's type, and the number it spells if that fits the type.       *)
(***************************************************************************)
LEMMA ParsedFits ==
  ASSUME NEW raw, NEW kind, Supported(kind), Parses(raw, kind)
  PROVE  /\ Parsed(raw, kind) \in AnyValue
         /\ IF kind \in IntKinds THEN Parsed(raw, kind) \in IntType(kind)
            ELSE Parsed(raw, kind) \in RawValues
         /\ Spells(raw, kind, Parsed(raw, kind))
<1>1. PICK H : H = Half(kind)
  OBVIOUS
<1>2. H \in Nat /\ H > 1 /\ 2 * H \in Nat /\ 2 * H > 0
  BY <1>1, CatalogAssumption DEF Half
<1>3. CASE kind \in SignedKinds
  <2>1. raw \in DOMAIN Number /\ kind \notin UnsignedKinds /\ kind # "float32"
    BY <1>3 DEF Parses, UnsignedKinds, SignedKinds
  <2>2. PICK x \in Int : x = Number[raw]
    BY <2>1, CatalogAssumption
  <2>3. Parsed(raw, kind) = ((x + H) % (2 * H)) - H
    BY <1>1, <1>3, <2>1, <2>2 DEF Parsed
  <2>4. kind \in IntKinds /\ IntType(kind) = (-H)..(H - 1)
    BY <1>1, <1>3 DEF IntKinds, IntType
  <2>5. /\ (x + H) % (2 * H) \in 0..(2 * H - 1)
        /\ x + H \in 0..(2 * H - 1) => (x + H) % (2 * H) = x + H
    <3>1. x + H \in Int
      BY <1>2
    <3> QED
      BY <1>2, <3>1, SmallRemainder
  <2>6. PICK r : r = (x + H) % (2 * H)
    OBVIOUS
  <2>7. /\ r - H \in (-H)..(H - 1) /\ r - H \in Int
        /\ x \in (-H)..(H - 1) => r - H = x
    BY <1>2, <2>5, <2>6
  <2> QED
    BY <2>2, <2>3, <2>4, <2>6, <2>7 DEF AnyValue, Spells
<1>4. CASE kind \in UnsignedKinds
  <2>1. raw \in DOMAIN Number /\ kind \notin SignedKinds /\ kind # "float32"
    BY <1>4 DEF Parses, UnsignedKinds, SignedKinds
  <2>2. PICK x \in Int : x = Number[raw]
    BY <2>1, CatalogAssumption
  <2>3. Parsed(raw, kind) = x % (2 * H)
    BY <1>1, <1>4, <2>1, <2>2 DEF Parsed
  <2>4. kind \in IntKinds /\ IntType(kind) = 0..(2 * H - 1)
    BY <1>1, <1>4, <2>1 DEF IntKinds, IntType
  <2>5. /\ x % (2 * H) \in 0..(2 * H - 1)
        /\ x \in 0..(2 * H - 1) => x % (2 * H) = x
    BY <1>2, SmallRemainder
  <2> QED
    BY <2>2, <2>3, <2>4, <2>5 DEF AnyValue, Spells
<1>5. CASE kind \notin IntKinds
  <2>1. kind \notin SignedKinds /\ kind \notin UnsignedKinds /\ kind \in DOMAIN Accepts
    BY <1>5 DEF IntKinds, Supported
  <2>2. raw \in Accepts[kind] /\ Accepts[kind] \subseteq RawValues
    BY <2>1, CatalogAssumption DEF Parses
  <2>3. CASE kind = "float32"
    <3>1. Parsed(raw, kind) = Single[raw] /\ Single[raw] \in RawValues
      BY <2>1, <2>2, <2>3, CatalogAssumption DEF Parsed
    <3> QED
      BY <1>5, <2>3, <3>1 DEF AnyValue, Spells
  <2>4. CASE kind # "float32"
    <3>1. Parsed(raw, kind) = raw
      BY <2>1, <2>4 DEF Parsed
    <3> QED
      BY <1>5, <2>2, <3>1 DEF AnyValue, Spells
  <2> QED
    BY <2>3, <2>4
<1> QED
  BY <1>3, <1>4, <1>5 DEF IntKinds

\* SetField panics: the field is a pointer or a slice of a named type.
LEMMA PanicUse ==
  ASSUME WalkInv, UseInv, SetField, panicked' # panicked PROVE UseInv'
<1>1. /\ type' = type /\ catalog' = catalog /\ cursor' = cursor /\ failed' = failed
      /\ depth = Len(Desc.path) /\ at \in 1..Len(catalog) /\ obj' = obj
      /\ heap' = heap /\ at' = at /\ depth' = depth /\ panicked' = TRUE
      /\ work' = work /\ current' = current /\ kept' = kept
      /\ seen' = seen /\ listed' = listed /\ installed' = installed
      /\ Unassignable(Desc) \/ obj = 0
  BY DEF SetField, Applying, walkVars, providerVars
<1>2. depth # 0 /\ at # 0
  BY <1>1, DescFacts
<1>3. Unassignable(Desc)
  BY <1>1, <1>2, NavigationFacts
<1>4. /\ HeapTypes' /\ Owners' /\ (\A x : Root(x)' <=> Root(x))
      /\ LeafPaths' = LeafPaths /\ PtrPaths' = PtrPaths
  BY <1>1, SameHeap, SameType DEF UseInv
<1>5. Copies'
  <2>1. ASSUME NEW o \in {work, current, kept} PROVE o = 0 \/ (o \in 2..Len(heap') /\ Root(o)')
    BY <1>1, <1>4 DEF UseInv, Copies
  <2> QED
    BY <1>1, <2>1 DEF UseInv, Copies, Built, Returned
<1>6. CurrentOK' /\ UnsharedIsPointInTime' /\ WorkOK'
  BY <1>1, <1>2, HeldRests, WorkRests
<1>7. Navigation'
  BY <1>1, <1>4 DEF UseInv, Navigation, Desc, Root
<1>8. OnlyUnassignablePanics'
  BY <1>1, <1>3 DEF OnlyUnassignablePanics, Desc, Unassignable
<1> QED
  BY <1>4, <1>5, <1>6, <1>7, <1>8 DEF UseInv

\* SetField sets the field, in the object that the way from the copy leads to.
LEMMA SetUse ==
  ASSUME WalkInv, UseInv, SetField, panicked' = panicked PROVE UseInv'
<1>0. PICK N, b, p, v : /\ N = Len(heap) /\ b = obj /\ p = Desc.path
                        /\ v = Parsed(listed[Desc.key], Desc.kind)
  OBVIOUS
<1>1. /\ type' = type /\ catalog' = catalog /\ cursor' = cursor /\ failed' = failed
      /\ depth = Len(Desc.path) /\ at \in 1..Len(catalog) /\ obj' = obj /\ ~panicked
      /\ heap' = [heap EXCEPT ![obj].leaf[p] = v] /\ at' = at + 1 /\ depth' = 0
      /\ work' = work /\ current' = current /\ kept' = kept /\ panicked' = panicked
      /\ seen' = seen /\ listed' = listed /\ installed' = installed
  BY <1>0 DEF SetField, Applying, walkVars, providerVars
<1>2. /\ HasValue(listed, Desc) /\ N \in Nat \ {0} /\ work \in 2..N /\ heap[work].of = work
      /\ b \in 1..N /\ b # 1 /\ b = WayIn(heap, PtrPaths, work, p)[Len(p) - 1]
      /\ \A x \in 1..N : heap[x].of \in {current, kept} => x # b
  <2>1. depth # 0
    BY <1>1, DescFacts
  <2> QED
    BY <1>0, <1>1, <2>1, NavigationFacts
<1>3. /\ p \in LeafPaths /\ Desc.kind = type[p].kind /\ Len(catalog) \in Nat
      /\ HeapTypes /\ Owners /\ Copies /\ Built
  BY <1>0, <1>1, DescFacts DEF UseInv, Copies, WalkInv, WalkTypes
<1>4. Supported(Desc.kind)
  <2>1. Listed(p) /\ p \in Paths /\ Exposed(p)
    BY <1>0, <1>1 DEF WalkInv, CollectedOK, Describes, Listed, LeafPaths, Desc
  <2>2. ~Refused(type[p])
    BY <1>3, <2>1 DEF WalkInv, NoneMissed, Passed, Built, Returned
  <2> QED
    BY <1>3, <2>1, <2>2 DEF Refused, Listed, LeafPaths
<1>5. /\ v \in AnyValue /\ LeafValue(p, v)
      /\ Spells(listed[Desc.key], Desc.kind, v)
  <2>1. Parses(listed[Desc.key], Desc.kind)
    BY <1>2 DEF HasValue
  <2> QED
    BY <1>0, <1>3, <1>4, <2>1, ParsedFits DEF LeafValue
<1>6. /\ heap' \in Seq(Objects) /\ Len(heap') = N
      /\ \A x \in 1..N : /\ heap'[x].ptr = heap[x].ptr
                         /\ heap'[x].of = heap[x].of
                         /\ x # b => heap'[x] = heap[x]
      /\ \A x \in 1..N, r \in LeafPaths :
           heap'[x].leaf[r] = IF x = b /\ r = p THEN v ELSE heap[x].leaf[r]
  <2>1. /\ heap' \in Seq(Objects) /\ Len(heap') = Len(heap)
        /\ \A x \in 1..Len(heap) : /\ heap'[x].ptr = heap[x].ptr
                                   /\ heap'[x].of = heap[x].of
                                   /\ x # obj => heap'[x] = heap[x]
        /\ \A x \in 1..Len(heap), r \in LeafPaths :
             heap'[x].leaf[r] = IF x = obj /\ r = p THEN v ELSE heap[x].leaf[r]
    BY <1>0, <1>1, <1>2, <1>3, <1>5, SetHeap
  <2> QED
    BY <1>0, <2>1, Zenon
<1>7. PtrPaths' = PtrPaths /\ LeafPaths' = LeafPaths /\ Objects' = Objects
  BY <1>1, SameType DEF Objects
<1>8. heap'[1] = heap[1] /\ heap[1].of = 1 /\ 1 \in 1..N
  BY <1>2, <1>3, <1>6 DEF HeapTypes, Root
<1>9. /\ \A x \in 1..N : heap[x].of \in 1..N
      /\ \A x \in 1..N : \A r \in PtrPaths : heap[x].ptr[r] \in 0..N
      /\ \A x \in 1..N : \A r \in LeafPaths : LeafValue(r, heap[x].leaf[r])
  BY <1>0, <1>3 DEF HeapTypes
<1>10. HeapTypes'
  <2>1. \A r, y : LeafValue(r, y)' <=> LeafValue(r, y)
    BY <1>1 DEF LeafValue
  <2>2. ASSUME NEW x \in 1..N, NEW r \in LeafPaths PROVE LeafValue(r, heap'[x].leaf[r])
    BY <1>5, <1>6, <1>9
  <2>3. ASSUME NEW x \in 1..N
        PROVE  heap'[x].of \in 1..N /\ \A r \in PtrPaths : heap'[x].ptr[r] \in 0..N
    BY <1>6, <1>9
  <2>4. type' \in Types /\ Len(heap') > 0 /\ Root(1)'
    BY <1>1, <1>2, <1>3, <1>6, <1>8 DEF HeapTypes, Root
  <2> QED
    BY <1>6, <1>7, <2>1, <2>2, <2>3, <2>4 DEF HeapTypes
<1>11. Owners'
  <2> SUFFICES ASSUME NEW x \in 1..N, NEW r \in PtrPaths PROVE OwnerIn(heap', x, r)
    BY <1>6, <1>7 DEF Owners
  <2>1. PICK t : t = heap[x].ptr[r]
    OBVIOUS
  <2>2. OwnerIn(heap, x, r) /\ t \in 0..N
    BY <1>0, <1>3, <1>9, <2>1 DEF Owners
  <2>3. /\ heap'[x].ptr[r] = t /\ heap'[x].of = heap[x].of
        /\ t # 0 => heap'[t].of = heap[t].of
    BY <1>2, <1>6, <2>1, <2>2
  <2> QED
    BY <1>8, <2>1, <2>2, <2>3 DEF OwnerIn
<1>12. Copies'
  <2>1. ASSUME NEW o \in {work, current, kept} PROVE o = 0 \/ (o \in 2..Len(heap') /\ Root(o)')
    <3>1. o = 0 \/ (o \in 2..N /\ heap[o].of = o)
      BY <1>0, <1>3 DEF Copies, Root
    <3> QED
      BY <1>2, <1>6, <3>1 DEF Root
  <2>2. at' \in 0..(Len(catalog) + 1) /\ at' # 0 /\ obj' \in 0..Len(heap')
    <3>1. at' \in 0..(Len(catalog) + 1) /\ at' # 0
      BY <1>1, <1>3
    <3>2. obj' = b /\ Len(heap') = N
      BY <1>0, <1>1, <1>6
    <3> QED
      BY <1>2, <3>1, <3>2
  <2> QED
    BY <1>1, <1>3, <2>1, <2>2 DEF Copies, Built, Returned
<1>13. CurrentOK' /\ UnsharedIsPointInTime'
  <2>1. \A x \in 1..Len(heap) : heap[x].of \in {current, kept} => heap'[x] = heap[x]
    BY <1>0, <1>2, <1>6
  <2>2. at' # 0
    BY <1>1, <1>3
  <2>3. ASSUME NEW x \in 1..Len(heap'), heap'[x].of = current
        PROVE  x \in 1..Len(heap) /\ heap[x].of = current
    BY <1>0, <1>6, <2>3
  <2> QED
    BY <1>1, <1>3, <1>8, <2>1, <2>2, <2>3, HeldStays DEF UseInv
<1>14. ASSUME NEW o, o = work, NEW r \in LeafPaths
       PROVE  /\ Holder(o, r)' = Holder(o, r)
              /\ Holder(o, r) = 0 \/ Holder(o, r) \in 1..N
  <2>1. r \in Path /\ r # << >> /\ Len(r) - 1 \in 0..(Len(r) - 1)
    BY <1>3, TypeFacts, PathFront DEF LeafPaths, HeapTypes
  <2>2. o \in 0..N /\ N \in Nat /\ Closed(heap, PtrPaths, N)
    BY <1>2, <1>9, <1>14 DEF Closed
  <2>3. WayWithin(heap, PtrPaths, o, r, 1..N)
    BY <2>1, <2>2, WayInHeap
  <2>4. SamePtrs(heap, heap', PtrPaths, 1..N)
    BY <1>6 DEF SamePtrs
  <2>5. SameWay(heap, heap', PtrPaths, o, r)
    BY <2>1, <2>3, <2>4, WaySame
  <2>6. /\ Holder(o, r) = WayIn(heap, PtrPaths, o, r)[Len(r) - 1]
        /\ Holder(o, r)' = WayIn(heap', PtrPaths, o, r)[Len(r) - 1]
    BY <1>7, HolderIs
  <2> QED
    BY <2>1, <2>3, <2>5, <2>6 DEF WayWithin, SameWay
<1>15. WorkOK'
  <2>1. ASSUME NEW i \in 1..Len(catalog)
        PROVE  /\ i < at' => Spelled(work, listed, catalog[i])'
               /\ Plain(work, listed, catalog[i])'
    <3>1. PICK d, o, ovr : d = catalog[i] /\ o = work /\ ovr = listed
      OBVIOUS
    <3>2. d.path \in LeafPaths /\ (d.path = p => i = at)
      BY <1>0, <1>1, <3>1 DEF WalkInv, CollectedOK, Describes, Listed, Desc
    <3>3. (i < at => Spelled(o, ovr, d)) /\ Plain(o, ovr, d)
      BY <1>1, <3>1 DEF UseInv, WorkOK
    <3>4. /\ Holder(o, d.path)' = Holder(o, d.path)
          /\ Holder(o, d.path) = 0 \/ Holder(o, d.path) \in 1..N
      BY <1>14, <3>1, <3>2
    <3>5. CASE i # at
      <4>1. Holder(o, d.path) # 0 =>
              heap'[Holder(o, d.path)].leaf[d.path] = heap[Holder(o, d.path)].leaf[d.path]
        BY <1>6, <3>2, <3>4, <3>5
      <4>2. i < at' => i < at
        BY <1>1, <1>3, <3>5
      <4>3. i < at' => Spelled(o, ovr, d)'
        BY <1>1, <3>3, <3>4, <4>1, <4>2, SpelledStays
      <4>4. Plain(o, ovr, d)'
        BY <1>1, <1>8, <3>3, <3>4, <4>1, PlainStays
      <4> QED
        BY <1>1, <3>1, <4>3, <4>4
    <3>6. CASE i = at
      <4>1. d = Desc /\ d.path = p
        BY <1>0, <3>1, <3>6 DEF Desc
      <4>2. Holder(o, p) = b
        BY <1>2, <3>1, HolderIs
      <4>3. heap'[b].leaf[p] = v
        BY <1>2, <1>3, <1>6
      <4>4. Holder(o, d.path)' = b /\ b # 0
        BY <1>2, <3>4, <4>1, <4>2
      <4>5. Spelled(o, ovr, d)'
        BY <1>5, <3>1, <4>1, <4>3, <4>4 DEF Spelled
      <4>6. Plain(o, ovr, d)'
        BY <1>2, <3>1, <4>1 DEF Plain
      <4> QED
        BY <1>1, <3>1, <4>5, <4>6
    <3> QED
      BY <3>5, <3>6
  <2>2. Sections(work, listed)'
    <3> SUFFICES ASSUME NEW x \in 1..N, NEW r \in PtrPaths, heap'[x].of = work,
                        heap'[x].ptr[r] # 0, x = work => heap[1].ptr[r] = 0
                 PROVE  Needed(r, listed)
      BY <1>1, <1>6, <1>7, <1>8 DEF Sections, Needed
    <3>1. heap[x].of = work /\ heap[x].ptr[r] # 0
      BY <1>6
    <3> QED
      BY <1>0, <1>1, <3>1 DEF UseInv, WorkOK, Sections
  <2> QED
    BY <1>1, <2>1, <2>2 DEF WorkOK
<1>16. OnlyUnassignablePanics' /\ Navigation'
  BY <1>1 DEF OnlyUnassignablePanics, Navigation
<1> QED
  BY <1>10, <1>11, <1>12, <1>13, <1>15, <1>16 DEF UseInv

-----------------------------------------------------------------------------
(***************************************************************************)
(* At every point of every refresh: the copy in work has the overrides     *)
(* handled so far, the snapshot has all of its own, and no section is      *)
(* shared unless base has it.                                              *)
(***************************************************************************)
THEOREM UseInvariant == Spec => []UseInv
<1>1. Init => UseInv
  BY UseInitOK
<1>2. ASSUME WalkInv, UseInv, [Next]_vars PROVE UseInv'
  <2>1. CASE Walk
    BY <1>2, <2>1, WalkUse
  <2>2. ASSUME NEW ovr, StartApply(ovr) PROVE UseInv'
    BY <1>2, <2>2, StartApplyUse
  <2>3. CASE SkipDescriptor
    BY <1>2, <2>3, SkipUse
  <2>4. CASE StartNavigate
    BY <1>2, <2>4, StartNavigateUse
  <2>5. CASE NavigateField
    BY <1>2, <2>5, FollowUse, AllocateUse
  <2>6. CASE SetField
    BY <1>2, <2>6, PanicUse, SetUse
  <2>7. CASE FinishApply
    BY <1>2, <2>7, FinishUse
  <2>8. CASE Get
    BY <1>2, <2>8, GetUse
  <2>9. CASE UNCHANGED vars
    <3>1. /\ type' = type /\ catalog' = catalog /\ cursor' = cursor /\ failed' = failed
          /\ heap' = heap /\ at' = at /\ depth' = depth /\ obj' = obj
          /\ panicked' = panicked /\ work' = work /\ current' = current /\ kept' = kept
          /\ seen' = seen /\ listed' = listed /\ installed' = installed
      BY <2>9 DEF vars, walkVars, applyVars, providerVars
    <3>2. /\ HeapTypes' /\ Owners' /\ (\A x : Root(x)' <=> Root(x))
          /\ LeafPaths' = LeafPaths /\ PtrPaths' = PtrPaths
      BY <1>2, <3>1, SameHeap, SameType DEF UseInv
    <3>3. Copies'
      <4>1. ASSUME NEW o \in {work, current, kept}
            PROVE  o = 0 \/ (o \in 2..Len(heap') /\ Root(o)')
        BY <1>2, <3>1, <3>2 DEF UseInv, Copies
      <4> QED
        BY <1>2, <3>1, <4>1 DEF UseInv, Copies, Built, Returned
    <3>4. CurrentOK' /\ UnsharedIsPointInTime' /\ (at # 0 => WorkOK')
      BY <1>2, <3>1, HeldRests, WorkRests
    <3>5. WorkOK'
      BY <3>1, <3>4 DEF WorkOK
    <3>6. Navigation' /\ OnlyUnassignablePanics'
      BY <1>2, <3>1, <3>2 DEF UseInv, Navigation, Desc, Root, OnlyUnassignablePanics
    <3> QED
      BY <3>2, <3>3, <3>4, <3>5, <3>6 DEF UseInv
  <2> QED
    BY <1>2, <2>1, <2>2, <2>3, <2>4, <2>5, <2>6, <2>7, <2>8, <2>9 DEF Next
<1> QED
  BY <1>1, <1>2, WalkInvariant, PTL DEF Spec

(***************************************************************************)
(* Every leaf of base, of every snapshot and of every section that         *)
(* navigateField allocates holds a value of the field's own type, whatever *)
(* the raw override was: Convert leaves nothing outside the width.         *)
(***************************************************************************)
THEOREM TypeCorrect == Spec => []TypeOK
<1>1. ASSUME UseInv PROVE TypeOK
  <2>1. HeapTypes /\ Copies /\ Len(heap) \in Nat
    BY <1>1, HeapFacts DEF UseInv
  <2>2. ASSUME NEW o \in {work, current, kept, obj} PROVE o \in 0..Len(heap)
    <3>1. o = 0 \/ o \in 2..Len(heap) \/ o \in 0..Len(heap)
      BY <2>1 DEF Copies
    <3> QED
      BY <2>1, <3>1
  <2> QED
    BY <2>1, <2>2 DEF TypeOK, HeapTypes, LeafValue, Copies
<1> QED
  BY <1>1, UseInvariant, PTL

(***************************************************************************)
(* Get is a point-in-time copy in every leaf that is held by value or      *)
(* behind a pointer that is nil in base, for any number of later           *)
(* refreshes.                                                              *)
(***************************************************************************)
THEOREM UnsharedIsPointInTimeHolds == Spec => []UnsharedIsPointInTime
<1>1. UseInv => UnsharedIsPointInTime
  BY DEF UseInv
<1> QED
  BY <1>1, UseInvariant, PTL

(***************************************************************************)
(* applyOverrides: every snapshot has what its overrides spell, and what   *)
(* base has where there is none, whatever earlier refreshes wrote.  (Of    *)
(* restart-required leaves this speaks for the snapshot of New.)           *)
(***************************************************************************)
THEOREM SnapshotSpellsOverridesHolds == Spec => []SnapshotSpellsOverrides
<1>1. ASSUME WalkInv, UseInv PROVE SnapshotSpellsOverrides
  <2> SUFFICES ASSUME current # 0, NEW i \in 1..Len(catalog)
               PROVE  LET d == catalog[i]
                          p == d.path
                      IN
                      d.strategy # "restart-required" \/ refreshes = 1 =>
                      IF HasValue(installed, d)
                      THEN at = 0 \/ Unshared(p) =>
                             /\ p \in DOMAIN Value(current)
                             /\ Spells(installed[d.key], d.kind, Value(current)[p])
                      ELSE Unshared(p) /\ p \in DOMAIN Value(current) =>
                             Value(current)[p] =
                               IF Above(p) = {} THEN heap[1].leaf[p] ELSE ZeroLeaf(p)
    BY DEF SnapshotSpellsOverrides
  <2> DEFINE d == catalog[i]
             p == d.path
  <2>1. p \in LeafPaths
    BY <1>1 DEF WalkInv, CollectedOK, Describes, Listed
  <2>2. /\ at = 0 \/ Unshared(p) => Spelled(current, installed, d)
        /\ Plain(current, installed, d)
    BY <1>1 DEF UseInv, CurrentOK
  <2>3. /\ p \in DOMAIN Value(current) <=> Holder(current, p) # 0
        /\ Holder(current, p) # 0 => Value(current)[p] = heap[Holder(current, p)].leaf[p]
    BY <2>1 DEF Value
  <2> QED
    BY <2>2, <2>3 DEF Spelled, Plain
<1> QED
  BY <1>1, UseInvariant, WalkInvariant, PTL

(***************************************************************************)
(* In a section that is nil in base, and in all sections below it,         *)
(* navigateField allocates for an override that parses and lies there, and *)
(* a snapshot without such an override does not have the section.          *)
(***************************************************************************)
THEOREM NilSectionStaysNilHolds == Spec => []NilSectionStaysNil
<1>1. ASSUME UseInv PROVE NilSectionStaysNil
  <2> SUFFICES ASSUME current # 0, NEW p \in PtrPaths, Unshared(FieldOf(p)),
                      Holder(current, FieldOf(p)) # 0
               PROVE  Needed(p, installed)
    BY DEF NilSectionStaysNil, Needed
  <2>1. HeapTypes /\ Owners /\ current \in 1..Len(heap) /\ Root(current)
    BY <1>1 DEF UseInv, Copies
  <2>2. p \in Path /\ p # << >> /\ Len(p) \in Nat \ {0}
    BY <2>1, TypeFacts, PathFront DEF PtrPaths, HeapTypes
  <2>3. PICK f : f = FieldOf(p)
    OBVIOUS
  <2>4. f \in Path /\ f # << >> /\ Len(f) - 1 = Len(p) /\ SubSeq(f, 1, Len(p)) = p
    BY <2>2, <2>3 DEF FieldOf, Path
  <2> DEFINE w == WayIn(heap, PtrPaths, current, f)
             x == w[Len(p) - 1]
  <2>5. Leads(w, heap, PtrPaths, current, f) /\ w[Len(p)] # 0
    BY <2>3, <2>4, WayIs, HolderIs
  <2>6. /\ WayWithin(heap, PtrPaths, current, f, {y \in 1..Len(heap) : heap[y].of = current})
        /\ x = current => heap[1].ptr[p] = 0
    <3>1. Unshared(f) /\ Len(p) \in 1..(Len(f) - 1)
      BY <2>2, <2>3, <2>4
    <3> QED
      BY <2>1, <2>4, <3>1, OwnWay
  <2> HIDE DEF w
  <2>7. x # 0 /\ w[Len(p)] = heap[x].ptr[p]
    <3>1. w[Len(p)] = IF p \in PtrPaths /\ x # 0 THEN heap[x].ptr[p] ELSE x
      <4>1. Len(p) \in 1..(Len(f) - 1)
        BY <2>2, <2>4
      <4> QED
        BY <2>4, <2>5, <4>1 DEF Leads
    <3> QED
      BY <2>5, <3>1
  <2>8. x \in 1..Len(heap) /\ heap[x].of = current
    <3>1. Len(p) - 1 \in 0..(Len(f) - 1)
      BY <2>2, <2>4
    <3> QED
      BY <2>6, <2>7, <3>1 DEF WayWithin, w
  <2> QED
    BY <1>1, <2>5, <2>6, <2>7, <2>8 DEF UseInv, CurrentOK, Sections
<1> QED
  BY <1>1, UseInvariant, PTL

(***************************************************************************)
(* applyOverrides panics only at a descriptor of a pointer to a leaf or of *)
(* a slice of a named string type: navigateField follows no nil pointer,   *)
(* whatever sections base and the earlier refreshes have left nil.         *)
(***************************************************************************)
THEOREM OnlyUnassignablePanicsHolds == Spec => []OnlyUnassignablePanics
<1>1. UseInv => OnlyUnassignablePanics
  BY DEF UseInv
<1> QED
  BY <1>1, UseInvariant, PTL

=============================================================================
