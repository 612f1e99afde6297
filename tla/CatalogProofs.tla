---------------------------- MODULE CatalogProofs ----------------------------
(***************************************************************************)
(* Proofs about buildCatalog: the catalog is complete and holds nothing    *)
(* secret, and each of its fields is found by its key, for every set of    *)
(* struct types of any size and nesting.                                   *)
(***************************************************************************)
EXTENDS CatalogUse, SequenceTheorems, FiniteSetTheorems, TLAPS

Path == Seq(Nat \ {0})

-----------------------------------------------------------------------------
\* Elements and lengths of the parts of a sequence.
LEMMA SeqParts ==
  ASSUME NEW S, NEW s \in Seq(S)
  PROVE  /\ Len(s) \in Nat
         /\ \A i \in 1..Len(s) : s[i] \in S
         /\ \A n \in 0..Len(s) : /\ SubSeq(s, 1, n) \in Seq(S)
                                 /\ Len(SubSeq(s, 1, n)) = n
                                 /\ \A i \in 1..n : SubSeq(s, 1, n)[i] = s[i]
         /\ \A e \in S : /\ Append(s, e) \in Seq(S)
                         /\ Len(Append(s, e)) = Len(s) + 1
                         /\ \A i \in 1..Len(s) : Append(s, e)[i] = s[i]
                         /\ Append(s, e)[Len(s) + 1] = e
<1>1. ASSUME NEW n \in 0..Len(s)
      PROVE  /\ SubSeq(s, 1, n) \in Seq(S)
             /\ Len(SubSeq(s, 1, n)) = n
             /\ \A i \in 1..n : SubSeq(s, 1, n)[i] = s[i]
  <2>1. n \in Int /\ \A i \in 1..n : s[i] \in S
    OBVIOUS
  <2>2. /\ SubSeq(s, 1, n) \in Seq(S)
        /\ Len(SubSeq(s, 1, n)) = IF 1 <= n THEN n - 1 + 1 ELSE 0
        /\ \A i \in 1..(n - 1 + 1) : SubSeq(s, 1, n)[i] = s[1 + i - 1]
    BY <2>1, SubSeqProperties
  <2> QED
    BY <2>2
<1> QED
  BY <1>1

\* All but the last element, and the last.
LEMMA FrontLast ==
  ASSUME NEW S, NEW s \in Seq(S), s # << >>
  PROVE  /\ Len(s) \in Nat \ {0}
         /\ Front(s) \in Seq(S)
         /\ Len(Front(s)) = Len(s) - 1
         /\ \A i \in 1..(Len(s) - 1) : Front(s)[i] = s[i]
         /\ Last(s) = s[Len(s)] /\ Last(s) \in S
<1>1. Len(s) \in Nat \ {0}
  BY EmptySeq
<1>2. Len(s) - 1 \in 0..Len(s) /\ Len(s) \in 1..Len(s)
  BY <1>1
<1>3. /\ \A n \in 0..Len(s) : /\ SubSeq(s, 1, n) \in Seq(S)
                              /\ Len(SubSeq(s, 1, n)) = n
                              /\ \A i \in 1..n : SubSeq(s, 1, n)[i] = s[i]
      /\ \A i \in 1..Len(s) : s[i] \in S
  BY SeqParts
<1>4. /\ SubSeq(s, 1, Len(s) - 1) \in Seq(S)
      /\ Len(SubSeq(s, 1, Len(s) - 1)) = Len(s) - 1
      /\ \A i \in 1..(Len(s) - 1) : SubSeq(s, 1, Len(s) - 1)[i] = s[i]
  BY <1>2, <1>3
<1> QED
  BY <1>1, <1>2, <1>3, <1>4 DEF Front, Last

(***************************************************************************)
(* A non-empty set of indices has a least element: of the finite sets      *)
(* {z \in G : z <= y} one is minimal under inclusion.                      *)
(***************************************************************************)
LEMMA LeastIndex ==
  ASSUME NEW n \in Nat, NEW G \in SUBSET (0..n), G # {}
  PROVE  \E m \in G : \A z \in G : m <= z
<1> DEFINE To(y) == {z \in G : z <= y}
           F == {To(y) : y \in G}
<1>1. PICK X \in F : \A Y \in F : ~(Y \subseteq X /\ Y # X)
  <2>1. IsFiniteSet(G)
    <3>1. IsFiniteSet(0..n)
      BY FS_Interval
    <3> QED
      BY <3>1, FS_Subset
  <2>2. (\A X \in F : X \subseteq G) /\ F # {}
    OBVIOUS
  <2> HIDE DEF F
  <2>3. F \subseteq FiniteSubsetsOf(G)
    BY <2>1, <2>2, FS_FiniteSubsetsOfFinite
  <2>4. IsWellFoundedOn(StrictSubsetOrdering(G), FiniteSubsetsOf(G))
    BY FS_StrictSubsetOrderingWellFounded
  <2>5. PICK X \in F : \A Y \in F : ~(<<Y, X>> \in StrictSubsetOrdering(G))
    BY <2>2, <2>3, <2>4, WFMin
  <2> QED
    BY <2>2, <2>5 DEF StrictSubsetOrdering
<1>2. PICK m \in G : X = To(m)
  OBVIOUS
<1>3. ASSUME NEW z \in G, ~(m <= z) PROVE FALSE
  <2>1. z < m /\ z \in Int /\ m \in Int /\ \A y \in G : y \in Int
    BY <1>3
  <2>2. (\A y \in To(z) : y \in To(m)) /\ m \in To(m) /\ m \notin To(z)
    BY <2>1
  <2>3. To(z) \in F /\ To(z) \subseteq X /\ To(z) # X
    BY <1>2, <2>2
  <2> QED
    BY <1>1, <2>3
<1> QED
  BY <1>3

\* Two paths are equal if they have the same indices.
LEMMA PathEqual ==
  ASSUME NEW p \in Path, NEW q \in Path, Len(p) = Len(q),
         \A i \in 1..Len(p) : p[i] = q[i]
  PROVE  p = q
BY SeqEqual DEF Path

\* The indices of a path are positive.
LEMMA PathLen ==
  ASSUME NEW p \in Path
  PROVE  /\ Len(p) \in Nat
         /\ \A i \in 1..Len(p) : p[i] \in Nat \ {0}
         /\ p # << >> => Len(p) > 0
         /\ p = << >> => Len(p) = 0
BY EmptySeq, SeqParts DEF Path

\* The path of a struct around a field.
LEMMA PathPart ==
  ASSUME NEW p \in Path, NEW n \in 0..Len(p)
  PROVE  /\ SubSeq(p, 1, n) \in Path
         /\ Len(SubSeq(p, 1, n)) = n
         /\ \A i \in 1..n : SubSeq(p, 1, n)[i] = p[i]
BY SeqParts DEF Path

\* Paths that agree up to n have the same parts up to n.
LEMMA PartsAgree ==
  ASSUME NEW a \in Path, NEW c \in Path, NEW n \in Nat, n <= Len(a), n <= Len(c),
         \A i \in 1..n : a[i] = c[i]
  PROVE  SubSeq(a, 1, n) = SubSeq(c, 1, n)
<1> DEFINE u == SubSeq(a, 1, n)
           v == SubSeq(c, 1, n)
<1>1. n \in 0..Len(a) /\ n \in 0..Len(c)
  BY PathLen
<1>2. /\ u \in Path /\ Len(u) = n /\ \A i \in 1..n : u[i] = a[i]
      /\ v \in Path /\ Len(v) = n /\ \A i \in 1..n : v[i] = c[i]
  BY <1>1, PathPart
<1> HIDE DEF u, v
<1>3. u = v
  BY <1>2, PathEqual
<1> QED
  BY <1>3 DEF u, v

\* The path of a field of a struct.
LEMMA PathAppend ==
  ASSUME NEW p \in Path, NEW e \in Nat \ {0}
  PROVE  /\ Append(p, e) \in Path
         /\ Len(Append(p, e)) = Len(p) + 1
         /\ \A i \in 1..Len(p) : Append(p, e)[i] = p[i]
         /\ Append(p, e)[Len(p) + 1] = e
BY SeqParts DEF Path

\* The path of the struct that holds a field, and the field's index in it.
LEMMA PathFront ==
  ASSUME NEW p \in Path, p # << >>
  PROVE  /\ Len(p) \in Nat \ {0}
         /\ Front(p) \in Path
         /\ Len(Front(p)) = Len(p) - 1
         /\ \A i \in 1..(Len(p) - 1) : Front(p)[i] = p[i]
         /\ Last(p) = p[Len(p)] /\ Last(p) \in Nat \ {0}
<1> DEFINE S == Nat \ {0}
<1>1. p \in Seq(S)
  BY DEF Path
<1> HIDE DEF S
<1>2. /\ Len(p) \in Nat \ {0} /\ Front(p) \in Seq(S) /\ Len(Front(p)) = Len(p) - 1
      /\ \A i \in 1..(Len(p) - 1) : Front(p)[i] = p[i]
      /\ Last(p) = p[Len(p)] /\ Last(p) \in S
  BY <1>1, FrontLast
<1> QED
  BY <1>2 DEF S, Path

\* i++ changes the last index only.
LEMMA NextFieldIs ==
  ASSUME NEW p \in Path, p # << >>
  PROVE  /\ NextField(p) \in Path /\ NextField(p) # << >>
         /\ Len(NextField(p)) = Len(p)
         /\ \A i \in 1..(Len(p) - 1) : NextField(p)[i] = p[i]
         /\ NextField(p)[Len(p)] = p[Len(p)] + 1
         /\ Front(NextField(p)) = Front(p)
         /\ Last(NextField(p)) = Last(p) + 1
<1> DEFINE q == NextField(p)
<1>1. /\ Len(p) \in Nat \ {0} /\ Front(p) \in Path /\ Len(Front(p)) = Len(p) - 1
      /\ \A i \in 1..(Len(p) - 1) : Front(p)[i] = p[i]
      /\ Last(p) = p[Len(p)] /\ Last(p) \in Nat \ {0}
  BY PathFront
<1>2. Last(p) + 1 \in Nat \ {0}
  BY <1>1
<1>3. /\ q \in Path /\ Len(q) = Len(Front(p)) + 1
      /\ \A i \in 1..Len(Front(p)) : q[i] = Front(p)[i]
      /\ q[Len(Front(p)) + 1] = Last(p) + 1
  BY <1>1, <1>2, PathAppend DEF NextField
<1> HIDE DEF q
<1>4. /\ Len(q) = Len(p) /\ (\A i \in 1..(Len(p) - 1) : q[i] = p[i])
      /\ q[Len(p)] = p[Len(p)] + 1
  BY <1>1, <1>3
<1>5. q # << >>
  BY <1>1, <1>3, <1>4, PathLen
<1>6. /\ Front(q) \in Path /\ Len(Front(q)) = Len(q) - 1
      /\ \A i \in 1..(Len(q) - 1) : Front(q)[i] = q[i]
      /\ Last(q) = q[Len(q)]
  BY <1>3, <1>5, PathFront
<1>7. Front(q) = Front(p)
  <2>1. Len(Front(q)) = Len(Front(p)) /\ \A i \in 1..Len(Front(q)) : Front(q)[i] = Front(p)[i]
    BY <1>1, <1>4, <1>6
  <2> QED
    BY <2>1, <1>1, <1>6, PathEqual
<1> QED
  BY <1>1, <1>3, <1>4, <1>5, <1>6, <1>7 DEF q

-----------------------------------------------------------------------------
(***************************************************************************)
(* The order in which walkStruct looks at the fields: p comes before c if  *)
(* it is a struct around c, or the first index that differs is smaller.    *)
(***************************************************************************)
Around(p, c) == Len(p) < Len(c) /\ \A m \in 1..Len(p) : p[m] = c[m]

LeftOf(p, c) ==
  \E n \in 1..Len(p) :
    /\ n <= Len(c)
    /\ \A m \in 1..(n - 1) : p[m] = c[m]
    /\ p[n] < c[n]

Before(p, c) == Around(p, c) \/ LeftOf(p, c)

\* A field does not come before itself.
LEMMA BeforeIrreflexive ==
  ASSUME NEW p \in Path
  PROVE  ~Before(p, p)
<1>1. Len(p) \in Nat /\ \A n \in 1..Len(p) : p[n] \in Nat
  BY PathLen
<1> QED
  BY <1>1 DEF Before, Around, LeftOf

\* Entering the struct c passes c and nothing else.
LEMMA BeforeEnter ==
  ASSUME NEW p \in Path, NEW c \in Path
  PROVE  /\ Before(p, c) \/ p = c => Before(p, Append(c, 1))
         /\ Before(p, Append(c, 1)) => Before(p, c) \/ p = c
<1> DEFINE a == Append(c, 1)
<1>1. /\ Len(p) \in Nat /\ Len(c) \in Nat /\ Len(a) = Len(c) + 1
      /\ \A i \in 1..Len(c) : a[i] = c[i]
      /\ a[Len(c) + 1] = 1
      /\ \A i \in 1..Len(p) : p[i] \in Nat \ {0}
  <2>1. 1 \in Nat \ {0}
    OBVIOUS
  <2> QED
    BY <2>1, PathLen, PathAppend
<1> HIDE DEF a
<1>2. ASSUME Around(p, a) PROVE Around(p, c) \/ p = c
  <2>1. CASE Len(p) < Len(c)
    BY <1>1, <1>2, <2>1 DEF Around
  <2>2. CASE Len(p) = Len(c)
    <3>1. \A i \in 1..Len(p) : p[i] = c[i]
      BY <1>1, <1>2, <2>2 DEF Around
    <3> QED
      BY <2>2, <3>1, PathEqual
  <2> QED
    BY <1>1, <1>2, <2>1, <2>2 DEF Around
<1>3. ASSUME LeftOf(p, a) PROVE LeftOf(p, c)
  <2>1. PICK n \in 1..Len(p) : /\ n <= Len(a) /\ p[n] < a[n]
                               /\ \A m \in 1..(n - 1) : p[m] = a[m]
    BY <1>3 DEF LeftOf
  <2>2. n # Len(c) + 1
    BY <1>1, <2>1
  <2>3. n \in 1..Len(c)
    BY <1>1, <2>1, <2>2
  <2> QED
    BY <1>1, <2>1, <2>3 DEF LeftOf
<1>4. ASSUME Before(p, c) \/ p = c PROVE Before(p, a)
  <2>1. CASE Around(p, c) \/ p = c
    BY <1>1, <2>1 DEF Before, Around
  <2>2. CASE LeftOf(p, c)
    <3>1. PICK n \in 1..Len(p) : /\ n <= Len(c) /\ p[n] < c[n]
                                 /\ \A m \in 1..(n - 1) : p[m] = c[m]
      BY <2>2 DEF LeftOf
    <3>2. n <= Len(a) /\ p[n] < a[n] /\ \A m \in 1..(n - 1) : p[m] = a[m]
      BY <1>1, <3>1
    <3> QED
      BY <3>2 DEF Before, LeftOf
  <2> QED
    BY <1>4, <2>1, <2>2 DEF Before
<1> QED
  BY <1>2, <1>3, <1>4 DEF Before, a

\* Going to the next field passes c and all that it contains.
LEMMA BeforeNext ==
  ASSUME NEW p \in Path, NEW c \in Path, c # << >>
  PROVE  /\ Before(p, c) \/ p = c => Before(p, NextField(c))
         /\ Before(p, NextField(c)) => Before(p, c) \/ p = c \/ Around(c, p)
<1> DEFINE a == NextField(c)
<1>1. /\ Len(p) \in Nat /\ Len(c) \in Nat \ {0} /\ Len(a) = Len(c)
      /\ \A i \in 1..(Len(c) - 1) : a[i] = c[i]
      /\ a[Len(c)] = c[Len(c)] + 1
      /\ \A i \in 1..Len(p) : p[i] \in Nat \ {0}
      /\ \A i \in 1..Len(c) : c[i] \in Nat \ {0}
  BY PathLen, NextFieldIs
<1> HIDE DEF a
<1>2. ASSUME Around(p, a) PROVE Around(p, c)
  BY <1>1, <1>2 DEF Around
<1>3. ASSUME LeftOf(p, a) PROVE LeftOf(p, c) \/ p = c \/ Around(c, p)
  <2>1. PICK n \in 1..Len(p) : /\ n <= Len(a) /\ p[n] < a[n]
                               /\ \A m \in 1..(n - 1) : p[m] = a[m]
    BY <1>3 DEF LeftOf
  <2>2. CASE n < Len(c) \/ p[n] < c[n]
    <3>1. n <= Len(c) /\ p[n] < c[n] /\ \A m \in 1..(n - 1) : p[m] = c[m]
      BY <1>1, <2>1, <2>2
    <3> QED
      BY <3>1 DEF LeftOf
  <2>3. CASE n = Len(c) /\ p[n] = c[n]
    <3>1. \A i \in 1..Len(c) : p[i] = c[i]
      <4> TAKE i \in 1..Len(c)
      <4>1. CASE i = Len(c)
        BY <2>3, <4>1
      <4>2. CASE i \in 1..(Len(c) - 1)
        BY <1>1, <2>1, <2>3, <4>2
      <4> QED
        BY <1>1, <4>1, <4>2
    <3>2. CASE Len(p) = Len(c)
      BY <3>1, <3>2, PathEqual
    <3>3. CASE Len(c) < Len(p)
      BY <3>1, <3>3 DEF Around
    <3> QED
      BY <1>1, <2>1, <2>3, <3>2, <3>3
  <2> QED
    BY <1>1, <2>1, <2>2, <2>3
<1>4. ASSUME Before(p, c) \/ p = c PROVE Before(p, a)
  <2>1. CASE Around(p, c)
    BY <1>1, <2>1 DEF Before, Around
  <2>2. CASE LeftOf(p, c)
    <3>1. PICK n \in 1..Len(p) : /\ n <= Len(c) /\ p[n] < c[n]
                                 /\ \A m \in 1..(n - 1) : p[m] = c[m]
      BY <2>2 DEF LeftOf
    <3>2. p[n] < a[n]
      <4>1. CASE n = Len(c)
        BY <1>1, <3>1, <4>1
      <4>2. CASE n \in 1..(Len(c) - 1)
        BY <1>1, <3>1, <4>2
      <4> QED
        BY <1>1, <3>1, <4>1, <4>2
    <3>3. n <= Len(a) /\ \A m \in 1..(n - 1) : p[m] = a[m]
      BY <1>1, <3>1
    <3> QED
      BY <3>2, <3>3 DEF Before, LeftOf
  <2>3. CASE p = c
    <3>1. /\ Len(p) \in 1..Len(p) /\ Len(p) <= Len(a) /\ p[Len(p)] < a[Len(p)]
          /\ \A m \in 1..(Len(p) - 1) : p[m] = a[m]
      BY <1>1, <2>3
    <3> QED
      BY <3>1 DEF Before, LeftOf
  <2> QED
    BY <1>4, <2>1, <2>2, <2>3 DEF Before
<1> QED
  BY <1>2, <1>3, <1>4 DEF Before, a

-----------------------------------------------------------------------------
\* What is assumed of a struct type.
LEMMA TypeFacts ==
  ASSUME type \in Types
  PROVE  /\ \A p \in Paths : p \in Path /\ p # << >> /\ type[p] \in Field
         /\ \A p \in Paths : \A n \in 1..(Len(p) - 1) :
              SubSeq(p, 1, n) \in Paths /\ IsStruct(type[SubSeq(p, 1, n)])
         /\ \A p \in Paths : \A i \in 1..Last(p) : Append(Front(p), i) \in Paths
BY CatalogAssumption DEF IsType, Paths, Path

\* A struct around p is a part of p's path.
LEMMA AroundIsPart ==
  ASSUME NEW p \in Path, NEW q \in Path, q # << >>, Around(q, p)
  PROVE  Len(q) \in 1..(Len(p) - 1) /\ SubSeq(p, 1, Len(q)) = q
<1>1. Len(p) \in Nat /\ Len(q) \in Nat \ {0} /\ Len(q) < Len(p)
  BY PathLen DEF Around
<1>2. Len(q) \in 0..Len(p)
  BY <1>1
<1>3. /\ SubSeq(p, 1, Len(q)) \in Path /\ Len(SubSeq(p, 1, Len(q))) = Len(q)
      /\ \A i \in 1..Len(q) : SubSeq(p, 1, Len(q))[i] = p[i]
  BY <1>2, PathPart
<1>4. SubSeq(p, 1, Len(q)) = q
  <2> DEFINE r == SubSeq(p, 1, Len(q))
  <2>1. r \in Path /\ Len(r) = Len(q) /\ \A i \in 1..Len(q) : r[i] = q[i]
    BY <1>3 DEF Around
  <2> HIDE DEF r
  <2>2. r = q
    BY <2>1, PathEqual
  <2> QED
    BY <2>2 DEF r
<1> QED
  BY <1>1, <1>4

\* A path of the type that agrees with a missing one up to its last index.
LEMMA MissingIsRight ==
  ASSUME type \in Types, NEW c \in Path, c # << >>, c \notin Paths, NEW p \in Paths,
         Len(c) <= Len(p), \A i \in 1..(Len(c) - 1) : p[i] = c[i]
  PROVE  Before(p, c)
<1> DEFINE n == Len(c)
           q == SubSeq(p, 1, n)
<1>1. /\ p \in Path /\ n \in Nat \ {0} /\ Len(p) \in Nat
      /\ (\A i \in 1..Len(p) : p[i] \in Nat \ {0})
      /\ \A i \in 1..n : c[i] \in Nat \ {0}
  BY TypeFacts, PathLen
<1>2. q \in Path /\ Len(q) = n /\ \A i \in 1..n : q[i] = p[i]
  <2>1. n \in 0..Len(p)
    BY <1>1
  <2> QED
    BY <1>1, <2>1, PathPart
<1>3. q \in Paths
  <2>1. CASE n = Len(p)
    BY <1>1, <2>1, SubSeqFull DEF Path
  <2>2. CASE n \in 1..(Len(p) - 1)
    BY <2>2, TypeFacts
  <2> QED
    BY <1>1, <2>1, <2>2
<1>4. q # << >>
  BY <1>1, <1>2, PathLen
<1>5. /\ Front(q) \in Path /\ Len(Front(q)) = n - 1
      /\ \A i \in 1..(n - 1) : Front(q)[i] = q[i]
      /\ Last(q) = q[n]
  <2> HIDE DEF q
  <2> QED
    BY <1>2, <1>4, PathFront
<1>6. p[n] < c[n]
  <2> SUFFICES ASSUME ~(p[n] < c[n]) PROVE FALSE
    OBVIOUS
  <2>1. n \in 1..n /\ n \in 1..Len(p)
    BY <1>1
  <2>2. c[n] \in 1..p[n] /\ c[n] \in Nat \ {0} /\ Last(q) = p[n]
    BY <1>1, <1>2, <1>5, <2>1
  <2>3. Append(Front(q), c[n]) \in Paths
    BY <1>3, <2>2, TypeFacts
  <2> DEFINE a == Append(Front(q), c[n])
  <2>4. /\ a \in Path /\ Len(a) = n /\ a[n] = c[n]
        /\ \A i \in 1..(n - 1) : a[i] = Front(q)[i]
    <3>1. /\ a \in Path /\ Len(a) = Len(Front(q)) + 1
          /\ \A i \in 1..Len(Front(q)) : a[i] = Front(q)[i]
          /\ a[Len(Front(q)) + 1] = c[n]
      BY <1>5, <2>2, PathAppend
    <3> QED
      BY <1>1, <1>5, <3>1
  <2>5. a = c
    <3> HIDE DEF a, q
    <3>1. \A i \in 1..n : a[i] = c[i]
      <4> TAKE i \in 1..n
      <4>1. CASE i = n
        BY <2>4, <4>1
      <4>2. CASE i \in 1..(n - 1)
        BY <1>1, <1>2, <1>5, <2>4, <4>2
      <4> QED
        BY <1>1, <4>1, <4>2
    <3> QED
      BY <2>4, <3>1, PathEqual
  <2> QED
    BY <2>3, <2>5
<1>7. n \in 1..Len(p) /\ n <= Len(c) /\ \A m \in 1..(n - 1) : p[m] = c[m]
  BY <1>1
<1> QED
  BY <1>6, <1>7 DEF Before, LeftOf

\* After the last field of a struct the struct has been passed.
LEMMA BeforeReturn ==
  ASSUME type \in Types, NEW c \in Path, Len(c) > 1, c \notin Paths, NEW p \in Paths
  PROVE  /\ Front(c) \in Path /\ Front(c) # << >>
         /\ Before(p, c) <=> Before(p, NextField(Front(c)))
<1> DEFINE f == Front(c)
<1>1. /\ c # << >> /\ p \in Path /\ Len(c) \in Nat /\ Len(p) \in Nat
      /\ \A i \in 1..Len(p) : p[i] \in Nat \ {0}
      /\ \A i \in 1..Len(c) : c[i] \in Nat \ {0}
  BY TypeFacts, PathLen
<1>2. f \in Path /\ Len(f) = Len(c) - 1 /\ \A i \in 1..(Len(c) - 1) : f[i] = c[i]
  BY <1>1, PathFront
<1>3. f # << >>
  BY <1>1, <1>2, PathLen
<1> HIDE DEF f
<1>4. ASSUME Before(p, NextField(f)) PROVE Before(p, c)
  <2>1. Before(p, f) \/ p = f \/ Around(f, p)
    BY <1>1, <1>2, <1>3, <1>4, BeforeNext
  <2>2. CASE Around(p, f) \/ p = f
    BY <1>1, <1>2, <2>2 DEF Before, Around
  <2>3. CASE LeftOf(p, f)
    <3>1. PICK n \in 1..Len(p) : /\ n <= Len(f) /\ p[n] < f[n]
                                 /\ \A m \in 1..(n - 1) : p[m] = f[m]
      BY <2>3 DEF LeftOf
    <3>2. n <= Len(c) /\ p[n] < c[n] /\ \A m \in 1..(n - 1) : p[m] = c[m]
      BY <1>1, <1>2, <3>1
    <3> QED
      BY <3>2 DEF Before, LeftOf
  <2>4. CASE Around(f, p)
    <3>1. Len(c) <= Len(p) /\ \A i \in 1..(Len(c) - 1) : p[i] = c[i]
      BY <1>1, <1>2, <2>4 DEF Around
    <3> QED
      BY <1>1, <3>1, MissingIsRight
  <2> QED
    BY <2>1, <2>2, <2>3, <2>4 DEF Before
<1>5. ASSUME Before(p, c) PROVE Before(p, NextField(f))
  <2> DEFINE g == NextField(f)
  <2>1. /\ Len(g) = Len(c) - 1 /\ g[Len(c) - 1] = c[Len(c) - 1] + 1
        /\ \A i \in 1..(Len(c) - 2) : g[i] = c[i]
    <3>1. /\ Len(g) = Len(f) /\ (\A i \in 1..(Len(f) - 1) : g[i] = f[i])
          /\ g[Len(f)] = f[Len(f)] + 1
      BY <1>2, <1>3, NextFieldIs
    <3>2. Len(f) \in 1..(Len(c) - 1)
      BY <1>1, <1>2
    <3> HIDE DEF g
    <3>3. g[Len(c) - 1] = c[Len(c) - 1] + 1
      BY <1>1, <1>2, <3>1, <3>2
    <3> QED
      BY <1>1, <1>2, <3>1, <3>3
  <2> HIDE DEF g
  <2>2. CASE Before(p, f) \/ p = f
    BY <1>1, <1>2, <1>3, <2>2, BeforeNext DEF g
  <2>3. CASE Around(p, c)
    <3>1. CASE Len(p) < Len(f)
      BY <1>1, <1>2, <2>2, <2>3, <3>1 DEF Around, Before
    <3>2. CASE Len(p) = Len(f)
      <4>1. \A i \in 1..Len(p) : p[i] = f[i]
        BY <1>1, <1>2, <2>3, <3>2 DEF Around
      <4> QED
        BY <1>1, <1>2, <2>2, <3>2, <4>1, PathEqual
    <3> QED
      BY <1>1, <1>2, <2>3, <3>1, <3>2 DEF Around
  <2>4. CASE LeftOf(p, c)
    <3>1. PICK n \in 1..Len(p) : /\ n <= Len(c) /\ p[n] < c[n]
                                 /\ \A m \in 1..(n - 1) : p[m] = c[m]
      BY <2>4 DEF LeftOf
    <3>2. CASE n < Len(c)
      <4>1. n <= Len(f) /\ p[n] < f[n] /\ \A m \in 1..(n - 1) : p[m] = f[m]
        BY <1>1, <1>2, <3>1, <3>2
      <4> QED
        BY <2>2, <4>1 DEF Before, LeftOf
    <3>3. CASE n = Len(c)
      <4> DEFINE k == Len(c) - 1
      <4>1. /\ k \in 1..Len(p) /\ k <= Len(g) /\ p[k] = c[k]
            /\ \A m \in 1..(k - 1) : p[m] = c[m] /\ c[m] = g[m]
        BY <1>1, <2>1, <3>1, <3>3
      <4>2. p[k] < g[k]
        BY <1>1, <2>1, <4>1
      <4>3. \A m \in 1..(k - 1) : p[m] = g[m]
        BY <4>1
      <4> QED
        BY <4>1, <4>2, <4>3 DEF Before, LeftOf, g
    <3> QED
      BY <1>1, <3>1, <3>2, <3>3
  <2> QED
    BY <1>5, <2>3, <2>4 DEF Before, g
<1> QED
  BY <1>2, <1>3, <1>4, <1>5 DEF f

\* After the last field of T every field has been passed.
LEMMA BeforeEnd ==
  ASSUME type \in Types, NEW c \in Path, Len(c) = 1, c \notin Paths, NEW p \in Paths
  PROVE  Before(p, c)
<1>1. c # << >> /\ p \in Path /\ Len(p) \in Nat \ {0}
  BY TypeFacts, PathLen
<1>2. Len(c) <= Len(p) /\ \A i \in 1..(Len(c) - 1) : p[i] = c[i]
  BY <1>1
<1> QED
  BY <1>1, <1>2, MissingIsRight

-----------------------------------------------------------------------------
(***************************************************************************)
(* The inductive invariant of the walk.                                    *)
(***************************************************************************)
Descriptors == [key : Seq(STRING), path : Path, kind : STRING, ptr : BOOLEAN,
                strategy : STRING]

\* The walk has come past the field p.
Passed(p) == cursor = << >> \/ Before(p, cursor)

\* The fields that the catalog is to have.
Listed(p) == p \in LeafPaths /\ Exposed(p) /\ type[p].dyn \in DynamicTags

WalkTypes ==
  /\ type \in Types
  /\ cursor \in Path
  /\ prefixes \in Seq(Seq(STRING))
  /\ cursor # << >> => Len(prefixes) = Len(cursor)
  /\ catalog \in Seq(Descriptors)
  /\ failed \in BOOLEAN

\* walkStruct is in structs it walks, one in the other.
InWalked ==
  \A n \in 1..(Len(cursor) - 1) :
    LET q == SubSeq(cursor, 1, n)
    IN  q \in Paths /\ IsStruct(type[q]) /\ Walks(type[q])

\* A descriptor describes a field that has been passed.
Describes(d) ==
  /\ Listed(d.path) /\ Passed(d.path)
  /\ d.kind = type[d.path].kind /\ d.ptr = type[d.path].ptr

\* What has been collected: no field twice.
CollectedOK ==
  /\ \A i \in 1..Len(catalog) : Describes(catalog[i])
  /\ \A i, j \in 1..Len(catalog) : catalog[i].path = catalog[j].path => i = j

\* No field that has been passed was overlooked.
NoneMissed ==
  /\ failed => /\ cursor = << >>
               /\ \E p \in Paths : Exposed(p) /\ Refused(type[p])
  /\ ~failed => \A p \in Paths : Passed(p) /\ Exposed(p) =>
       /\ ~Refused(type[p])
       /\ Listed(p) => \E i \in 1..Len(catalog) : catalog[i].path = p

WalkInv == WalkTypes /\ InWalked /\ CollectedOK /\ NoneMissed

\* Names without dots, different for the fields of a struct.
PlainNames ==
  LET shown == {p \in Paths : Visible(type[p])} IN
  /\ \A p \in shown : Len(type[p].name) = 1
  /\ \A p, q \in shown : Siblings(p, q) => type[p].name # type[q].name

\* The names on the way to a field.
NameParts(p) == [n \in 1..Len(p) |-> type[SubSeq(p, 1, n)].name[1]]

\* Prefixes and keys are the names on the way.
KeysOK ==
  PlainNames =>
    /\ cursor # << >> => \A n \in 1..Len(cursor) :
                           prefixes[n] = NameParts(SubSeq(cursor, 1, n - 1))
    /\ \A i \in 1..Len(catalog) : catalog[i].key = NameParts(catalog[i].path)

\* The type never changes, nor what is said of its fields.
LEMMA SameType ==
  ASSUME type' = type
  PROVE  /\ Paths' = Paths /\ LeafPaths' = LeafPaths /\ PtrPaths' = PtrPaths
         /\ \A p : (Exposed(p)' <=> Exposed(p)) /\ (Listed(p)' <=> Listed(p))
         /\ \A p : NameParts(p)' = NameParts(p)
         /\ PlainNames' <=> PlainNames
<1>1. Paths' = Paths /\ LeafPaths' = LeafPaths /\ PtrPaths' = PtrPaths
  BY DEF Paths, LeafPaths, PtrPaths
<1>2. \A p : Exposed(p)' <=> Exposed(p)
  BY DEF Exposed
<1>3. \A p : NameParts(p)' = NameParts(p)
  BY DEF NameParts
<1>4. PlainNames' <=> PlainNames
  BY <1>1 DEF PlainNames
<1> QED
  BY <1>1, <1>2, <1>3, <1>4 DEF Listed

\* The field under the cursor is exposed if it is visible.
LEMMA CursorExposed ==
  ASSUME WalkTypes, InWalked, cursor \in Paths, Visible(type[cursor])
  PROVE  Exposed(cursor)
BY DEF InWalked, Exposed, Walks, LeftOut

\* Of the fields in a leaf, a hidden field or a secret section none is exposed.
LEMMA NothingInside ==
  ASSUME WalkTypes, cursor \in Paths, ~IsStruct(type[cursor]) \/ ~Walks(type[cursor]),
         ~Visible(type[cursor]) \/ ~Refused(type[cursor]),
         NEW p \in Paths, Around(cursor, p)
  PROVE  ~Exposed(p)
<1>1. cursor # << >> /\ cursor \in Path /\ p \in Path
  BY TypeFacts DEF WalkTypes
<1>2. Len(cursor) \in 1..(Len(p) - 1) /\ SubSeq(p, 1, Len(cursor)) = cursor
  BY <1>1, AroundIsPart
<1>3. IsStruct(type[cursor])
  BY <1>2, TypeFacts DEF WalkTypes
<1>4. ~Visible(type[cursor]) \/ type[cursor].dyn = "secret"
  BY <1>3 DEF Walks, LeftOut
<1> QED
  BY <1>2, <1>4 DEF Exposed

\* The walk starts before all fields.
LEMMA WalkInitOK ==
  ASSUME WalkInit PROVE WalkInv
<1>1. /\ cursor = <<1>> /\ cursor \in Path /\ Len(cursor) = 1 /\ cursor[1] = 1
      /\ prefixes \in Seq(Seq(STRING)) /\ Len(prefixes) = 1 /\ cursor # << >>
  BY DEF WalkInit, Path
<1>2. catalog = << >> /\ Len(catalog) = 0 /\ catalog \in Seq(Descriptors) /\ failed = FALSE
  BY DEF WalkInit
<1>3. WalkTypes
  BY <1>1, <1>2 DEF WalkInit, WalkTypes
<1>4. \A p \in Paths : ~Passed(p)
  <2> SUFFICES ASSUME NEW p \in Paths PROVE ~Passed(p)
    OBVIOUS
  <2>1. p \in Path /\ Len(p) \in Nat \ {0} /\ \A i \in 1..Len(p) : p[i] \in Nat \ {0}
    BY <1>3, TypeFacts, PathLen DEF WalkTypes
  <2>2. ~Around(p, cursor)
    BY <1>1, <2>1 DEF Around
  <2>3. ~LeftOf(p, cursor)
    BY <1>1, <2>1 DEF LeftOf
  <2> QED
    BY <1>1, <2>2, <2>3 DEF Passed, Before
<1> QED
  BY <1>1, <1>2, <1>3, <1>4 DEF WalkInv, InWalked, CollectedOK, NoneMissed

\* A step that collects nothing passes no field that is to be collected.
LEMMA PassOn ==
  ASSUME WalkInv, type' = type, catalog' = catalog, failed' = failed, ~failed,
         WalkTypes', InWalked',
         \A p \in Paths : Passed(p) => Passed(p)',
         \A p \in Paths : Passed(p)' /\ Exposed(p) =>
                            Passed(p) \/ (~Refused(type[p]) /\ ~Listed(p))
  PROVE  WalkInv'
<1>1. /\ Paths' = Paths /\ LeafPaths' = LeafPaths
      /\ \A p : (Exposed(p)' <=> Exposed(p)) /\ (Listed(p)' <=> Listed(p))
  BY SameType
<1>2. CollectedOK'
  <2>1. ASSUME NEW i \in 1..Len(catalog) PROVE Describes(catalog[i])'
    <3>1. Describes(catalog[i]) /\ catalog[i].path \in Paths
      BY DEF WalkInv, CollectedOK, Describes, Listed, LeafPaths
    <3>2. Passed(catalog[i].path)'
      BY <3>1 DEF Describes
    <3> QED
      BY <1>1, <3>1, <3>2 DEF Describes
  <2> QED
    BY <2>1 DEF WalkInv, CollectedOK
<1>3. NoneMissed'
  BY <1>1 DEF WalkInv, NoneMissed
<1> QED
  BY <1>2, <1>3 DEF WalkInv

\* The cursor on an actual field.
LEMMA OnField ==
  ASSUME WalkInv, cursor \in Paths
  PROVE  /\ cursor \in Path /\ cursor # << >> /\ ~failed
         /\ Len(cursor) \in Nat \ {0} /\ Len(prefixes) = Len(cursor)
         /\ prefixes # << >> /\ Last(prefixes) \in Seq(STRING)
         /\ Last(prefixes) = prefixes[Len(cursor)]
         /\ type[cursor] \in Field
<1>1. cursor \in Path /\ cursor # << >> /\ ~failed /\ type[cursor] \in Field
  BY TypeFacts DEF WalkInv, WalkTypes, NoneMissed
<1>2. Len(cursor) \in Nat \ {0} /\ Len(prefixes) = Len(cursor)
  BY <1>1, PathFront DEF WalkInv, WalkTypes
<1>3. prefixes # << >> /\ prefixes \in Seq(Seq(STRING))
  BY <1>2 DEF WalkInv, WalkTypes
<1>4. Last(prefixes) \in Seq(STRING) /\ Last(prefixes) = prefixes[Len(prefixes)]
  BY <1>3, FrontLast
<1> QED
  BY <1>1, <1>2, <1>3, <1>4

\* The parts of the next field's path that are structs are those of the field's.
LEMMA NextInWalked ==
  ASSUME NEW c \in Path, c # << >>
  PROVE  /\ NextField(c) \in Path /\ NextField(c) # << >>
         /\ Len(NextField(c)) = Len(c)
         /\ \A n \in 0..(Len(c) - 1) : SubSeq(NextField(c), 1, n) = SubSeq(c, 1, n)
<1> DEFINE a == NextField(c)
<1>1. /\ a \in Path /\ a # << >> /\ Len(a) = Len(c) /\ Len(c) \in Nat \ {0}
      /\ \A i \in 1..(Len(c) - 1) : a[i] = c[i]
  BY NextFieldIs, PathFront
<1> HIDE DEF a
<1>2. ASSUME NEW n \in 0..(Len(c) - 1) PROVE SubSeq(a, 1, n) = SubSeq(c, 1, n)
  <2>1. n \in Nat /\ n <= Len(a) /\ n <= Len(c) /\ \A i \in 1..n : a[i] = c[i]
    BY <1>1
  <2> QED
    BY <1>1, <2>1, PartsAgree
<1> QED
  BY <1>1, <1>2 DEF a

\* The parts of the path of a struct's field are those of the struct, and it.
LEMMA EnterParts ==
  ASSUME NEW c \in Path, c # << >>, NEW e \in Nat \ {0}
  PROVE  /\ Append(c, e) \in Path /\ Append(c, e) # << >>
         /\ Len(Append(c, e)) = Len(c) + 1
         /\ \A n \in 0..Len(c) : SubSeq(Append(c, e), 1, n) = SubSeq(c, 1, n)
         /\ SubSeq(c, 1, Len(c)) = c
<1> DEFINE a == Append(c, e)
<1>1. /\ a \in Path /\ Len(a) = Len(c) + 1 /\ Len(c) \in Nat \ {0}
      /\ \A i \in 1..Len(c) : a[i] = c[i]
  BY PathAppend, PathFront
<1> HIDE DEF a
<1>2. ASSUME NEW n \in 0..Len(c) PROVE SubSeq(a, 1, n) = SubSeq(c, 1, n)
  <2>1. n \in Nat /\ n <= Len(a) /\ n <= Len(c) /\ \A i \in 1..n : a[i] = c[i]
    BY <1>1
  <2> QED
    BY <1>1, <2>1, PartsAgree
<1>3. a # << >>
  BY <1>1, PathLen
<1>4. SubSeq(c, 1, Len(c)) = c
  BY SubSeqFull DEF Path
<1> QED
  BY <1>1, <1>2, <1>3, <1>4 DEF a

\* EnterStruct: the struct itself is passed, and is no leaf.
LEMMA EnterKeeps ==
  ASSUME WalkInv, EnterStruct PROVE WalkInv'
<1>1. /\ cursor \in Paths /\ Walks(type[cursor]) /\ IsStruct(type[cursor])
      /\ cursor' = Append(cursor, 1)
      /\ prefixes' = Append(prefixes, FullKey(Last(prefixes), type[cursor]))
      /\ type' = type /\ catalog' = catalog /\ failed' = failed
  BY DEF EnterStruct
<1>2. /\ cursor \in Path /\ cursor # << >> /\ ~failed /\ Len(cursor) \in Nat \ {0}
      /\ Len(prefixes) = Len(cursor) /\ Last(prefixes) \in Seq(STRING)
      /\ type[cursor] \in Field
  BY <1>1, OnField
<1>3. /\ cursor' \in Path /\ cursor' # << >> /\ Len(cursor') = Len(cursor) + 1
      /\ \A n \in 0..Len(cursor) : SubSeq(cursor', 1, n) = SubSeq(cursor, 1, n)
      /\ SubSeq(cursor, 1, Len(cursor)) = cursor
  <2>1. 1 \in Nat \ {0}
    OBVIOUS
  <2> QED
    BY <1>1, <1>2, <2>1, EnterParts
<1>4. prefixes' \in Seq(Seq(STRING)) /\ Len(prefixes') = Len(cursor')
  <2> DEFINE S == Seq(STRING)
             k == FullKey(Last(prefixes), type[cursor])
  <2>1. k \in S
    BY <1>2 DEF FullKey, Field
  <2>2. prefixes \in Seq(S)
    BY DEF WalkInv, WalkTypes
  <2> HIDE DEF S, k
  <2>3. Append(prefixes, k) \in Seq(S) /\ Len(Append(prefixes, k)) = Len(prefixes) + 1
    BY <2>1, <2>2, SeqParts
  <2> QED
    BY <1>1, <1>2, <1>3, <2>3 DEF S, k
<1>5. WalkTypes'
  BY <1>1, <1>3, <1>4 DEF WalkInv, WalkTypes
<1>6. InWalked'
  <2> SUFFICES ASSUME NEW n \in 1..(Len(cursor') - 1)
               PROVE  LET q == SubSeq(cursor', 1, n)
                      IN  q \in Paths /\ IsStruct(type[q]) /\ Walks(type[q])
    BY <1>1, SameType DEF InWalked
  <2>1. n \in 1..Len(cursor) /\ SubSeq(cursor', 1, n) = SubSeq(cursor, 1, n)
    BY <1>2, <1>3
  <2>2. CASE n = Len(cursor)
    BY <1>1, <1>3, <2>1, <2>2
  <2>3. CASE n \in 1..(Len(cursor) - 1)
    BY <2>1, <2>3 DEF WalkInv, InWalked
  <2> QED
    BY <1>2, <2>1, <2>2, <2>3
<1>7. ASSUME NEW p \in Paths
      PROVE  /\ Passed(p) => Passed(p)'
             /\ Passed(p)' => Passed(p) \/ p = cursor
  <2>1. p \in Path
    BY TypeFacts DEF WalkInv, WalkTypes
  <2> QED
    BY <1>1, <1>2, <1>3, <2>1, BeforeEnter DEF Passed
<1>8. ~Refused(type[cursor]) /\ ~Listed(cursor)
  BY <1>1 DEF Walks, Listed, LeafPaths
<1> QED
  BY <1>1, <1>2, <1>5, <1>6, <1>7, <1>8, PassOn

\* SkipField: neither the field nor anything in it is to be listed.
LEMMA SkipKeeps ==
  ASSUME WalkInv, SkipField PROVE WalkInv'
<1>1. /\ cursor \in Paths /\ (~Visible(type[cursor]) \/ ~Refused(type[cursor]))
      /\ (~Visible(type[cursor]) \/ LeftOut(type[cursor])) /\ ~Walks(type[cursor])
      /\ cursor' = NextField(cursor) /\ prefixes' = prefixes
      /\ type' = type /\ catalog' = catalog /\ failed' = failed
  BY DEF SkipField, Walks
<1>2. /\ cursor \in Path /\ cursor # << >> /\ ~failed /\ Len(cursor) \in Nat \ {0}
      /\ Len(prefixes) = Len(cursor)
  BY <1>1, OnField
<1>3. /\ cursor' \in Path /\ cursor' # << >> /\ Len(cursor') = Len(cursor)
      /\ \A n \in 0..(Len(cursor) - 1) : SubSeq(cursor', 1, n) = SubSeq(cursor, 1, n)
  BY <1>1, <1>2, NextInWalked
<1>4. WalkTypes'
  BY <1>1, <1>2, <1>3 DEF WalkInv, WalkTypes
<1>5. InWalked'
  <2> SUFFICES ASSUME NEW n \in 1..(Len(cursor') - 1)
               PROVE  LET q == SubSeq(cursor', 1, n)
                      IN  q \in Paths /\ IsStruct(type[q]) /\ Walks(type[q])
    BY <1>1, SameType DEF InWalked
  <2>1. n \in 1..(Len(cursor) - 1) /\ SubSeq(cursor', 1, n) = SubSeq(cursor, 1, n)
    BY <1>2, <1>3
  <2> QED
    BY <2>1 DEF WalkInv, InWalked
<1>6. ASSUME NEW p \in Paths
      PROVE  /\ Passed(p) => Passed(p)'
             /\ Passed(p)' => Passed(p) \/ p = cursor \/ Around(cursor, p)
  <2>1. p \in Path
    BY TypeFacts DEF WalkInv, WalkTypes
  <2> QED
    BY <1>1, <1>2, <1>3, <2>1, BeforeNext DEF Passed
<1>7. Exposed(cursor) => ~Refused(type[cursor]) /\ ~Listed(cursor)
  BY <1>1 DEF Exposed, Listed, LeafPaths, LeftOut
<1>8. ASSUME NEW p \in Paths, Around(cursor, p) PROVE ~Exposed(p)
  BY <1>1, <1>8, NothingInside DEF WalkInv
<1> QED
  BY <1>1, <1>2, <1>4, <1>5, <1>6, <1>7, <1>8, PassOn

\* ReturnFromStruct: no field of the struct, or of T, is left.
LEMMA ReturnKeeps ==
  ASSUME WalkInv, ReturnFromStruct PROVE WalkInv'
<1>1. /\ cursor # << >> /\ cursor \notin Paths /\ prefixes' = Front(prefixes)
      /\ cursor' = IF Len(cursor) = 1 THEN << >> ELSE NextField(Front(cursor))
      /\ type' = type /\ catalog' = catalog /\ failed' = failed
  BY DEF ReturnFromStruct
<1>2. /\ cursor \in Path /\ ~failed /\ Len(cursor) \in Nat \ {0} /\ type \in Types
      /\ Len(prefixes) = Len(cursor) /\ prefixes \in Seq(Seq(STRING))
      /\ Front(cursor) \in Path /\ Len(Front(cursor)) = Len(cursor) - 1
      /\ \A i \in 1..(Len(cursor) - 1) : Front(cursor)[i] = cursor[i]
  BY <1>1, PathFront DEF WalkInv, WalkTypes, NoneMissed
<1>3. prefixes' \in Seq(Seq(STRING)) /\ Len(prefixes') = Len(cursor) - 1
  <2>1. prefixes # << >>
    BY <1>2
  <2> QED
    BY <1>1, <1>2, <2>1, FrontLast
<1>4. CASE Len(cursor) = 1
  <2>1. cursor' = << >> /\ cursor' \in Path /\ Len(cursor') = 0
    BY <1>1, <1>4 DEF Path
  <2>2. WalkTypes' /\ InWalked'
    <3>1. 1..(Len(cursor') - 1) = {}
      BY <2>1
    <3>2. WalkTypes'
      BY <1>1, <1>2, <1>3, <2>1 DEF WalkInv, WalkTypes
    <3> QED
      BY <3>1, <3>2 DEF InWalked
  <2>3. ASSUME NEW p \in Paths PROVE Passed(p) /\ Passed(p)'
    BY <1>1, <1>2, <1>4, <2>1, BeforeEnd DEF Passed
  <2> QED
    BY <1>1, <1>2, <2>2, <2>3, PassOn
<1>5. CASE Len(cursor) > 1
  <2> DEFINE f == Front(cursor)
  <2>0. f # << >> /\ cursor' = NextField(f)
    <3>1. Len(f) > 0 /\ f \in Path
      BY <1>2, <1>5
    <3>2. cursor' = NextField(f)
      <4>1. Len(cursor) # 1
        BY <1>2, <1>5
      <4> QED
        BY <1>1, <4>1, Zenon
    <3> HIDE DEF f
    <3> QED
      BY <3>1, <3>2, PathLen
  <2>1. /\ cursor' \in Path /\ cursor' # << >> /\ Len(cursor') = Len(cursor) - 1
        /\ \A n \in 0..(Len(cursor) - 2) : SubSeq(cursor', 1, n) = SubSeq(f, 1, n)
    <3>1. f \in Path /\ Len(f) = Len(cursor) - 1
      BY <1>2
    <3> HIDE DEF f
    <3>2. /\ cursor' \in Path /\ cursor' # << >> /\ Len(cursor') = Len(f)
          /\ \A n \in 0..(Len(f) - 1) : SubSeq(cursor', 1, n) = SubSeq(f, 1, n)
      BY <2>0, <3>1, NextInWalked
    <3> QED
      BY <1>2, <3>1, <3>2
  <2>2. \A n \in 0..(Len(cursor) - 2) : SubSeq(f, 1, n) = SubSeq(cursor, 1, n)
    <3> SUFFICES ASSUME NEW n \in 0..(Len(cursor) - 2)
                 PROVE  SubSeq(f, 1, n) = SubSeq(cursor, 1, n)
      OBVIOUS
    <3>1. /\ f \in Path /\ n \in Nat /\ n <= Len(f) /\ n <= Len(cursor)
          /\ \A i \in 1..n : f[i] = cursor[i]
      BY <1>2
    <3> HIDE DEF f
    <3> QED
      BY <1>2, <3>1, PartsAgree
  <2>3. WalkTypes'
    BY <1>1, <1>2, <1>3, <2>1 DEF WalkInv, WalkTypes
  <2>4. InWalked'
    <3> SUFFICES ASSUME NEW n \in 1..(Len(cursor') - 1)
                 PROVE  LET q == SubSeq(cursor', 1, n)
                        IN  q \in Paths /\ IsStruct(type[q]) /\ Walks(type[q])
      BY <1>1, SameType DEF InWalked
    <3>1. n \in 1..(Len(cursor) - 1) /\ SubSeq(cursor', 1, n) = SubSeq(cursor, 1, n)
      BY <1>2, <2>1, <2>2
    <3> QED
      BY <3>1 DEF WalkInv, InWalked
  <2>5. ASSUME NEW p \in Paths PROVE Passed(p) <=> Passed(p)'
    BY <1>1, <1>2, <1>5, <2>0, <2>1, BeforeReturn DEF Passed
  <2> QED
    BY <1>1, <1>2, <2>3, <2>4, <2>5, PassOn
<1> QED
  BY <1>2, <1>4, <1>5

\* RefuseField: the field is exposed.
LEMMA RefuseKeeps ==
  ASSUME WalkInv, RefuseField PROVE WalkInv'
<1>1. /\ cursor \in Paths /\ Visible(type[cursor]) /\ Refused(type[cursor])
      /\ failed' = TRUE /\ cursor' = << >>
      /\ type' = type /\ prefixes' = prefixes /\ catalog' = catalog
  BY DEF RefuseField
<1>2. Exposed(cursor)
  BY <1>1, CursorExposed DEF WalkInv
<1>3. cursor' \in Path /\ 1..(Len(cursor') - 1) = {}
  BY <1>1 DEF Path
<1>4. WalkTypes' /\ InWalked'
  BY <1>1, <1>3 DEF WalkInv, WalkTypes, InWalked
<1>5. NoneMissed'
  BY <1>1, <1>2, SameType DEF NoneMissed
<1>6. CollectedOK'
  <2>1. ASSUME NEW i \in 1..Len(catalog) PROVE Describes(catalog[i])'
    <3>1. Describes(catalog[i])
      BY DEF WalkInv, CollectedOK
    <3> QED
      BY <1>1, <3>1, SameType DEF Describes, Passed
  <2> QED
    BY <1>1, <2>1 DEF WalkInv, CollectedOK
<1> QED
  BY <1>4, <1>5, <1>6 DEF WalkInv

\* CollectLeaf: the field is exposed, and comes after all that were collected.
LEMMA CollectKeeps ==
  ASSUME WalkInv, CollectLeaf PROVE WalkInv'
<1> DEFINE d == Descriptor(type[cursor], cursor, FullKey(Last(prefixes), type[cursor]))
<1>1. /\ cursor \in Paths /\ Walks(type[cursor]) /\ ~IsStruct(type[cursor])
      /\ catalog' = Append(catalog, d)
      /\ cursor' = NextField(cursor) /\ prefixes' = prefixes
      /\ type' = type /\ failed' = failed
  BY DEF CollectLeaf
<1>2. /\ cursor \in Path /\ cursor # << >> /\ ~failed /\ Len(cursor) \in Nat \ {0}
      /\ Len(prefixes) = Len(cursor) /\ Last(prefixes) \in Seq(STRING)
      /\ type[cursor] \in Field
  BY <1>1, OnField
<1>3. /\ cursor' \in Path /\ cursor' # << >> /\ Len(cursor') = Len(cursor)
      /\ \A n \in 0..(Len(cursor) - 1) : SubSeq(cursor', 1, n) = SubSeq(cursor, 1, n)
  BY <1>1, <1>2, NextInWalked
<1>4. Exposed(cursor) /\ Listed(cursor) /\ ~Refused(type[cursor])
  BY <1>1, CursorExposed DEF WalkInv, Walks, Listed, LeafPaths, LeftOut
<1>5. /\ d \in Descriptors /\ d.path = cursor
      /\ d.kind = type[cursor].kind /\ d.ptr = type[cursor].ptr
  <2>1. FullKey(Last(prefixes), type[cursor]) \in Seq(STRING)
    BY <1>2 DEF FullKey, Field
  <2> QED
    BY <1>2, <2>1 DEF Descriptor, Descriptors, Field
<1> HIDE DEF d
<1>6. /\ catalog' \in Seq(Descriptors) /\ Len(catalog') = Len(catalog) + 1
      /\ Len(catalog) \in Nat
      /\ \A i \in 1..Len(catalog) : catalog'[i] = catalog[i]
      /\ catalog'[Len(catalog) + 1] = d
  <2>1. catalog \in Seq(Descriptors)
    BY DEF WalkInv, WalkTypes
  <2> HIDE DEF d
  <2> QED
    BY <1>1, <1>5, <2>1, SeqParts
<1>7. WalkTypes'
  BY <1>1, <1>2, <1>3, <1>6 DEF WalkInv, WalkTypes
<1>8. InWalked'
  <2> SUFFICES ASSUME NEW n \in 1..(Len(cursor') - 1)
               PROVE  LET q == SubSeq(cursor', 1, n)
                      IN  q \in Paths /\ IsStruct(type[q]) /\ Walks(type[q])
    BY <1>1, SameType DEF InWalked
  <2>1. n \in 1..(Len(cursor) - 1) /\ SubSeq(cursor', 1, n) = SubSeq(cursor, 1, n)
    BY <1>2, <1>3
  <2> QED
    BY <2>1 DEF WalkInv, InWalked
<1>9. ASSUME NEW p \in Paths
      PROVE  /\ Passed(p) => Passed(p)' /\ p # cursor
             /\ p = cursor => Passed(p)'
             /\ Passed(p)' => Passed(p) \/ p = cursor \/ Around(cursor, p)
  <2>1. p \in Path
    BY TypeFacts DEF WalkInv, WalkTypes
  <2> QED
    BY <1>1, <1>2, <1>3, <2>1, BeforeNext, BeforeIrreflexive DEF Passed
<1>10. ASSUME NEW p \in Paths, Around(cursor, p) PROVE ~Exposed(p)
  BY <1>1, <1>4, <1>10, NothingInside DEF WalkInv
<1>11. CollectedOK'
  <2>1. ASSUME NEW i \in 1..Len(catalog)
        PROVE  Describes(catalog[i])' /\ Describes(catalog[i]) /\ catalog[i].path \in Paths
    <3>1. Describes(catalog[i]) /\ catalog[i].path \in Paths
      BY DEF WalkInv, CollectedOK, Describes, Listed, LeafPaths
    <3>2. catalog'[i] = catalog[i]
      BY <1>6
    <3> QED
      BY <1>1, <1>9, <3>1, <3>2, SameType DEF Describes
  <2>2. ASSUME NEW i \in 1..Len(catalog'), i \notin 1..Len(catalog)
        PROVE  Describes(catalog[i])' /\ i = Len(catalog) + 1 /\ catalog'[i].path = cursor
    <3>1. i = Len(catalog) + 1 /\ catalog'[i] = d
      BY <1>6, <2>2
    <3>2. PICK p \in Paths : p = cursor
      BY <1>1
    <3>3. Passed(p)' /\ Listed(p)' /\ catalog'[i].path = p
      BY <1>1, <1>4, <1>5, <1>9, <3>1, <3>2, SameType
    <3>4. catalog'[i].kind = type'[p].kind /\ catalog'[i].ptr = type'[p].ptr
      BY <1>1, <1>5, <3>1, <3>2
    <3>5. Describes(catalog[i])'
      BY <3>3, <3>4 DEF Describes
    <3> QED
      BY <3>1, <3>2, <3>3, <3>5
  <2>3. \A i \in 1..Len(catalog) : catalog[i].path # cursor
    BY <1>9, <2>1 DEF Describes
  <2>4. ASSUME NEW i \in 1..Len(catalog'), NEW j \in 1..Len(catalog'),
               catalog'[i].path = catalog'[j].path
        PROVE  i = j
    <3>1. CASE i \in 1..Len(catalog) /\ j \in 1..Len(catalog)
      BY <1>6, <2>4, <3>1 DEF WalkInv, CollectedOK
    <3> QED
      BY <1>6, <2>2, <2>3, <2>4, <3>1
  <2> QED
    BY <2>1, <2>2, <2>4 DEF CollectedOK
<1>12. NoneMissed'
  <2> SUFFICES ASSUME NEW p \in Paths, Passed(p)', Exposed(p)
               PROVE  /\ ~Refused(type[p])
                      /\ Listed(p) => \E i \in 1..Len(catalog') : catalog'[i].path = p
    BY <1>1, <1>2, SameType DEF NoneMissed
  <2>1. CASE Passed(p)
    <3>1. /\ ~Refused(type[p])
          /\ Listed(p) => \E i \in 1..Len(catalog) : catalog[i].path = p
      BY <1>2, <2>1 DEF WalkInv, NoneMissed
    <3> QED
      BY <1>6, <3>1
  <2>2. CASE p = cursor
    BY <1>4, <1>5, <1>6, <2>2
  <2> QED
    BY <1>9, <1>10, <2>1, <2>2
<1> QED
  BY <1>7, <1>8, <1>11, <1>12 DEF WalkInv

\* Only the steps of walkStruct change the walk.
LEMMA WalkOrNot ==
  ASSUME [Next]_vars
  PROVE  WalkStruct \/ UNCHANGED walkVars
BY DEF Next, vars, walkVars, Walk, StartApply, SkipDescriptor, StartNavigate, NavigateField,
       SetField, FinishApply, Get

\* Outside the walk all that has been said of it stays true.
LEMMA WalkRests ==
  ASSUME UNCHANGED walkVars, WalkInv, KeysOK
  PROVE  WalkInv' /\ KeysOK'
<1>1. /\ type' = type /\ cursor' = cursor /\ prefixes' = prefixes
      /\ catalog' = catalog /\ failed' = failed
  BY DEF walkVars
<1>2. \A p : Passed(p)' <=> Passed(p)
  BY <1>1 DEF Passed
<1>3. ASSUME NEW i \in 1..Len(catalog) PROVE Describes(catalog[i])' <=> Describes(catalog[i])
  BY <1>1, <1>2, SameType DEF Describes
<1>4. WalkTypes' /\ InWalked' /\ CollectedOK'
  BY <1>1, <1>3, SameType DEF WalkInv, WalkTypes, InWalked, CollectedOK
<1>5. NoneMissed'
  BY <1>1, <1>2, SameType DEF WalkInv, NoneMissed
<1>6. KeysOK'
  BY <1>1, SameType DEF KeysOK
<1> QED
  BY <1>4, <1>5, <1>6 DEF WalkInv

-----------------------------------------------------------------------------
\* The names on the way to a field of a struct.
LEMMA NamePartsStep ==
  ASSUME WalkInv, cursor \in Paths, PlainNames, Visible(type[cursor]),
         Last(prefixes) = NameParts(SubSeq(cursor, 1, Len(cursor) - 1))
  PROVE  FullKey(Last(prefixes), type[cursor]) = NameParts(cursor)
<1> DEFINE f == type[cursor]
           k == FullKey(Last(prefixes), f)
           u == SubSeq(cursor, 1, Len(cursor) - 1)
<1>1. /\ cursor \in Path /\ Len(cursor) \in Nat \ {0} /\ f \in Field /\ Len(f.name) = 1
      /\ Last(prefixes) \in Seq(STRING)
  BY OnField DEF PlainNames
<1>2. f.name \in Seq(STRING)
  BY <1>1 DEF Field
<1>3. u \in Path /\ Len(u) = Len(cursor) - 1 /\ \A i \in 1..(Len(cursor) - 1) : u[i] = cursor[i]
  <2>1. Len(cursor) - 1 \in 0..Len(cursor)
    BY <1>1
  <2> QED
    BY <1>1, <2>1, PathPart
<1>4. Len(Last(prefixes)) = Len(cursor) - 1
  <2>1. DOMAIN Last(prefixes) = 1..(Len(cursor) - 1)
    BY <1>3 DEF NameParts
  <2> QED
    BY <1>1, <2>1
<1>5. /\ k \in Seq(STRING) /\ Len(k) = Len(cursor)
      /\ \A n \in 1..(Len(cursor) - 1) : k[n] = Last(prefixes)[n]
      /\ k[Len(cursor)] = f.name[1]
  <2> DEFINE a == Last(prefixes)
             b == f.name
  <2>1. k = a \o b /\ a \in Seq(STRING) /\ b \in Seq(STRING) /\ Len(a) = Len(cursor) - 1
        /\ Len(b) = 1 /\ Len(cursor) \in Nat \ {0}
    BY <1>1, <1>2, <1>4 DEF FullKey
  <2> HIDE DEF k, a, b, f
  <2>2. /\ k \in Seq(STRING) /\ Len(k) = Len(a) + Len(b)
        /\ \A n \in 1..Len(k) : k[n] = IF n <= Len(a) THEN a[n] ELSE b[n - Len(a)]
    <3>1. /\ (a \o b) \in Seq(STRING) /\ Len(a \o b) = Len(a) + Len(b)
          /\ \A n \in 1..(Len(a) + Len(b)) :
               (a \o b)[n] = IF n <= Len(a) THEN a[n] ELSE b[n - Len(a)]
      <4>1. a \in Seq(STRING) /\ b \in Seq(STRING)
        BY <2>1
      <4> QED
        BY <4>1, ConcatProperties
    <3> QED
      BY <2>1, <3>1, Zenon
  <2>3. Len(k) = Len(cursor)
    BY <2>1, <2>2
  <2>4. Len(cursor) \in 1..Len(k) /\ ~(Len(cursor) <= Len(a)) /\ Len(cursor) - Len(a) = 1
    BY <2>1, <2>3
  <2>5. k[Len(cursor)] = b[1]
    BY <2>2, <2>4
  <2>6. \A n \in 1..(Len(cursor) - 1) : k[n] = a[n]
    BY <2>1, <2>2, <2>3
  <2> QED
    BY <2>2, <2>3, <2>5, <2>6 DEF a, b
<1>6. ASSUME NEW n \in 1..Len(cursor) PROVE k[n] = NameParts(cursor)[n]
  <2> HIDE DEF k, f
  <2>1. CASE n = Len(cursor)
    <3>1. SubSeq(cursor, 1, n) = cursor
      BY <1>1, <2>1, SubSeqFull DEF Path
    <3> QED
      BY <1>5, <2>1, <3>1 DEF NameParts, f
  <2>2. CASE n \in 1..(Len(cursor) - 1)
    <3>1. NameParts(u)[n] = type[SubSeq(u, 1, n)].name[1]
      BY <1>3, <2>2 DEF NameParts
    <3>2. NameParts(cursor)[n] = type[SubSeq(cursor, 1, n)].name[1]
      BY DEF NameParts
    <3>3. SubSeq(u, 1, n) = SubSeq(cursor, 1, n)
      <4>1. n \in Nat /\ n <= Len(u) /\ n <= Len(cursor) /\ \A i \in 1..n : u[i] = cursor[i]
        BY <1>1, <1>3, <2>2
      <4> HIDE DEF u
      <4> QED
        BY <1>1, <1>3, <4>1, PartsAgree
    <3> QED
      BY <1>5, <2>2, <3>1, <3>2, <3>3
  <2> QED
    BY <1>1, <2>1, <2>2
<1>7. NameParts(cursor) = [n \in 1..Len(cursor) |-> NameParts(cursor)[n]]
  BY DEF NameParts
<1>8. k = [n \in 1..Len(cursor) |-> k[n]]
  <2> HIDE DEF k
  <2> QED
    BY <1>1, <1>5
<1> QED
  BY <1>6, <1>7, <1>8

\* The keys of a step of walkStruct.
LEMMA KeysStep ==
  ASSUME WalkInv, KeysOK, WalkStruct, PlainNames
  PROVE  /\ cursor' # << >> => \A n \in 1..Len(cursor') :
                                 prefixes'[n] = NameParts(SubSeq(cursor', 1, n - 1))
         /\ \A i \in 1..Len(catalog') : catalog'[i].key = NameParts(catalog'[i].path)
<1>1. \A i \in 1..Len(catalog) : catalog[i].key = NameParts(catalog[i].path)
  BY DEF KeysOK
<1>2. ASSUME cursor # << >>
      PROVE  \A n \in 1..Len(cursor) : prefixes[n] = NameParts(SubSeq(cursor, 1, n - 1))
  BY <1>2 DEF KeysOK
<1>3. ASSUME cursor \in Paths, Visible(type[cursor])
      PROVE  FullKey(Last(prefixes), type[cursor]) = NameParts(cursor)
  <2>1. /\ cursor # << >> /\ Len(cursor) \in Nat \ {0}
        /\ Last(prefixes) = prefixes[Len(cursor)]
    BY <1>3, OnField
  <2>2. Last(prefixes) = NameParts(SubSeq(cursor, 1, Len(cursor) - 1))
    BY <1>2, <2>1
  <2> QED
    BY <1>3, <2>2, NamePartsStep
<1>4. CASE EnterStruct
  <2> DEFINE k == FullKey(Last(prefixes), type[cursor])
  <2>1. /\ cursor \in Paths /\ cursor # << >> /\ Len(cursor) \in Nat \ {0}
        /\ Len(prefixes) = Len(cursor) /\ cursor \in Path
        /\ type[cursor] \in Field /\ Last(prefixes) \in Seq(STRING)
    BY <1>4, OnField DEF EnterStruct
  <2>2. k = NameParts(cursor) /\ k \in Seq(STRING)
    BY <1>3, <1>4, <2>1 DEF EnterStruct, Walks, FullKey, Field
  <2>3. /\ cursor' = Append(cursor, 1) /\ prefixes' = Append(prefixes, k)
        /\ catalog' = catalog
    BY <1>4 DEF EnterStruct
  <2> HIDE DEF k
  <2>4. /\ \A n \in 1..Len(cursor) : prefixes'[n] = prefixes[n]
        /\ prefixes'[Len(cursor) + 1] = k
    <3> DEFINE S == Seq(STRING)
    <3>1. prefixes \in Seq(S) /\ k \in S
      BY <2>2 DEF WalkInv, WalkTypes
    <3> HIDE DEF S
    <3> QED
      BY <2>1, <2>3, <3>1, SeqParts
  <2>5. /\ Len(cursor') = Len(cursor) + 1
        /\ \A n \in 0..Len(cursor) : SubSeq(cursor', 1, n) = SubSeq(cursor, 1, n)
        /\ SubSeq(cursor, 1, Len(cursor)) = cursor
    <3>1. 1 \in Nat \ {0}
      OBVIOUS
    <3> QED
      BY <2>1, <2>3, <3>1, EnterParts
  <2>6. ASSUME NEW n \in 1..Len(cursor')
        PROVE  prefixes'[n] = NameParts(SubSeq(cursor', 1, n - 1))
    <3>1. CASE n = Len(cursor) + 1
      <4>1. n - 1 = Len(cursor) /\ Len(cursor) \in 0..Len(cursor)
        BY <2>1, <3>1
      <4>2. SubSeq(cursor', 1, n - 1) = cursor
        BY <2>5, <4>1
      <4> QED
        BY <2>2, <2>4, <3>1, <4>2
    <3>2. CASE n \in 1..Len(cursor)
      <4>1. n - 1 \in 0..Len(cursor)
        BY <2>1, <3>2
      <4> QED
        BY <1>2, <2>1, <2>4, <2>5, <3>2, <4>1
    <3> QED
      BY <2>1, <2>5, <3>1, <3>2
  <2> QED
    BY <1>1, <2>3, <2>6
<1>5. ASSUME cursor \in Paths, cursor' = NextField(cursor), prefixes' = prefixes
      PROVE  \A n \in 1..Len(cursor') : prefixes'[n] = NameParts(SubSeq(cursor', 1, n - 1))
  <2>1. cursor \in Path /\ cursor # << >> /\ Len(cursor) \in Nat \ {0}
    BY <1>5, OnField
  <2>2. /\ Len(cursor') = Len(cursor)
        /\ \A n \in 0..(Len(cursor) - 1) : SubSeq(cursor', 1, n) = SubSeq(cursor, 1, n)
    BY <1>5, <2>1, NextInWalked
  <2> TAKE n \in 1..Len(cursor')
  <2>3. n \in 1..Len(cursor) /\ n - 1 \in 0..(Len(cursor) - 1)
    BY <2>1, <2>2
  <2> QED
    BY <1>2, <1>5, <2>1, <2>2, <2>3
<1>6. CASE CollectLeaf
  <2> DEFINE d == Descriptor(type[cursor], cursor, FullKey(Last(prefixes), type[cursor]))
  <2>1. d.key = NameParts(d.path)
    BY <1>3, <1>6 DEF CollectLeaf, Walks, Descriptor
  <2>2. catalog' = Append(catalog, d)
    BY <1>6 DEF CollectLeaf
  <2>3. d \in Descriptors
    <3>1. /\ cursor \in Path /\ Last(prefixes) \in Seq(STRING) /\ type[cursor] \in Field
      BY <1>6, OnField DEF CollectLeaf
    <3>2. FullKey(Last(prefixes), type[cursor]) \in Seq(STRING)
      BY <3>1 DEF FullKey, Field
    <3> QED
      BY <3>1, <3>2 DEF Descriptor, Descriptors, Field
  <2> HIDE DEF d
  <2>4. /\ Len(catalog) \in Nat /\ Len(catalog') = Len(catalog) + 1
        /\ \A i \in 1..Len(catalog) : catalog'[i] = catalog[i]
        /\ catalog'[Len(catalog) + 1] = d
    <3>1. catalog \in Seq(Descriptors)
      BY DEF WalkInv, WalkTypes
    <3> QED
      BY <2>2, <2>3, <3>1, SeqParts
  <2>5. \A i \in 1..Len(catalog') : catalog'[i].key = NameParts(catalog'[i].path)
    BY <1>1, <2>1, <2>4
  <2> QED
    BY <1>5, <1>6, <2>5 DEF CollectLeaf
<1>7. CASE SkipField
  BY <1>1, <1>5, <1>7 DEF SkipField
<1>8. CASE RefuseField
  BY <1>1, <1>8 DEF RefuseField
<1>9. CASE ReturnFromStruct
  <2>1. catalog' = catalog
    BY <1>9 DEF ReturnFromStruct
  <2> SUFFICES ASSUME cursor' # << >>, NEW n \in 1..Len(cursor')
               PROVE  prefixes'[n] = NameParts(SubSeq(cursor', 1, n - 1))
    BY <1>1, <2>1
  <2> DEFINE f == Front(cursor)
  <2>2. /\ cursor \in Path /\ cursor # << >> /\ Len(prefixes) = Len(cursor)
        /\ prefixes \in Seq(Seq(STRING)) /\ prefixes' = Front(prefixes)
    BY <1>9 DEF WalkInv, WalkTypes, ReturnFromStruct
  <2>3. cursor' = NextField(f) /\ Len(cursor) # 1
    BY <1>9 DEF ReturnFromStruct
  <2>4. /\ f \in Path /\ Len(f) = Len(cursor) - 1 /\ Len(cursor) \in Nat \ {0}
        /\ \A i \in 1..(Len(cursor) - 1) : f[i] = cursor[i]
    BY <2>2, PathFront
  <2> HIDE DEF f
  <2>5. f # << >>
    BY <2>3, <2>4, PathLen
  <2>6. /\ Len(cursor') = Len(f)
        /\ \A m \in 0..(Len(f) - 1) : SubSeq(cursor', 1, m) = SubSeq(f, 1, m)
    BY <2>3, <2>4, <2>5, NextInWalked
  <2>7. n \in 1..(Len(cursor) - 1) /\ n - 1 \in 0..(Len(f) - 1) /\ n \in 1..Len(cursor)
    BY <2>4, <2>6
  <2>8. SubSeq(f, 1, n - 1) = SubSeq(cursor, 1, n - 1)
    <3> DEFINE m == n - 1
    <3>1. /\ m \in Nat /\ m <= Len(f) /\ m <= Len(cursor)
          /\ \A i \in 1..m : f[i] = cursor[i]
      BY <2>4, <2>7
    <3> HIDE DEF m
    <3>2. SubSeq(f, 1, m) = SubSeq(cursor, 1, m)
      BY <2>2, <2>4, <3>1, PartsAgree
    <3> QED
      BY <3>2 DEF m
  <2>9. prefixes'[n] = prefixes[n]
    <3> DEFINE S == Seq(STRING)
    <3>1. prefixes # << >> /\ prefixes \in Seq(S)
      BY <2>2, <2>4
    <3> HIDE DEF S
    <3>2. \A i \in 1..(Len(prefixes) - 1) : Front(prefixes)[i] = prefixes[i]
      BY <3>1, FrontLast
    <3> QED
      BY <2>2, <2>7, <3>2
  <2> QED
    BY <1>2, <2>2, <2>6, <2>7, <2>8, <2>9
<1> QED
  BY <1>4, <1>6, <1>7, <1>8, <1>9 DEF WalkStruct

\* The walk's invariant holds in every state.
THEOREM WalkInvariant == Spec => [](WalkInv /\ KeysOK)
<1>1. ASSUME Init PROVE WalkInv /\ KeysOK
  <2>1. WalkInit
    BY <1>1 DEF Init
  <2>2. KeysOK
    <3>1. /\ Len(cursor) = 1 /\ Len(catalog) = 0 /\ SubSeq(cursor, 1, 0) = << >>
          /\ prefixes[1] = << >>
      BY <2>1 DEF WalkInit
    <3>2. NameParts(<< >>) = << >>
      BY DEF NameParts
    <3>3. ASSUME NEW n \in 1..Len(cursor)
          PROVE  prefixes[n] = NameParts(SubSeq(cursor, 1, n - 1))
      <4>1. n = 1 /\ n - 1 = 0
        BY <3>1
      <4> QED
        BY <3>1, <3>2, <4>1, Zenon
    <3>4. 1..Len(catalog) = {}
      BY <3>1
    <3> QED
      BY <3>3, <3>4 DEF KeysOK
  <2> QED
    BY <2>1, <2>2, WalkInitOK
<1>2. ASSUME WalkInv, KeysOK, [Next]_vars PROVE WalkInv' /\ KeysOK'
  <2>1. CASE WalkStruct
    <3>1. WalkInv'
      BY <1>2, <2>1, EnterKeeps, CollectKeeps, SkipKeeps, RefuseKeeps, ReturnKeeps
      DEF WalkStruct
    <3>2. type' = type
      BY <2>1 DEF WalkStruct, EnterStruct, CollectLeaf, SkipField, RefuseField,
                  ReturnFromStruct
    <3>3. KeysOK'
      BY <1>2, <2>1, <3>2, KeysStep, SameType DEF KeysOK
    <3> QED
      BY <3>1, <3>3
  <2> QED
    BY <1>2, <2>1, WalkOrNot, WalkRests
<1> QED
  BY <1>1, <1>2, PTL DEF Spec

(***************************************************************************)
(* buildCatalog's promise, for every struct type: New fails exactly if an  *)
(* exposed field is refused, and else the catalog has each exposed dynamic *)
(* leaf once and nothing secret.                                           *)
(***************************************************************************)
THEOREM CatalogIsCompleteHolds == Spec => []CatalogIsComplete
<1>1. ASSUME WalkInv PROVE CatalogIsComplete
  <2> SUFFICES ASSUME Returned PROVE CatalogIsComplete
    BY DEF CatalogIsComplete
  <2>1. \A p \in Paths : Passed(p)
    BY DEF Returned, Passed
  <2>2. failed \in BOOLEAN /\ (failed <=> \E p \in Paths : Exposed(p) /\ Refused(type[p]))
    BY <1>1, <2>1 DEF WalkInv, NoneMissed, WalkTypes
  <2>3. ASSUME ~failed
        PROVE  LET found == [i \in 1..Len(catalog) |-> catalog[i].path]
               IN  /\ IsInjective(found)
                   /\ ToSet(found) =
                        {p \in LeafPaths : Exposed(p) /\ type[p].dyn \in DynamicTags}
    <3> DEFINE found == [i \in 1..Len(catalog) |-> catalog[i].path]
               L == {p \in LeafPaths : Exposed(p) /\ type[p].dyn \in DynamicTags}
    <3>1. IsInjective(found)
      BY <1>1 DEF WalkInv, CollectedOK, IsInjective
    <3>2. ToSet(found) = {catalog[i].path : i \in 1..Len(catalog)}
      BY DEF ToSet
    <3>3. ASSUME NEW i \in 1..Len(catalog) PROVE catalog[i].path \in L
      BY <1>1 DEF WalkInv, CollectedOK, Describes, Listed
    <3>4. ASSUME NEW p \in L PROVE \E i \in 1..Len(catalog) : catalog[i].path = p
      BY <1>1, <2>1, <2>3 DEF WalkInv, NoneMissed, Listed, LeafPaths
    <3> QED
      BY <3>1, <3>2, <3>3, <3>4
  <2> QED
    BY <2>2, <2>3 DEF CatalogIsComplete
<1> QED
  BY <1>1, WalkInvariant, PTL

-----------------------------------------------------------------------------
\* With plain names, a field is known by the names on the way to it.
LEMMA NamesTell ==
  ASSUME type \in Types, PlainNames, NEW p \in Paths, NEW q \in Paths,
         Exposed(p), Exposed(q), NameParts(p) = NameParts(q)
  PROVE  p = q
<1>1. /\ p \in Path /\ q \in Path /\ Len(p) \in Nat \ {0} /\ Len(q) \in Nat \ {0}
  BY TypeFacts, PathFront
<1>2. Len(p) = Len(q)
  <2>1. DOMAIN NameParts(p) = 1..Len(p) /\ DOMAIN NameParts(q) = 1..Len(q)
    BY DEF NameParts
  <2> QED
    BY <1>1, <2>1
<1>3. SUFFICES ASSUME \E i \in 1..Len(p) : p[i] # q[i] PROVE FALSE
  BY <1>1, <1>2, PathEqual
<1>4. PICK n \in 1..Len(p) : p[n] # q[n] /\ \A i \in 1..(n - 1) : p[i] = q[i]
  <2> DEFINE G == {i \in 1..Len(p) : p[i] # q[i]}
  <2>1. G \in SUBSET (0..Len(p)) /\ G # {}
    BY <1>1, <1>3
  <2>2. PICK n \in G : \A z \in G : n <= z
    <3> HIDE DEF G
    <3> QED
      BY <1>1, <2>1, LeastIndex
  <2> QED
    BY <1>1, <2>2
<1> DEFINE u == SubSeq(p, 1, n)
           v == SubSeq(q, 1, n)
<1>5. ASSUME NEW r \in Paths, Exposed(r), n \in 1..Len(r)
      PROVE  SubSeq(r, 1, n) \in Paths /\ Visible(type[SubSeq(r, 1, n)])
  <2>1. r \in Path /\ Len(r) \in Nat
    BY TypeFacts, PathLen
  <2>2. CASE n = Len(r)
    <3>1. SubSeq(r, 1, n) = r
      BY <2>1, <2>2, SubSeqFull DEF Path
    <3> QED
      BY <1>5, <3>1 DEF Exposed
  <2>3. CASE n \in 1..(Len(r) - 1)
    BY <1>5, <2>3, TypeFacts DEF Exposed
  <2> QED
    BY <1>5, <2>1, <2>2, <2>3
<1>6. u \in Paths /\ v \in Paths /\ Visible(type[u]) /\ Visible(type[v])
  BY <1>2, <1>5
<1>7. /\ u \in Path /\ Len(u) = n /\ \A i \in 1..n : u[i] = p[i]
      /\ v \in Path /\ Len(v) = n /\ \A i \in 1..n : v[i] = q[i]
  <2>1. n \in 0..Len(p) /\ n \in 0..Len(q)
    BY <1>1, <1>2
  <2> QED
    BY <1>1, <2>1, PathPart
<1>8. type[u].name[1] = type[v].name[1]
  <2>1. NameParts(p)[n] = type[u].name[1] /\ NameParts(q)[n] = type[v].name[1]
    BY <1>2 DEF NameParts
  <2> QED
    BY <2>1
<1> HIDE DEF u, v
<1>9. type[u].name = type[v].name
  <2>1. type[u] \in Field /\ type[v] \in Field
    BY <1>6, TypeFacts
  <2>2. /\ type[u].name \in Seq(STRING) /\ Len(type[u].name) = 1
        /\ type[v].name \in Seq(STRING) /\ Len(type[v].name) = 1
    BY <1>6, <2>1 DEF PlainNames, Field
  <2> QED
    BY <1>8, <2>2, SeqEqual
<1>10. Siblings(u, v)
  <2>1. n \in Nat \ {0} /\ n \in 1..n
    BY <1>1
  <2>2. u # v
    BY <1>4, <1>7, <2>1
  <2>3. u # << >> /\ v # << >>
    BY <1>7, <2>1, PathLen
  <2>4. /\ Front(u) \in Path /\ Len(Front(u)) = n - 1
        /\ \A i \in 1..(n - 1) : Front(u)[i] = u[i]
        /\ Front(v) \in Path /\ Len(Front(v)) = n - 1
        /\ \A i \in 1..(n - 1) : Front(v)[i] = v[i]
    BY <1>7, <2>3, PathFront
  <2>5. \A i \in 1..(n - 1) : Front(u)[i] = Front(v)[i]
    BY <1>4, <1>7, <2>1, <2>4
  <2>6. Front(u) = Front(v)
    BY <2>4, <2>5, PathEqual
  <2> QED
    BY <1>7, <2>2, <2>6 DEF Siblings
<1> QED
  BY <1>6, <1>9, <1>10 DEF PlainNames

(***************************************************************************)
(* handleChangeEvent finds, for the key of each field of the catalog, the  *)
(* strategy of that field, for every struct type with plain names.         *)
(***************************************************************************)
THEOREM FieldIsFoundByKeyHolds == Spec => []FieldIsFoundByKey
<1>1. ASSUME WalkInv, KeysOK PROVE FieldIsFoundByKey
  <2> SUFFICES ASSUME PlainNames, NEW i \in 1..Len(catalog)
               PROVE  DescByKey(catalog[i].key) = catalog[i]
    BY DEF FieldIsFoundByKey, PlainNames
  <2> DEFINE found == {j \in 1..Len(catalog) : catalog[j].key = catalog[i].key}
  <2>1. ASSUME NEW j \in found PROVE j = i
    <3>1. NameParts(catalog[j].path) = NameParts(catalog[i].path)
      BY <1>1 DEF KeysOK
    <3>2. \A k \in 1..Len(catalog) : catalog[k].path \in Paths /\ Exposed(catalog[k].path)
      BY <1>1 DEF WalkInv, CollectedOK, Describes, Listed, LeafPaths
    <3>3. catalog[j].path = catalog[i].path
      BY <1>1, <3>1, <3>2, NamesTell DEF WalkInv, WalkTypes
    <3> QED
      BY <1>1, <3>3 DEF WalkInv, CollectedOK
  <2>2. found = {i}
    BY <2>1
  <2>3. Len(catalog) \in Nat
    BY <1>1 DEF WalkInv, WalkTypes
  <2> HIDE DEF found
  <2>4. (CHOOSE k \in found : \A j \in found : j <= k) = i
    BY <2>2, <2>3
  <2> QED
    BY <2>4 DEF DescByKey, found
<1> QED
  BY <1>1, WalkInvariant, PTL

=============================================================================
