------------------------- MODULE PacketBuffer_proofs --------------------------
(***************************************************************************)
(* Theorems about PacketBuffer: whatever packets are pushed in whatever    *)
(* order, however often the front is popped and the list cleared, its      *)
(* pointers form a sorted list and implement SortedBuffer.                 *)
(***************************************************************************)
EXTENDS PacketBuffer, FiniteSetTheorems, WellFoundedInduction, TLAPS

------------------------------------------------------------------------------
(* Induction over the numbers, for sets of numbers, and the walk.            *)

\* A set of numbers that is not empty has a least element.
LEMMA NatLeast ==
  ASSUME NEW T \in SUBSET Nat, T # {}
  PROVE  \E x \in T : \A y \in T : x <= y
<1> DEFINE R == OpToRel(<, Nat)
<1>1. IsWellFoundedOn(R, Nat)
  BY NatLessThanWellFounded
<1>2. PICK x \in T : \A y \in T : ~(<<y, x>> \in R)
  <2> HIDE DEF R
  <2> QED BY <1>1, WFMin
<1>3. \A y \in T : y < x => <<y, x>> \in R
  BY DEF OpToRel
<1>4. \A y \in T : ~(y < x)
  BY <1>2, <1>3
<1> QED BY <1>4

LEMMA NatSetInduction ==
  ASSUME NEW S, 0 \in S, \A n \in Nat : n \in S => n + 1 \in S
  PROVE  Nat \subseteq S
<1> DEFINE T == Nat \ S
<1>1. SUFFICES ASSUME T # {} PROVE FALSE
  OBVIOUS
<1>2. PICK x \in T : \A y \in T : x <= y
  <2>1. T \in SUBSET Nat
    OBVIOUS
  <2> HIDE DEF T
  <2> QED BY <1>1, <2>1, NatLeast
<1>3. x \in Nat /\ x # 0
  BY <1>2
<1>4. x - 1 \in Nat /\ (x - 1) + 1 = x /\ ~(x <= x - 1)
  BY <1>3
<1>5. x - 1 \in T
  BY <1>2, <1>4
<1> QED BY <1>2, <1>4, <1>5

Size == Cardinality(Node)

LEMMA SizeIsNat == Size \in Nat
BY NodesAreFinite, FS_CardinalityType DEF Size

NextIn(h, n) == IF n = Null THEN Null ELSE h[n].next
SeqIn(h, n) == h[n].packet.seq

\* The walk from the node f through the heap h.
WalkFrom(f, h) ==
  CHOOSE w : w = [k \in 0..Size |->
                    IF k = 0 THEN f ELSE NextIn(h, w[k - 1])]

LEMMA WalkIs ==
  /\ Walk = WalkFrom(firstNode, heap)
  /\ Walk' = WalkFrom(firstNode', heap')
BY DEF Walk, WalkFrom, NextOf, NextIn, Size

\* The walk is what its definition says.
LEMMA WalkUnfolds ==
  ASSUME NEW f, NEW h
  PROVE  LET w == WalkFrom(f, h)
         IN /\ DOMAIN w = 0..Size
            /\ w[0] = f
            /\ \A k \in 0..(Size - 1) : w[k + 1] = NextIn(h, w[k])
<1> DEFINE Steps(n, w) == w = [k \in 0..n |->
                                 IF k = 0 THEN f ELSE NextIn(h, w[k - 1])]
           S == {n \in Nat : \E w : Steps(n, w)}
<1>1. 0 \in S
  <2> DEFINE w == [k \in 0..0 |-> f]
  <2>1. Steps(0, w)
    OBVIOUS
  <2> HIDE DEF Steps, w
  <2> QED BY <2>1
<1>2. ASSUME NEW n \in Nat, n \in S PROVE n + 1 \in S
  <2>1. PICK w : Steps(n, w)
    BY <1>2
  <2> DEFINE v == [k \in 0..(n + 1) |->
                     IF k <= n THEN w[k] ELSE NextIn(h, w[n])]
  <2>2. \A k \in 0..n : w[k] = IF k = 0 THEN f ELSE NextIn(h, w[k - 1])
    BY <2>1
  <2>3. ASSUME NEW k \in 0..(n + 1)
        PROVE  v[k] = IF k = 0 THEN f ELSE NextIn(h, v[k - 1])
    <3>1. CASE k = 0
      BY <3>1, <2>2
    <3>2. CASE k \in 1..n
      <4>1. v[k] = w[k] /\ v[k - 1] = w[k - 1] /\ k # 0
        BY <3>2
      <4> HIDE DEF v
      <4> QED BY <3>2, <4>1, <2>2
    <3>3. CASE k = n + 1
      <4>1. v[k] = NextIn(h, w[n]) /\ v[k - 1] = w[n] /\ k # 0
        BY <3>3
      <4> HIDE DEF v
      <4> QED BY <4>1
    <3> QED BY <3>1, <3>2, <3>3
  <2>4. Steps(n + 1, v)
    <3>1. v = [k \in 0..(n + 1) |-> v[k]]
      OBVIOUS
    <3> HIDE DEF v
    <3> QED BY <2>3, <3>1
  <2> HIDE DEF Steps, v
  <2> QED BY <1>2, <2>4
<1>3. Size \in S
  <2> HIDE DEF S
  <2> QED BY <1>1, <1>2, SizeIsNat, NatSetInduction
<1>4. Steps(Size, WalkFrom(f, h))
  <2>1. \E w : Steps(Size, w)
    BY <1>3
  <2> QED BY <2>1 DEF WalkFrom
<1> DEFINE w == WalkFrom(f, h)
<1>5. w = [k \in 0..Size |-> IF k = 0 THEN f ELSE NextIn(h, w[k - 1])]
  BY <1>4
<1>6. DOMAIN w = 0..Size
  BY <1>5
<1>7. \A k \in 0..Size : w[k] = IF k = 0 THEN f ELSE NextIn(h, w[k - 1])
  BY <1>5
<1> HIDE DEF w
<1>8. \A k \in 0..(Size - 1) : w[k + 1] = NextIn(h, w[k])
  BY <1>7, SizeIsNat
<1> QED BY <1>6, <1>7, <1>8, SizeIsNat DEF w

------------------------------------------------------------------------------
(* Lists.                                                                    *)

\* From f the pointers of the heap h lead through the nodes R in the order of
\* their sequence numbers, no two of which are the same.
Ordered(f, h, R) ==
  /\ \A m \in R : SeqIn(h, f) <= SeqIn(h, m)
  /\ \A m, n \in R : SeqIn(h, m) = SeqIn(h, n) => m = n

LinkedUp(h, R, m) ==
  \/ /\ h[m].next = Null
     /\ \A n \in R : SeqIn(h, n) <= SeqIn(h, m)
  \/ /\ h[m].next \in R
     /\ SeqIn(h, m) < SeqIn(h, h[m].next)
     /\ \A n \in R : SeqIn(h, n) <= SeqIn(h, m)
                   \/ SeqIn(h, h[m].next) <= SeqIn(h, n)

IsList(f, h, R) ==
  /\ R \subseteq Node
  /\ \A m \in R : h[m].packet \in Packet
  /\ (f = Null /\ R = {}) \/ f \in R
  /\ Ordered(f, h, R)
  /\ \A m \in R : LinkedUp(h, R, m)

LEMMA ListBasics ==
  ASSUME NEW f, NEW h, NEW R, IsList(f, h, R)
  PROVE  /\ R \subseteq Node /\ Null \notin R
         /\ \A m \in R : SeqIn(h, m) \in Nat
         /\ IsFiniteSet(R)
BY NodesAreFinite, PacketsHaveSeq, FS_Subset DEF IsList, SeqIn

\* The walk along a list stays on it, in ascending order, and reaches its end.
LEMMA WalkStays ==
  ASSUME NEW f, NEW h, NEW R, IsList(f, h, R)
  PROVE  \A k \in 0..Size : WalkFrom(f, h)[k] \in R \union {Null}
<1> DEFINE w == WalkFrom(f, h)
           S == {k \in Nat : k <= Size => w[k] \in R \union {Null}}
<1>1. w[0] = f /\ \A k \in 0..(Size - 1) : w[k + 1] = NextIn(h, w[k])
  BY WalkUnfolds
<1> HIDE DEF w
<1>2. 0 \in S
  BY <1>1 DEF IsList
<1>3. ASSUME NEW k \in Nat, k \in S PROVE k + 1 \in S
  <2>1. SUFFICES ASSUME k + 1 <= Size PROVE w[k + 1] \in R \union {Null}
    OBVIOUS
  <2>2. w[k] \in R \union {Null} /\ w[k + 1] = NextIn(h, w[k])
    BY <1>1, <1>3, <2>1, SizeIsNat
  <2> QED BY <2>2 DEF NextIn, IsList, LinkedUp
<1>4. Nat \subseteq S
  <2> HIDE DEF S
  <2> QED BY <1>2, <1>3, NatSetInduction
<1> QED BY <1>4, SizeIsNat DEF w

LEMMA WalkRises ==
  ASSUME NEW f, NEW h, NEW R, IsList(f, h, R)
  PROVE  LET w == WalkFrom(f, h)
         IN \A k \in 0..Size : w[k] \in R =>
              \A j \in 0..(k - 1) : w[j] \in R /\ SeqIn(h, w[j]) < SeqIn(h, w[k])
<1> DEFINE w == WalkFrom(f, h)
           Rises(k) == \A j \in 0..(k - 1) :
                         w[j] \in R /\ SeqIn(h, w[j]) < SeqIn(h, w[k])
           S == {k \in Nat : k <= Size /\ w[k] \in R => Rises(k)}
<1>1. \A k \in 0..(Size - 1) : w[k + 1] = NextIn(h, w[k])
  BY WalkUnfolds
<1>2. \A k \in 0..Size : w[k] \in R \union {Null}
  BY WalkStays
<1> HIDE DEF w
<1>3. 0 \in S
  OBVIOUS
<1>4. ASSUME NEW k \in Nat, k \in S PROVE k + 1 \in S
  <2>1. SUFFICES ASSUME k + 1 <= Size, w[k + 1] \in R PROVE Rises(k + 1)
    OBVIOUS
  <2>2. w[k] \in R \union {Null} /\ w[k + 1] = NextIn(h, w[k])
    BY <1>1, <1>2, <2>1, SizeIsNat
  <2>3. w[k] \in R /\ SeqIn(h, w[k]) < SeqIn(h, w[k + 1])
    BY <2>1, <2>2, ListBasics DEF NextIn, IsList, LinkedUp
  <2>4. Rises(k)
    BY <1>4, <2>1, <2>3, SizeIsNat
  <2>5. ASSUME NEW j \in 0..k
        PROVE  w[j] \in R /\ SeqIn(h, w[j]) < SeqIn(h, w[k + 1])
    <3>1. CASE j = k
      BY <2>3, <3>1
    <3>2. CASE j \in 0..(k - 1)
      <4>1. w[j] \in R /\ SeqIn(h, w[j]) < SeqIn(h, w[k])
        BY <2>4, <3>2
      <4>2. SeqIn(h, w[j]) \in Nat /\ SeqIn(h, w[k]) \in Nat
            /\ SeqIn(h, w[k + 1]) \in Nat
        BY <2>1, <2>3, <4>1, ListBasics
      <4> QED BY <2>3, <4>1, <4>2
    <3> QED BY <3>1, <3>2
  <2> QED BY <2>5
<1>5. Nat \subseteq S
  <2> HIDE DEF S
  <2> QED BY <1>3, <1>4, NatSetInduction
<1> QED BY <1>5, SizeIsNat DEF w

LEMMA WalkInjective ==
  ASSUME NEW f, NEW h, NEW R, IsList(f, h, R)
  PROVE  LET w == WalkFrom(f, h)
         IN \A i, j \in 0..Size : w[i] \in R /\ w[i] = w[j] => i = j
<1> DEFINE w == WalkFrom(f, h)
<1>1. \A k \in 0..Size : w[k] \in R =>
        \A j \in 0..(k - 1) : w[j] \in R /\ SeqIn(h, w[j]) < SeqIn(h, w[k])
  BY WalkRises
<1>2. \A m \in R : SeqIn(h, m) \in Nat
  BY ListBasics
<1> HIDE DEF w
<1>3. \A i, j \in 0..Size : w[i] \in R /\ w[i] = w[j] /\ i < j => FALSE
  BY <1>1, <1>2, SizeIsNat
<1>4. \A i, j \in 0..Size : w[i] \in R /\ w[i] = w[j] => i = j
  BY <1>3, SizeIsNat
<1> QED BY <1>4 DEF w

LEMMA WalkEnds ==
  ASSUME NEW f, NEW h, NEW R, IsList(f, h, R)
  PROVE  WalkFrom(f, h)[Size] = Null
<1> DEFINE w == WalkFrom(f, h)
<1>1. SUFFICES ASSUME w[Size] # Null PROVE FALSE
  OBVIOUS
<1>2. DOMAIN w = 0..Size
  BY WalkUnfolds
<1>3. /\ \A k \in 0..Size : w[k] \in R \union {Null}
      /\ \A k \in 0..Size : w[k] \in R =>
           \A j \in 0..(k - 1) : w[j] \in R /\ SeqIn(h, w[j]) < SeqIn(h, w[k])
  BY WalkStays, WalkRises
<1> HIDE DEF w
<1>4. w[Size] \in R
  BY <1>1, <1>3, SizeIsNat
<1>5. \A k \in 0..Size : w[k] \in R
  BY <1>3, <1>4, SizeIsNat
<1>6. PICK x, y \in 0..Size : x # y /\ w[x] = w[y]
  <2> DEFINE v == [k \in 0..Size |-> w[k]]
  <2>1. v \in [0..Size -> Node]
    BY <1>5, ListBasics
  <2>2. IsFiniteSet(0..Size) /\ Cardinality(0..Size) = Size + 1
    BY SizeIsNat, FS_Interval
  <2>3. Cardinality(Node) < Cardinality(0..Size)
    BY <2>2, SizeIsNat DEF Size
  <2>4. \E x, y \in 0..Size : x # y /\ v[x] = v[y]
    <3> HIDE DEF v
    <3> QED BY <2>1, <2>2, <2>3, NodesAreFinite, FS_PigeonHole
  <2> QED BY <2>4
<1>7. SeqIn(h, w[x]) \in Nat
  BY <1>5, ListBasics
<1>8. CASE x < y
  BY <1>3, <1>5, <1>6, <1>7, <1>8, SizeIsNat
<1>9. CASE y < x
  BY <1>3, <1>5, <1>6, <1>7, <1>9, SizeIsNat
<1> QED BY <1>6, <1>8, <1>9, SizeIsNat

\* A search that goes on from the nodes G until it meets one of T meets one.
LEMMA Scan ==
  ASSUME NEW f, NEW h, NEW R, IsList(f, h, R),
         NEW G \in SUBSET R, NEW T \in SUBSET R, f \in G \union T,
         \A m \in G \ T : h[m].next \in G \union T
  PROVE  LET w == WalkFrom(f, h)
         IN \E k \in 0..Size : w[k] \in T /\ \A j \in 0..(k - 1) : w[j] \in G \ T
<1> DEFINE w == WalkFrom(f, h)
           K == {k \in 0..Size : w[k] \notin G \ T}
<1>1. w[0] = f /\ \A k \in 0..(Size - 1) : w[k + 1] = NextIn(h, w[k])
  BY WalkUnfolds
<1>2. w[Size] = Null
  BY WalkEnds
<1> HIDE DEF w
<1>3. K \in SUBSET Nat /\ K # {}
  BY <1>2, SizeIsNat, ListBasics
<1>4. PICK k \in K : \A j \in K : k <= j
  <2> HIDE DEF K
  <2> QED BY <1>3, NatLeast
<1>5. \A j \in 0..(k - 1) : w[j] \in G \ T
  BY <1>4, SizeIsNat
<1>6. w[k] \in T
  <2>1. CASE k = 0
    BY <1>1, <1>4, <2>1
  <2>2. CASE k > 0
    <3>1. k - 1 \in 0..(Size - 1) /\ (k - 1) + 1 = k /\ k - 1 \in 0..(k - 1)
      BY <2>2, SizeIsNat
    <3>2. w[k] = NextIn(h, w[k - 1]) /\ w[k - 1] \in G \ T
      BY <1>1, <1>5, <3>1
    <3>3. w[k] \in G \union T
      BY <3>2, ListBasics DEF NextIn
    <3> QED BY <1>4, <3>3
  <2> QED BY <2>1, <2>2, SizeIsNat
<1> QED BY <1>4, <1>5, <1>6 DEF w

\* The walk meets every node of the list and no other.
LEMMA ListReached ==
  ASSUME NEW f, NEW h, NEW R, IsList(f, h, R)
  PROVE  LET w == WalkFrom(f, h)
         IN {w[k] : k \in DOMAIN w} \ {Null} = R
<1> DEFINE w == WalkFrom(f, h)
<1>1. DOMAIN w = 0..Size /\ \A k \in 0..Size : w[k] \in R \union {Null}
  BY WalkUnfolds, WalkStays
<1>2. ASSUME NEW n \in R PROVE \E k \in 0..Size : w[k] = n
  <2> DEFINE G == {m \in R : SeqIn(h, m) < SeqIn(h, n)}
             T == {n}
  <2>1. f \in G \union T
    BY ListBasics DEF IsList, Ordered
  <2>2. ASSUME NEW m \in G PROVE h[m].next \in G \union T
    <3>1. SeqIn(h, m) \in Nat /\ SeqIn(h, n) \in Nat /\ LinkedUp(h, R, m)
      BY ListBasics DEF IsList
    <3>2. h[m].next \in R /\ SeqIn(h, h[m].next) <= SeqIn(h, n)
      BY <3>1, ListBasics DEF LinkedUp
    <3>3. SeqIn(h, h[m].next) \in Nat
      BY <3>2, ListBasics
    <3> QED BY <3>1, <3>2, <3>3 DEF IsList, Ordered
  <2>3. G \in SUBSET R /\ T \in SUBSET R
    OBVIOUS
  <2>4. \A m \in G \ T : h[m].next \in G \union T
    BY <2>2
  <2> HIDE DEF G, T
  <2>5. PICK k \in 0..Size : w[k] \in T
    BY <2>1, <2>3, <2>4, Scan
  <2> QED BY <2>5 DEF T
<1> HIDE DEF w
<1>3. {w[k] : k \in DOMAIN w} \ {Null} = R
  BY <1>1, <1>2, ListBasics
<1> QED BY <1>3 DEF w

\* A node in front of the first one.
LEMMA InsertFront ==
  ASSUME NEW f, NEW h, NEW R, IsList(f, h, R),
         NEW n \in Node \ R, NEW p \in Packet, NEW g,
         f = Null \/ p.seq < SeqIn(h, f),
         g[n].packet = p, g[n].next = f, \A m \in R : g[m] = h[m]
  PROVE  IsList(n, g, R \union {n})
<1> DEFINE Q == R \union {n}
<1>1. SeqIn(g, n) = p.seq /\ p.seq \in Nat
  BY PacketsHaveSeq DEF SeqIn
<1>2. \A m \in R : SeqIn(g, m) = SeqIn(h, m) /\ SeqIn(h, m) \in Nat
  BY ListBasics DEF SeqIn
<1>3. \A m \in R : p.seq < SeqIn(g, m)
  BY <1>1, <1>2, ListBasics DEF IsList, Ordered
<1>4. Ordered(n, g, Q)
  BY <1>1, <1>2, <1>3 DEF IsList, Ordered
<1>5. LinkedUp(g, Q, n)
  BY <1>1, <1>2, <1>3 DEF IsList, Ordered, LinkedUp
<1>6. ASSUME NEW m \in R PROVE LinkedUp(g, Q, m)
  <2>1. LinkedUp(h, R, m) /\ g[m].next = h[m].next
    BY DEF IsList
  <2> QED BY <1>1, <1>2, <1>3, <2>1 DEF LinkedUp
<1>7. \A m \in Q : g[m].packet \in Packet
  BY DEF IsList
<1> HIDE DEF Q
<1>8. Q \subseteq Node /\ n \in Q /\ \A m \in Q : LinkedUp(g, Q, m)
  BY <1>5, <1>6 DEF IsList, Q
<1>9. IsList(n, g, Q)
  BY <1>4, <1>7, <1>8 DEF IsList
<1> QED BY <1>9 DEF Q

\* A node between a node and the next, or behind the last: g is the heap h
\* with a node n for the packet p behind the node at.
IsBehind(g, n, p, at, h, R) ==
  /\ g[n].packet = p /\ g[n].next = h[at].next
  /\ g[at].packet = h[at].packet /\ g[at].next = n
  /\ \A m \in R \ {at} : g[m] = h[m]

LEMMA InsertBehind ==
  ASSUME NEW f, NEW h, NEW R, IsList(f, h, R),
         NEW n \in Node \ R, NEW p \in Packet, NEW at \in R, NEW g,
         SeqIn(h, at) < p.seq,
         h[at].next = Null \/ p.seq < SeqIn(h, h[at].next),
         IsBehind(g, n, p, at, h, R)
  PROVE  /\ IsList(f, g, R \union {n})
         /\ \A m \in R : SeqIn(h, m) # p.seq
<1> DEFINE Q == R \union {n}
<1>0. /\ g[n].packet = p /\ g[n].next = h[at].next
      /\ g[at].packet = h[at].packet /\ g[at].next = n
      /\ \A m \in R \ {at} : g[m] = h[m]
  BY DEF IsBehind
<1>1. SeqIn(g, n) = p.seq /\ p.seq \in Nat
  BY <1>0, PacketsHaveSeq DEF SeqIn
<1>2. \A m \in R : SeqIn(g, m) = SeqIn(h, m) /\ SeqIn(h, m) \in Nat
  BY <1>0, ListBasics DEF SeqIn
<1>3. LinkedUp(h, R, at)
  BY DEF IsList
<1>4. \A m \in R : \/ SeqIn(h, m) <= SeqIn(h, at)
                  \/ p.seq < SeqIn(h, m)
  <2>1. CASE h[at].next = Null
    BY <1>3, <2>1, ListBasics DEF LinkedUp
  <2>2. CASE h[at].next # Null
    <3>1. h[at].next \in R /\ p.seq < SeqIn(h, h[at].next)
      BY <1>3, <2>2 DEF LinkedUp
    <3>2. \A m \in R : SeqIn(h, m) <= SeqIn(h, at)
                      \/ SeqIn(h, h[at].next) <= SeqIn(h, m)
      BY <1>3, <2>2 DEF LinkedUp
    <3> QED BY <1>1, <1>2, <3>1, <3>2
  <2> QED BY <2>1, <2>2
<1>5. \A m \in R : SeqIn(h, m) # p.seq
  BY <1>1, <1>2, <1>4
<1>6. f \in R /\ \A m \in R : SeqIn(h, f) <= SeqIn(h, m)
  BY DEF IsList, Ordered
<1>7. Ordered(f, g, Q)
  <2>1. \A m \in Q : SeqIn(g, f) <= SeqIn(g, m)
    BY <1>1, <1>2, <1>6
  <2>2. \A m, k \in Q : SeqIn(g, m) = SeqIn(g, k) => m = k
    BY <1>1, <1>2, <1>5 DEF IsList, Ordered
  <2> QED BY <2>1, <2>2 DEF Ordered
<1>8. LinkedUp(g, Q, n)
  <2>1. CASE h[at].next = Null
    <3>1. \A m \in Q : SeqIn(g, m) <= SeqIn(g, n)
      BY <1>1, <1>2, <1>3, <2>1, ListBasics DEF LinkedUp
    <3> QED BY <1>0, <2>1, <3>1 DEF LinkedUp
  <2>2. CASE h[at].next # Null
    <3> DEFINE x == h[at].next
    <3>1. x \in R /\ p.seq < SeqIn(h, x)
      BY <1>3, <2>2 DEF LinkedUp
    <3>2. \A m \in R : SeqIn(h, m) <= SeqIn(h, at) \/ SeqIn(h, x) <= SeqIn(h, m)
      BY <1>3, <2>2 DEF LinkedUp
    <3>3. g[n].next = x
      BY <1>0
    <3> HIDE DEF x
    <3>4. \A m \in Q : SeqIn(g, m) <= SeqIn(g, n) \/ SeqIn(g, x) <= SeqIn(g, m)
      BY <1>1, <1>2, <3>1, <3>2
    <3>5. SeqIn(g, n) < SeqIn(g, x)
      BY <1>1, <1>2, <3>1
    <3> QED BY <3>1, <3>3, <3>4, <3>5 DEF LinkedUp
  <2> QED BY <2>1, <2>2
<1>9. LinkedUp(g, Q, at)
  <2>1. \A m \in Q : SeqIn(g, m) <= SeqIn(g, at) \/ SeqIn(g, n) <= SeqIn(g, m)
    BY <1>1, <1>2, <1>4
  <2> QED BY <1>0, <1>1, <1>2, <2>1 DEF LinkedUp
<1>10. ASSUME NEW m \in R \ {at} PROVE LinkedUp(g, Q, m)
  <2>1. LinkedUp(h, R, m) /\ g[m].next = h[m].next
    BY <1>0 DEF IsList
  <2>2. CASE h[m].next = Null
    <3>1. SeqIn(h, at) <= SeqIn(h, m)
      BY <2>1, <2>2, ListBasics DEF LinkedUp
    <3>2. SeqIn(h, m) # SeqIn(h, at)
      BY DEF IsList, Ordered
    <3>3. p.seq < SeqIn(h, m)
      BY <1>1, <1>2, <1>4, <3>1, <3>2
    <3> QED BY <1>1, <1>2, <2>1, <2>2, <3>3, ListBasics DEF LinkedUp
  <2>3. CASE h[m].next # Null
    <3> DEFINE x == h[m].next
    <3>1. x \in R /\ SeqIn(h, m) < SeqIn(h, x) /\ g[m].next = x
      BY <2>1, <2>3 DEF LinkedUp
    <3>2. \A k \in R : SeqIn(h, k) <= SeqIn(h, m) \/ SeqIn(h, x) <= SeqIn(h, k)
      BY <2>1, <2>3 DEF LinkedUp
    <3> HIDE DEF x
    <3>3. p.seq <= SeqIn(h, m) \/ SeqIn(h, x) <= p.seq
      <4>1. CASE SeqIn(h, at) <= SeqIn(h, m)
        <5>1. SeqIn(h, m) # SeqIn(h, at)
          BY DEF IsList, Ordered
        <5> QED BY <1>1, <1>2, <1>4, <4>1, <5>1
      <4>2. CASE SeqIn(h, x) <= SeqIn(h, at)
        BY <1>1, <1>2, <3>1, <4>2
      <4> QED BY <3>2, <4>1, <4>2
    <3>4. \A k \in Q : SeqIn(g, k) <= SeqIn(g, m) \/ SeqIn(g, x) <= SeqIn(g, k)
      BY <1>1, <1>2, <3>1, <3>2, <3>3
    <3>5. SeqIn(g, m) < SeqIn(g, x)
      BY <1>2, <3>1
    <3> QED BY <3>1, <3>4, <3>5 DEF LinkedUp
  <2> QED BY <2>2, <2>3
<1>11. \A m \in Q : g[m].packet \in Packet
  BY <1>0 DEF IsList
<1> HIDE DEF Q
<1>12. Q \subseteq Node /\ f \in Q /\ \A m \in Q : LinkedUp(g, Q, m)
  BY <1>6, <1>8, <1>9, <1>10 DEF IsList, Q
<1>13. IsList(f, g, Q)
  BY <1>7, <1>11, <1>12 DEF IsList
<1> QED BY <1>5, <1>13 DEF Q

\* What is left of a list when nodes leave it at the front.
LEMMA DropFront ==
  ASSUME NEW f, NEW h, NEW R, IsList(f, h, R),
         NEW Q \in SUBSET R, NEW first, NEW g,
         \A m \in Q : g[m] = h[m],
         \A m \in Q, n \in R : SeqIn(h, m) <= SeqIn(h, n) => n \in Q,
         (first = Null /\ Q = {}) \/ first \in Q,
         \A m \in Q : SeqIn(h, first) <= SeqIn(h, m)
  PROVE  IsList(first, g, Q)
<1>1. \A m \in Q : SeqIn(g, m) = SeqIn(h, m) /\ SeqIn(h, m) \in Nat
  BY ListBasics DEF SeqIn
<1>2. Ordered(first, g, Q)
  BY <1>1 DEF IsList, Ordered
<1>3. ASSUME NEW m \in Q PROVE LinkedUp(g, Q, m)
  <2>1. LinkedUp(h, R, m) /\ g[m].next = h[m].next
    BY DEF IsList
  <2>2. CASE h[m].next = Null
    BY <1>1, <2>1, <2>2, ListBasics DEF LinkedUp
  <2>3. CASE h[m].next # Null
    <3>1. h[m].next \in R /\ SeqIn(h, m) < SeqIn(h, h[m].next)
      BY <2>1, <2>3 DEF LinkedUp
    <3>2. h[m].next \in Q
      <4>1. SeqIn(h, h[m].next) \in Nat /\ SeqIn(h, m) \in Nat
        BY <3>1, ListBasics
      <4> QED BY <3>1, <4>1
    <3> QED BY <1>1, <2>1, <3>1, <3>2 DEF LinkedUp
  <2> QED BY <2>2, <2>3
<1>4. Q \subseteq Node /\ \A m \in Q : g[m].packet \in Packet
  BY DEF IsList
<1> QED BY <1>2, <1>3, <1>4 DEF IsList

------------------------------------------------------------------------------
(* The inductive invariant: the nodes the code can reach are a list, and the *)
(* tail pointer leads to its last node.                                      *)

PointerType ==
  /\ firstNode \in Node \union {Null} /\ tailNode \in Node \union {Null}
  /\ heap \in [Node -> [packet : Packet \union {Null}, next : Node \union {Null}]]
  /\ popped \in Packet \union {Null}

TailIsLast ==
  \/ firstNode = Null /\ tailNode = Null
  \/ firstNode # Null /\ tailNode \in Reachable /\ heap[tailNode].next = Null

BufferInv ==
  /\ PointerType
  /\ IsList(firstNode, heap, Reachable)
  /\ TailIsLast

LEMMA ReachableIs ==
  /\ \A R : IsList(firstNode, heap, R) => Reachable = R
  /\ \A R : IsList(firstNode', heap', R) => Reachable' = R
BY WalkIs, ListReached DEF Reachable

LEMMA BufferInit == Init => BufferInv
<1>1. ASSUME Init PROVE BufferInv
  <2>1. IsList(firstNode, heap, {})
    BY <1>1 DEF Init, IsList, Ordered
  <2>2. Reachable = {}
    BY <2>1, ReachableIs
  <2> QED BY <1>1, <2>1, <2>2 DEF Init, BufferInv, PointerType, TailIsLast, Freed
<1> QED BY <1>1

LEMMA BufferUnchanged == BufferInv /\ UNCHANGED vars => BufferInv'
<1>1. ASSUME BufferInv, UNCHANGED vars PROVE BufferInv'
  <2>1. IsList(firstNode', heap', Reachable)
    BY <1>1 DEF BufferInv, vars
  <2>2. Reachable' = Reachable
    BY <2>1, ReachableIs
  <2> QED BY <1>1, <2>1, <2>2
           DEF BufferInv, PointerType, TailIsLast, vars
<1> QED BY <1>1

\* The loop of push always finds a node to leave at when the first seq is not
\* above the pushed one; the attachment at the tail after it is never run.
LEMMA PushStops ==
  ASSUME BufferInv, firstNode # Null, NEW s \in Nat, ~(NodeSeq(firstNode) > s)
  PROVE  /\ Stops(s) # {}
         /\ \A at \in Stops(s) : at \in Reachable /\ LeavesAt(at, s)
<1> DEFINE R == Reachable
           G == {m \in R : SeqIn(heap, m) <= s}
           T == {m \in R : LeavesAt(m, s)}
<1>1. IsList(firstNode, heap, R)
  BY DEF BufferInv
<1> HIDE DEF R
<1>2. Null \notin R /\ R \subseteq Node /\ \A m \in R : SeqIn(heap, m) \in Nat
  BY <1>1, ListBasics
<1>3. firstNode \in G
  BY <1>1, <1>2 DEF IsList, NodeSeq, SeqIn
<1>4. ASSUME NEW m \in G \ T PROVE heap[m].next \in G
  <2>1. LinkedUp(heap, R, m) /\ m # Null
    BY <1>1, <1>2 DEF IsList
  <2>2. SeqIn(heap, m) # s /\ SeqIn(heap, m) < s
    BY <1>2 DEF LeavesAt, NodeSeq, SeqIn
  <2>3. heap[m].next # Null /\ ~(SeqIn(heap, heap[m].next) > s)
    BY <2>1, <2>2 DEF LeavesAt, NodeSeq, SeqIn, NextOf
  <2>4. heap[m].next \in R
    BY <2>1, <2>3 DEF LinkedUp
  <2> QED BY <1>2, <2>3, <2>4
<1>5. PICK k \in 0..Size : Walk[k] \in T /\ \A j \in 0..(k - 1) : Walk[j] \in G \ T
  <2>1. G \in SUBSET R /\ T \in SUBSET R /\ firstNode \in G \union T
        /\ \A m \in G \ T : heap[m].next \in G \union T
    BY <1>3, <1>4
  <2> HIDE DEF G, T
  <2> QED BY <1>1, <2>1, Scan, WalkIs
<1>6. \A j \in 0..(k - 1) : ~LeavesAt(Walk[j], s)
  BY <1>5
<1>7. DOMAIN Walk = 0..Size
  BY WalkIs, WalkUnfolds
<1>8. Walk[k] \in Stops(s)
  BY <1>5, <1>6, <1>7 DEF Stops, R
<1> QED BY <1>8 DEF Stops

\* What a push that adds a packet does to the set of packets held.
LEMMA PushAdds ==
  ASSUME NEW n, NEW p \in Packet, Reachable' = Reachable \union {n},
         heap'[n].packet = p,
         \A m \in Reachable : heap'[m].packet = heap[m].packet,
         \A m \in Reachable : SeqIn(heap, m) # p.seq
  PROVE  Contents' = Push(Contents, p)
<1>1. Contents' = Contents \union {p}
  <2>1. \A m \in Reachable' : heap'[m].packet \in Contents \union {p}
    BY DEF Contents
  <2>2. \A q \in Contents \union {p} : \E m \in Reachable' : q = heap'[m].packet
    BY DEF Contents
  <2> QED BY <2>1, <2>2 DEF Contents
<1>2. p.seq \notin Seqs(Contents)
  BY DEF Seqs, Contents, SeqIn
<1> QED BY <1>1, <1>2 DEF Push

LEMMA PushKeeps ==
  ASSUME BufferInv, NEW new \in Node, NEW p \in Packet, PushPacket(new, p)
  PROVE  BufferInv' /\ Contents' = Push(Contents, p)
<1> DEFINE R == Reachable
<1>1. /\ IsList(firstNode, heap, R) /\ PointerType /\ TailIsLast
      /\ new \in Node \ R /\ p.seq \in Nat /\ new # Null
  BY PacketsHaveSeq, NodesAreFinite DEF BufferInv, PushPacket
<1>2. Null \notin R /\ R \subseteq Node /\ \A m \in R : SeqIn(heap, m) \in Nat
  BY <1>1, ListBasics
<1>3. CASE firstNode = Null
  <2>1. /\ heap' = [heap EXCEPT ![new] = [packet |-> p, next |-> Null]]
        /\ firstNode' = new /\ tailNode' = new /\ popped' = popped
    BY <1>3 DEF PushPacket
  <2>2. R = {}
    BY <1>1, <1>2, <1>3 DEF IsList
  <2>3. heap'[new] = [packet |-> p, next |-> Null]
    BY <1>1, <2>1 DEF PointerType
  <2>4. IsList(firstNode', heap', R \union {new})
    <3> DEFINE g == heap'
    <3>1. /\ g[new].packet = p /\ g[new].next = firstNode
          /\ \A m \in R : g[m] = heap[m]
      BY <1>3, <2>2, <2>3
    <3> HIDE DEF g, R
    <3>2. IsList(new, g, R \union {new})
      BY ONLY <1>1, <1>3, <3>1, InsertFront
    <3> QED BY <2>1, <3>2 DEF g
  <2>5. Reachable' = R \union {new}
    BY <2>4, ReachableIs
  <2>6. PointerType'
    BY <1>1, <2>1 DEF PointerType
  <2>7. BufferInv'
    BY <1>1, <2>1, <2>3, <2>4, <2>5, <2>6 DEF BufferInv, TailIsLast
  <2> QED BY <2>2, <2>3, <2>5, <2>7, PushAdds
<1>4. CASE firstNode # Null /\ NodeSeq(firstNode) > p.seq
  <2>1. /\ heap' = [heap EXCEPT ![new] = [packet |-> p, next |-> firstNode]]
        /\ firstNode' = new /\ tailNode' = tailNode /\ popped' = popped
    BY <1>4 DEF PushPacket
  <2>2. p.seq < SeqIn(heap, firstNode)
    BY <1>1, <1>2, <1>4 DEF NodeSeq, SeqIn, IsList
  <2>3. /\ heap'[new] = [packet |-> p, next |-> firstNode]
        /\ \A m \in R : heap'[m] = heap[m]
    BY <1>1, <1>2, <2>1 DEF PointerType
  <2>4. IsList(firstNode', heap', R \union {new})
    <3> DEFINE g == heap'
    <3>1. /\ g[new].packet = p /\ g[new].next = firstNode
          /\ \A m \in R : g[m] = heap[m]
      BY <2>3
    <3> HIDE DEF g, R
    <3>2. IsList(new, g, R \union {new})
      BY ONLY <1>1, <2>2, <3>1, InsertFront
    <3> QED BY <2>1, <3>2 DEF g
  <2>5. Reachable' = R \union {new}
    BY <2>4, ReachableIs
  <2>6. PointerType'
    BY <1>1, <2>1 DEF PointerType
  <2>7. BufferInv'
    BY <1>1, <1>4, <2>1, <2>3, <2>4, <2>5, <2>6 DEF BufferInv, TailIsLast
  <2>8. \A m \in R : SeqIn(heap, m) # p.seq
    BY <1>1, <1>2, <1>4, <2>2 DEF IsList, Ordered
  <2> QED BY <2>3, <2>5, <2>7, <2>8, PushAdds
<1>5. CASE firstNode # Null /\ ~(NodeSeq(firstNode) > p.seq)
  <2>1. PICK at \in Stops(p.seq) : Insert(new, p, at)
    BY <1>1, <1>5, PushStops DEF PushPacket
  <2>2. /\ at \in R /\ at # Null /\ LeavesAt(at, p.seq) /\ at # new
        /\ firstNode' = firstNode /\ popped' = popped
    BY <1>1, <1>2, <1>5, PushStops DEF PushPacket
  <2>3. CASE NodeSeq(at) = p.seq
    <3>1. UNCHANGED <<heap, tailNode, firstNode, popped>>
      BY <2>1, <2>2, <2>3 DEF Insert
    <3>2. UNCHANGED vars
      BY <3>1 DEF vars
    <3>3. BufferInv'
      BY <3>2, BufferUnchanged
    <3>4. Reachable' = R
      BY <1>1, <3>1, ReachableIs
    <3>5. Contents' = Contents
      BY <3>1, <3>4 DEF Contents
    <3>6. p.seq \in Seqs(Contents)
      BY <2>2, <2>3 DEF Contents, Seqs, NodeSeq
    <3> QED BY <3>3, <3>5, <3>6 DEF Push
  <2>4. CASE NodeSeq(at) # p.seq
    <3>1. /\ heap' = [heap EXCEPT ![at].next = new,
                                  ![new] = [packet |-> p, next |-> NextOf(at)]]
          /\ tailNode' = IF NextOf(at) = Null THEN new ELSE tailNode
      BY <2>1, <2>4 DEF Insert
    <3>2. NextOf(at) = heap[at].next /\ NextOf(at) \in Node \union {Null}
      BY <1>1, <1>2, <2>2 DEF NextOf, PointerType
    <3>3. /\ SeqIn(heap, at) < p.seq
          /\ heap[at].next = Null \/ p.seq < SeqIn(heap, heap[at].next)
      <4>1. /\ SeqIn(heap, at) < p.seq
            /\ heap[at].next = Null \/ SeqIn(heap, heap[at].next) > p.seq
        BY <2>2, <2>4, <3>2 DEF LeavesAt, NodeSeq, SeqIn
      <4>2. heap[at].next = Null \/ SeqIn(heap, heap[at].next) \in Nat
        BY <1>1, <1>2, <2>2 DEF IsList, LinkedUp
      <4> QED BY <1>1, <4>1, <4>2
    <3>4. /\ heap'[new].packet = p /\ heap'[new].next = heap[at].next
          /\ heap'[at].packet = heap[at].packet /\ heap'[at].next = new
          /\ \A m \in R \ {at} : heap'[m] = heap[m]
      BY <1>1, <1>2, <2>2, <3>1, <3>2 DEF PointerType
    <3>5. /\ IsList(firstNode', heap', R \union {new})
          /\ \A m \in R : SeqIn(heap, m) # p.seq
      <4> DEFINE g == heap'
      <4>1. IsBehind(g, new, p, at, heap, R)
        BY <3>4 DEF IsBehind
      <4> HIDE DEF g, R
      <4>2. /\ IsList(firstNode, g, R \union {new})
            /\ \A m \in R : SeqIn(heap, m) # p.seq
        BY ONLY <1>1, <2>2, <3>3, <4>1, InsertBehind
      <4> QED BY <2>2, <4>2 DEF g
    <3>6. Reachable' = R \union {new}
      BY <3>5, ReachableIs
    <3>7. PointerType'
      BY <1>1, <2>2, <3>1, <3>2 DEF PointerType
    <3>8. TailIsLast'
      BY <1>1, <1>5, <2>2, <3>1, <3>2, <3>4, <3>6 DEF TailIsLast
    <3>9. \A m \in R : heap'[m].packet = heap[m].packet
      BY <3>4
    <3> QED BY <3>4, <3>5, <3>6, <3>7, <3>8, <3>9, PushAdds DEF BufferInv
  <2> QED BY <2>3, <2>4
<1> QED BY <1>3, <1>4, <1>5

\* What the list holds when nodes have left it and the others are untouched.
LEMMA ContentsLeft ==
  ASSUME NEW Q \in SUBSET Reachable, Reachable' = Q,
         \A m \in Q : heap'[m] = heap[m]
  PROVE  Contents' = {heap[m].packet : m \in Q}
BY DEF Contents

LEMMA PopKeeps ==
  ASSUME BufferInv, Pop
  PROVE  BufferInv' /\ Sorted!PopFront
<1> DEFINE R == Reachable
           Q == R \ {firstNode}
<1>1. IsList(firstNode, heap, R) /\ PointerType /\ TailIsLast
  BY DEF BufferInv
<1>2. Null \notin R /\ R \subseteq Node /\ \A m \in R : SeqIn(heap, m) \in Nat
  BY <1>1, ListBasics
<1>3. CASE firstNode = Null
  <2>1. R = {}
    BY <1>1, <1>2, <1>3 DEF IsList
  <2>2. /\ firstNode' = Null /\ tailNode' = Null /\ popped' = Null
        /\ heap' = heap
    <3>1. \A n \in Node : n # firstNode
      BY <1>3, NodesAreFinite
    <3> QED BY <1>1, <1>3, <3>1 DEF Pop, NextOf, PointerType
  <2>3. IsList(firstNode', heap', R)
    BY <1>1, <1>3, <2>2
  <2>4. Reachable' = {}
    BY <2>1, <2>3, ReachableIs
  <2>5. Contents = {} /\ Contents' = {}
    BY <2>1, <2>4 DEF Contents
  <2>6. PointerType' /\ TailIsLast'
    BY <1>1, <2>2 DEF PointerType, TailIsLast
  <2> QED BY <2>1, <2>2, <2>3, <2>4, <2>5, <2>6 DEF BufferInv, Sorted!PopFront
<1>4. CASE firstNode # Null
  <2>1. firstNode \in R /\ LinkedUp(heap, R, firstNode)
    BY <1>1, <1>4 DEF IsList
  <2>2. /\ firstNode' = heap[firstNode].next
        /\ tailNode' = IF firstNode' = Null THEN Null ELSE tailNode
        /\ popped' = heap[firstNode].packet
        /\ heap' = [n \in Node |-> IF n = firstNode THEN Freed ELSE heap[n]]
    BY <1>4 DEF Pop, NextOf
  <2>3. \A m \in Q : heap'[m] = heap[m]
    BY <1>2, <2>2
  <2>4. \A m \in Q : SeqIn(heap, firstNode) < SeqIn(heap, m)
    BY <1>1, <1>2, <2>1 DEF IsList, Ordered
  <2>5. \/ firstNode' = Null /\ Q = {}
        \/ firstNode' \in Q /\ \A m \in Q : SeqIn(heap, firstNode') <= SeqIn(heap, m)
    <3>1. CASE heap[firstNode].next = Null
      BY <1>2, <2>1, <2>2, <2>4, <3>1 DEF LinkedUp
    <3>2. CASE heap[firstNode].next # Null
      BY <1>2, <2>1, <2>2, <2>4, <3>2 DEF LinkedUp
    <3> QED BY <3>1, <3>2
  <2>6. \A m \in Q, n \in R : SeqIn(heap, m) <= SeqIn(heap, n) => n \in Q
    BY <1>2, <2>1, <2>4
  <2>7. IsList(firstNode', heap', Q)
    <3> DEFINE g == heap'
               first == firstNode'
    <3>1. /\ Q \in SUBSET R /\ \A m \in Q : g[m] = heap[m]
          /\ (first = Null /\ Q = {}) \/ first \in Q
          /\ \A m \in Q : SeqIn(heap, first) <= SeqIn(heap, m)
      BY <2>3, <2>5
    <3> HIDE DEF g, first, Q, R
    <3>2. IsList(first, g, Q)
      BY ONLY <1>1, <2>6, <3>1, DropFront
    <3> QED BY <3>2 DEF g, first
  <2>8. Reachable' = Q
    BY <2>7, ReachableIs
  <2>9. PointerType'
    <3>1. heap[firstNode].next \in Node \union {Null}
          /\ heap[firstNode].packet \in Packet
      BY <1>1, <1>2, <2>1 DEF PointerType, IsList
    <3> QED BY <1>1, <2>2, <3>1 DEF PointerType, Freed
  <2>10. TailIsLast'
    <3>1. CASE firstNode' = Null
      BY <2>2, <3>1 DEF TailIsLast
    <3>2. CASE firstNode' # Null
      <4>1. tailNode \in Q /\ heap[tailNode].next = Null
        BY <1>1, <1>4, <2>2, <3>2 DEF TailIsLast
      <4> QED BY <2>2, <2>3, <2>8, <3>2, <4>1 DEF TailIsLast
    <3> QED BY <3>1, <3>2
  <2>11. Contents' = {heap[m].packet : m \in Q}
    BY <2>3, <2>8, ContentsLeft
  <2> DEFINE p == heap[firstNode].packet
  <2>12. p \in Contents /\ \A m \in R : SeqIn(heap, firstNode) <= SeqIn(heap, m)
    BY <1>1, <2>1 DEF Contents, IsList, Ordered
  <2>13. FrontIs(Contents, p.seq)
    BY <2>12 DEF FrontIs, Seqs, Contents, SeqIn
  <2>14. Contents' = Contents \ {p}
    <3>1. \A m \in Q : heap[m].packet # p
      BY <1>2, <2>1, <2>4 DEF SeqIn
    <3> QED BY <2>11, <3>1 DEF Contents
  <2>15. Sorted!PopFront
    <3>1. Sorted!FrontIs(Contents, p.seq)
      BY <2>13 DEF Sorted!FrontIs, Sorted!Seqs, FrontIs, Seqs
    <3> QED BY <2>2, <2>12, <2>14, <3>1 DEF Sorted!PopFront
  <2> QED BY <2>7, <2>8, <2>9, <2>10, <2>15 DEF BufferInv
<1> QED BY <1>3, <1>4

\* The loop of clearThrough takes away the nodes whose seq is at most ack.
LEMMA ClearedIs ==
  ASSUME BufferInv, NEW ack \in Nat
  PROVE  Cleared(ack) = {n \in Reachable : SeqIn(heap, n) <= ack}
<1> DEFINE R == Reachable
<1>1. IsList(firstNode, heap, R)
  BY DEF BufferInv
<1> HIDE DEF R
<1>2. Null \notin R /\ \A m \in R : SeqIn(heap, m) \in Nat
  BY <1>1, ListBasics
<1>3. DOMAIN Walk = 0..Size
  BY WalkIs, WalkUnfolds
<1>4. {Walk[k] : k \in DOMAIN Walk} \ {Null} = R
  BY <1>1, ListReached, WalkIs
<1>5. \A k \in 0..Size : Walk[k] \in R =>
        \A j \in 0..(k - 1) :
          Walk[j] \in R /\ SeqIn(heap, Walk[j]) < SeqIn(heap, Walk[k])
  BY <1>1, WalkRises, WalkIs
<1>6. ASSUME NEW n \in Cleared(ack) PROVE n \in R /\ SeqIn(heap, n) <= ack
  <2>1. PICK k \in DOMAIN Walk :
          /\ Walk[k] = n
          /\ \A j \in 0..k : NodeSeq(Walk[j]) <= ack
    BY DEF Cleared
  <2>2. k \in 0..k
    BY <1>3, <2>1, SizeIsNat
  <2> QED BY <2>1, <2>2 DEF Cleared, R, NodeSeq, SeqIn
<1>7. ASSUME NEW n \in R, SeqIn(heap, n) <= ack PROVE n \in Cleared(ack)
  <2>1. PICK k \in 0..Size : Walk[k] = n
    BY <1>3, <1>4
  <2>2. ASSUME NEW j \in 0..k PROVE SeqIn(heap, Walk[j]) <= ack
    <3>1. CASE j = k
      BY <1>7, <2>1, <3>1
    <3>2. CASE j \in 0..(k - 1)
      BY <1>2, <1>5, <1>7, <2>1, <3>2
    <3> QED BY <3>1, <3>2, SizeIsNat
  <2> QED BY <1>3, <2>1, <2>2 DEF Cleared, R, NodeSeq, SeqIn
<1> QED BY <1>6, <1>7 DEF R

\* The node behind the cleared ones, counted from the front, is the first of
\* those that stay.
LEMMA ClearStopsAt ==
  ASSUME BufferInv, NEW ack \in Nat, NEW Q, Q # {},
         Q = {n \in Reachable : ~(SeqIn(heap, n) <= ack)}
  PROVE  LET first == Walk[Cardinality(Cleared(ack))]
         IN first \in Q /\ \A m \in Q : SeqIn(heap, first) <= SeqIn(heap, m)
<1> DEFINE R == Reachable
           C == Cleared(ack)
<1>1. IsList(firstNode, heap, R)
  BY DEF BufferInv
<1>2. C = {n \in R : SeqIn(heap, n) <= ack} /\ Q = R \ C
  BY ClearedIs
<1> HIDE DEF R, C
<1>3. /\ Null \notin R /\ \A m \in R : SeqIn(heap, m) \in Nat
      /\ IsFiniteSet(R)
  BY <1>1, ListBasics
<1>4. /\ DOMAIN Walk = 0..Size
      /\ {Walk[k] : k \in DOMAIN Walk} \ {Null} = R
      /\ \A k \in 0..Size : Walk[k] \in R =>
           \A j \in 0..(k - 1) :
             Walk[j] \in R /\ SeqIn(heap, Walk[j]) < SeqIn(heap, Walk[k])
      /\ \A i, j \in 0..Size : Walk[i] \in R /\ Walk[i] = Walk[j] => i = j
  BY <1>1, WalkUnfolds, ListReached, WalkRises, WalkInjective, WalkIs
<1>5. PICK k \in 0..Size : Walk[k] \in Q /\ \A j \in 0..(k - 1) : Walk[j] \in C
  <2>1. ASSUME NEW m \in C PROVE heap[m].next \in R
    <3>1. LinkedUp(heap, R, m)
      BY <1>1, <1>2 DEF IsList
    <3>2. PICK q \in Q : TRUE
      OBVIOUS
    <3>3. ~(SeqIn(heap, q) <= SeqIn(heap, m))
      BY <1>2, <1>3
    <3> QED BY <1>2, <3>1, <3>3 DEF LinkedUp
  <2>2. firstNode \in R
    BY <1>1, <1>2 DEF IsList
  <2>3. C \in SUBSET R /\ Q \in SUBSET R /\ firstNode \in C \union Q
        /\ \A m \in C \ Q : heap[m].next \in C \union Q
    BY <1>2, <2>1, <2>2
  <2>4. \E k \in 0..Size : Walk[k] \in Q /\ \A j \in 0..(k - 1) : Walk[j] \in C \ Q
    BY ONLY <1>1, <2>3, Scan, WalkIs, SMTT(40)
  <2> QED BY <1>2, <2>4
<1>6. \A n \in R : \E i \in 0..Size : Walk[i] = n
  BY <1>4
<1>7. \A i \in 0..Size : Walk[i] \in R /\ k < i =>
        SeqIn(heap, Walk[k]) < SeqIn(heap, Walk[i])
  BY <1>4, SizeIsNat
<1>8. \A i \in 0..Size : Walk[i] \in C => i < k
  <2>1. SUFFICES ASSUME NEW i \in 0..Size, Walk[i] \in C, ~(i < k) PROVE FALSE
    OBVIOUS
  <2>2. i # k
    BY <1>2, <1>5, <2>1
  <2>3. SeqIn(heap, Walk[k]) < SeqIn(heap, Walk[i])
    BY <1>2, <1>7, <2>1, <2>2, SizeIsNat
  <2> QED BY <1>2, <1>3, <1>5, <2>1, <2>3
<1>9. Cardinality(C) = k
  <2> DEFINE b == [i \in 1..k |-> Walk[i - 1]]
  <2>1. b \in [1..k -> C]
    BY <1>5
  <2>2. \A i, j \in 1..k : b[i] = b[j] => i = j
    <3>1. SUFFICES ASSUME NEW i \in 1..k, NEW j \in 1..k, Walk[i - 1] = Walk[j - 1]
                   PROVE  i = j
      OBVIOUS
    <3>2. i - 1 \in 0..Size /\ j - 1 \in 0..Size /\ i - 1 \in 0..(k - 1)
      BY SizeIsNat
    <3>3. Walk[i - 1] \in R
      BY <1>2, <1>5, <3>2
    <3>4. i - 1 = j - 1
      BY <1>4, <3>1, <3>2, <3>3
    <3> QED BY <3>4
  <2>3. ASSUME NEW n \in C PROVE \E i \in 1..k : b[i] = n
    <3>1. PICK i \in 0..Size : Walk[i] = n
      BY <1>2, <1>6
    <3>2. i + 1 \in 1..k /\ (i + 1) - 1 = i
      BY <1>8, <3>1, SizeIsNat
    <3>3. b[i + 1] = n
      BY <3>1, <3>2
    <3> QED BY <3>2, <3>3
  <2> HIDE DEF b
  <2>4. b \in Bijection(1..k, C)
    BY <2>1, <2>2, <2>3 DEF Bijection, Injection, Surjection, IsInjective
  <2>5. ExistsBijection(1..k, C)
    BY <2>4 DEF ExistsBijection
  <2> QED BY <2>5, SizeIsNat, FS_CountingElements
<1>10. ASSUME NEW m \in Q PROVE SeqIn(heap, Walk[k]) <= SeqIn(heap, m)
  <2>1. PICK i \in 0..Size : Walk[i] = m
    BY <1>2, <1>6
  <2>2. ~(i < k)
    BY <1>2, <1>5, <2>1, SizeIsNat
  <2>3. CASE i = k
    BY <1>2, <1>3, <2>1, <2>3
  <2>4. CASE k < i
    BY <1>2, <1>3, <1>5, <1>7, <2>1, <2>4
  <2> QED BY <2>2, <2>3, <2>4, SizeIsNat
<1> QED BY <1>5, <1>9, <1>10 DEF C

LEMMA ClearKeeps ==
  ASSUME BufferInv, NEW ack \in Nat, ClearList(ack)
  PROVE  BufferInv' /\ Sorted!ClearTo(ack)
<1> DEFINE R == Reachable
           C == Cleared(ack)
           Q == {n \in R : ~(SeqIn(heap, n) <= ack)}
<1>1. IsList(firstNode, heap, R) /\ PointerType /\ TailIsLast
  BY DEF BufferInv
<1>2. C = {n \in R : SeqIn(heap, n) <= ack} /\ Q = R \ C
  BY ClearedIs
<1>3. Null \notin R /\ R \subseteq Node /\ \A m \in R : SeqIn(heap, m) \in Nat
  BY <1>1, ListBasics
<1>4. /\ firstNode' = IF \A n \in R : n \in C THEN Null ELSE Walk[Cardinality(C)]
      /\ heap' = [n \in Node |-> IF n \in C THEN Freed ELSE heap[n]]
      /\ tailNode' = IF firstNode' = Null THEN Null ELSE tailNode
      /\ popped' = popped
  BY DEF ClearList
<1>5. \A m \in Q : heap'[m] = heap[m]
  BY <1>2, <1>3, <1>4
<1>6. \/ firstNode' = Null /\ Q = {}
      \/ firstNode' \in Q /\ \A m \in Q : SeqIn(heap, firstNode') <= SeqIn(heap, m)
  <2>1. CASE Q = {}
    BY <1>2, <1>4, <2>1
  <2>2. CASE Q # {}
    <3>1. firstNode' = Walk[Cardinality(C)]
      BY <1>2, <1>4, <2>2
    <3>2. LET first == Walk[Cardinality(C)]
          IN first \in Q /\ \A m \in Q : SeqIn(heap, first) <= SeqIn(heap, m)
      BY <2>2, ClearStopsAt
    <3> QED BY <3>1, <3>2
  <2> QED BY <2>1, <2>2
<1>7. \A m \in Q, n \in R : SeqIn(heap, m) <= SeqIn(heap, n) => n \in Q
  BY <1>3
<1>8. IsList(firstNode', heap', Q)
  <2> DEFINE g == heap'
             first == firstNode'
  <2>1. /\ Q \in SUBSET R /\ \A m \in Q : g[m] = heap[m]
        /\ (first = Null /\ Q = {}) \/ first \in Q
        /\ \A m \in Q : SeqIn(heap, first) <= SeqIn(heap, m)
    BY <1>5, <1>6
  <2> HIDE DEF g, first, Q, R
  <2>2. IsList(first, g, Q)
    BY ONLY <1>1, <1>7, <2>1, DropFront
  <2> QED BY <2>2 DEF g, first
<1>9. Reachable' = Q
  BY <1>8, ReachableIs
<1>10. PointerType'
  BY <1>1, <1>3, <1>4, <1>6 DEF PointerType, Freed
<1>11. TailIsLast'
  <2>1. CASE firstNode' = Null
    BY <1>4, <2>1 DEF TailIsLast
  <2>2. CASE firstNode' # Null
    <3>1. tailNode \in R /\ heap[tailNode].next = Null /\ tailNode' = tailNode
      BY <1>1, <1>2, <1>3, <1>4, <1>6, <2>2 DEF TailIsLast, IsList
    <3>2. LinkedUp(heap, R, tailNode) /\ firstNode' \in Q
      BY <1>1, <1>6, <2>2, <3>1 DEF IsList
    <3>3. SeqIn(heap, firstNode') <= SeqIn(heap, tailNode)
      BY <1>3, <3>1, <3>2 DEF LinkedUp
    <3>4. tailNode \in Q
      BY <1>7, <3>1, <3>2, <3>3
    <3> QED BY <1>5, <1>9, <2>2, <3>1, <3>4 DEF TailIsLast
  <2> QED BY <2>1, <2>2
<1>12. Contents' = {heap[m].packet : m \in Q}
  BY <1>5, <1>9, ContentsLeft
<1>13. Contents' = ClearThrough(Contents, ack)
  <2>1. Contents' \subseteq ClearThrough(Contents, ack)
    BY <1>3, <1>12 DEF ClearThrough, Contents, SeqIn
  <2>2. ASSUME NEW q \in ClearThrough(Contents, ack) PROVE q \in Contents'
    <3>1. q.seq > ack /\ q \in Contents
      BY DEF ClearThrough
    <3>2. PICK m \in R : q = heap[m].packet
      BY <3>1 DEF Contents
    <3>3. SeqIn(heap, m) \in Nat /\ SeqIn(heap, m) > ack
      BY <1>3, <3>1, <3>2 DEF SeqIn
    <3> QED BY <1>12, <3>2, <3>3
  <2> QED BY <2>1, <2>2
<1>14. Sorted!ClearTo(ack)
  BY <1>4, <1>13 DEF Sorted!ClearTo, Sorted!ClearThrough, ClearThrough
<1> QED BY <1>8, <1>9, <1>10, <1>11, <1>14 DEF BufferInv

\* Every step keeps the list a list, and is a step of the sorted buffer.
LEMMA BufferStep ==
  ASSUME BufferInv, [Next]_vars
  PROVE  BufferInv' /\ [Sorted!Next]_(Sorted!vars)
<1>1. ASSUME NEW new \in Node, NEW p \in Packet, PushPacket(new, p)
      PROVE  BufferInv' /\ [Sorted!Next]_(Sorted!vars)
  <2>1. BufferInv' /\ Contents' = Push(Contents, p) /\ popped' = popped
    BY <1>1, PushKeeps DEF PushPacket
  <2>2. Sorted!PushOne(p)
    BY <2>1 DEF Sorted!PushOne, Sorted!Push, Sorted!Seqs, Push, Seqs
  <2> QED BY <2>1, <2>2 DEF Sorted!Next
<1>2. CASE Pop
  BY <1>2, PopKeeps DEF Sorted!Next
<1>3. ASSUME NEW p \in Packet, ClearList(p.seq)
      PROVE  BufferInv' /\ [Sorted!Next]_(Sorted!vars)
  <2>1. p.seq \in Nat
    BY PacketsHaveSeq
  <2>2. BufferInv' /\ Sorted!ClearTo(p.seq)
    BY <1>3, <2>1, ClearKeeps
  <2> QED BY <2>2 DEF Sorted!Next
<1>4. CASE UNCHANGED vars
  <2>1. BufferInv'
    BY <1>4, BufferUnchanged
  <2>2. IsList(firstNode', heap', Reachable)
    BY <1>4 DEF BufferInv, vars
  <2>3. Reachable' = Reachable
    BY <2>2, ReachableIs
  <2>4. Contents' = Contents /\ popped' = popped
    BY <1>4, <2>3 DEF Contents, vars
  <2> QED BY <2>1, <2>4 DEF Sorted!vars
<1> QED BY <1>1, <1>2, <1>3, <1>4 DEF Next

\* The pointers always form a list that is sorted by seq, without a cycle, and
\* the tail pointer leads to its last node.
THEOREM BufferInvariant == Spec => []BufferInv
<1>1. Init => BufferInv
  BY BufferInit
<1>2. BufferInv /\ [Next]_vars => BufferInv'
  BY BufferStep
<1> QED BY <1>1, <1>2, PTL DEF Spec

\* Every pointer leads to a node or to nil, and a node the list reaches holds
\* a packet.
THEOREM TypeCorrect == Spec => []TypeOK
<1>1. BufferInv => TypeOK
  BY DEF BufferInv, PointerType, IsList, TypeOK
<1> QED BY <1>1, BufferInvariant, PTL

\* The linked list is a sorted buffer: a push keeps the first packet with a
\* number, a pop takes the lowest number, and clearThrough takes the packets
\* up to the number it is given.
THEOREM SortedCorrect == Spec => SortedSpec
<1>1. Init => Sorted!Init
  <2>1. ASSUME Init PROVE Sorted!Init
    <3>1. IsList(firstNode, heap, {})
      BY <2>1 DEF Init, IsList, Ordered
    <3>2. Reachable = {}
      BY <3>1, ReachableIs
    <3> QED BY <2>1, <3>2 DEF Init, Sorted!Init, Contents
  <2> QED BY <2>1
<1>2. BufferInv /\ [Next]_vars => [Sorted!Next]_(Sorted!vars)
  BY BufferStep
<1> QED BY <1>1, <1>2, BufferInvariant, PTL DEF Spec, SortedSpec, Sorted!Spec

------------------------------------------------------------------------------
(* The queries.                                                              *)

\* length, which follows the pointers unless the first node is the last one.
LEMMA LengthIs ==
  ASSUME BufferInv
  PROVE  Length = Cardinality(Contents)
<1> DEFINE R == Reachable
<1>1. IsList(firstNode, heap, R) /\ TailIsLast
  BY DEF BufferInv
<1>2. Null \notin R /\ \A m \in R : SeqIn(heap, m) \in Nat
  BY <1>1, ListBasics
<1>3. CASE firstNode = Null
  <2>1. R = {}
    BY <1>1, <1>2, <1>3 DEF IsList
  <2>2. Contents = {}
    BY <2>1 DEF Contents
  <2> QED BY <1>3, <2>2, FS_EmptySet DEF Length
<1>4. CASE firstNode # Null /\ firstNode = tailNode
  <2>1. firstNode \in R /\ heap[firstNode].next = Null
    BY <1>1, <1>4 DEF TailIsLast
  <2>2. LinkedUp(heap, R, firstNode)
    BY <1>1, <2>1 DEF IsList
  <2>3. \A m \in R : m = firstNode
    BY <1>1, <1>2, <2>1, <2>2 DEF LinkedUp, IsList, Ordered
  <2>4. Contents = {heap[firstNode].packet}
    BY <2>1, <2>3 DEF Contents
  <2> QED BY <1>4, <2>4, FS_Singleton DEF Length
<1>5. CASE firstNode # Null /\ firstNode # tailNode
  <2> DEFINE K == {k \in DOMAIN Walk : Walk[k] # Null}
             b == [k \in K |-> heap[Walk[k]].packet]
  <2>1. /\ DOMAIN Walk = 0..Size
        /\ {Walk[k] : k \in DOMAIN Walk} \ {Null} = R
        /\ \A i, j \in 0..Size : Walk[i] \in R /\ Walk[i] = Walk[j] => i = j
    BY <1>1, WalkUnfolds, ListReached, WalkInjective, WalkIs
  <2>2. \A k \in K : k \in 0..Size /\ Walk[k] \in R
    BY <2>1
  <2>3. b \in [K -> Contents]
    BY <2>2 DEF Contents
  <2>4. \A i, j \in K : b[i] = b[j] => i = j
    <3>1. SUFFICES ASSUME NEW i \in K, NEW j \in K,
                          heap[Walk[i]].packet = heap[Walk[j]].packet
                   PROVE  i = j
      OBVIOUS
    <3>2. Walk[i] = Walk[j]
      BY <1>1, <2>2, <3>1 DEF IsList, Ordered, SeqIn
    <3> QED BY <2>1, <2>2, <3>2
  <2>5. \A q \in Contents : \E k \in K : b[k] = q
    BY <2>1 DEF Contents
  <2>6. IsFiniteSet(K)
    <3>1. IsFiniteSet(0..Size)
      BY SizeIsNat, FS_Interval
    <3> QED BY <2>2, <3>1, FS_Subset
  <2>7. Length = Cardinality(K)
    BY <1>4, <1>5 DEF Length
  <2> HIDE DEF b, K
  <2>8. b \in Bijection(K, Contents)
    BY <2>3, <2>4, <2>5 DEF Bijection, Injection, Surjection, IsInjective
  <2>9. ExistsBijection(K, Contents)
    BY <2>8 DEF ExistsBijection
  <2> QED BY <2>6, <2>7, <2>9, FS_Bijection
<1> QED BY <1>3, <1>4, <1>5

\* missingSeqFrom, which lists the numbers in front of the first node and
\* those between two nodes.
LEMMA ListMissingIs ==
  ASSUME BufferInv, NEW n \in Nat
  PROVE  ListMissingFrom(n) = MissingSeqFrom(Contents, n)
<1> DEFINE R == Reachable
<1>1. IsList(firstNode, heap, R)
  BY DEF BufferInv
<1>2. Null \notin R /\ \A m \in R : SeqIn(heap, m) \in Nat
  BY <1>1, ListBasics
<1>3. \A m \in R : heap[m].packet \in Contents /\ heap[m].packet.seq = SeqIn(heap, m)
  BY DEF Contents, SeqIn
<1>4. \A q \in Contents : \E m \in R : q = heap[m].packet /\ q.seq = SeqIn(heap, m)
  BY DEF Contents, SeqIn
<1>5. ASSUME NEW i \in n..(FrontSeq - 1) PROVE i \in MissingSeqFrom(Contents, n)
  <2>1. firstNode # Null
    BY DEF FrontSeq
  <2>2. firstNode \in R /\ FrontSeq = SeqIn(heap, firstNode)
    BY <1>1, <2>1 DEF IsList, FrontSeq, NodeSeq, SeqIn
  <2>3. i \in Nat /\ i >= n /\ i < SeqIn(heap, firstNode)
    BY <1>2, <2>2
  <2>4. \A m \in R : i < SeqIn(heap, m)
    BY <1>1, <1>2, <2>2, <2>3 DEF IsList, Ordered
  <2>5. i \notin Seqs(Contents)
    BY <1>2, <1>4, <2>3, <2>4 DEF Seqs
  <2>6. i \in UNION {0..(p.seq - 1) : p \in Contents}
    BY <1>2, <1>3, <2>2, <2>3
  <2> QED BY <2>3, <2>5, <2>6 DEF MissingSeqFrom
<1>6. ASSUME NEW x \in R, NextOf(x) # Null,
             NEW i \in (NodeSeq(x) + 1)..(NodeSeq(NextOf(x)) - 1)
      PROVE  i \in MissingSeqFrom(Contents, n)
  <2> DEFINE y == heap[x].next
  <2>1. y \in R /\ NextOf(x) = y /\ LinkedUp(heap, R, x) /\ y # Null
    BY <1>1, <1>2, <1>6 DEF IsList, LinkedUp, NextOf
  <2>2. i \in Nat /\ SeqIn(heap, x) < i /\ i < SeqIn(heap, y)
    BY <1>2, <2>1 DEF NodeSeq, SeqIn
  <2>3. \A m \in R : SeqIn(heap, m) <= SeqIn(heap, x) \/ SeqIn(heap, y) <= SeqIn(heap, m)
    BY <2>1 DEF LinkedUp
  <2> HIDE DEF y
  <2>4. i \notin Seqs(Contents)
    BY <1>2, <1>4, <2>1, <2>2, <2>3 DEF Seqs
  <2>5. i \in UNION {0..(p.seq - 1) : p \in Contents}
    BY <1>2, <1>3, <2>1, <2>2
  <2>6. \E p \in Contents : p.seq < i
    BY <1>3, <2>2
  <2> QED BY <2>4, <2>5, <2>6 DEF MissingSeqFrom
<1>7. ASSUME NEW i \in MissingSeqFrom(Contents, n) PROVE i \in ListMissingFrom(n)
  <2>1. PICK q \in Contents : i \in 0..(q.seq - 1)
    BY DEF MissingSeqFrom
  <2>2. PICK last \in R : q.seq = SeqIn(heap, last)
    BY <1>4
  <2>3. i \in Nat /\ i < SeqIn(heap, last)
    BY <1>2, <2>1, <2>2
  <2>4. \A m \in R : SeqIn(heap, m) # i
    BY <1>3 DEF MissingSeqFrom, Seqs
  <2>5. firstNode \in R /\ firstNode # Null /\ FrontSeq = SeqIn(heap, firstNode)
    BY <1>1, <1>2, <2>2 DEF IsList, FrontSeq, NodeSeq, SeqIn
  <2>6. CASE i < FrontSeq
    <3>1. \A m \in R : ~(SeqIn(heap, m) < i)
      BY <1>1, <1>2, <2>3, <2>5, <2>6 DEF IsList, Ordered
    <3>2. i >= n
      BY <1>4, <3>1 DEF MissingSeqFrom
    <3>3. i \in n..(FrontSeq - 1)
      BY <1>2, <2>3, <2>5, <2>6, <3>2
    <3> QED BY <3>3 DEF ListMissingFrom
  <2>7. CASE ~(i < FrontSeq)
    <3> DEFINE G == {m \in R : SeqIn(heap, m) < i}
               T == {m \in G : heap[m].next \in R /\ i < SeqIn(heap, heap[m].next)}
    <3>1. firstNode \in G
      BY <1>2, <2>3, <2>4, <2>5, <2>7
    <3>2. ASSUME NEW m \in G \ T PROVE heap[m].next \in G
      <4>1. LinkedUp(heap, R, m) /\ SeqIn(heap, m) < i
        BY <1>1 DEF IsList
      <4>2. ~(SeqIn(heap, last) <= SeqIn(heap, m))
        BY <1>2, <2>2, <2>3, <4>1
      <4>3. heap[m].next \in R
        BY <2>2, <4>1, <4>2 DEF LinkedUp
      <4> QED BY <1>2, <2>3, <2>4, <4>3
    <3>3. G \in SUBSET R /\ T \in SUBSET R /\ firstNode \in G \union T
          /\ \A m \in G \ T : heap[m].next \in G \union T
      BY <3>1, <3>2
    <3>4. \E k \in 0..Size : Walk[k] \in T /\ \A j \in 0..(k - 1) : Walk[j] \in G \ T
      <4> HIDE DEF G, T, R
      <4>1. IsList(firstNode, heap, R)
        BY <1>1
      <4>2. LET w == WalkFrom(firstNode, heap)
            IN \E k \in 0..Size : w[k] \in T /\ \A j \in 0..(k - 1) : w[j] \in G \ T
        BY ONLY <4>1, <3>3, Scan
      <4> QED BY <4>2, WalkIs
    <3>5. PICK x \in T : TRUE
      BY <3>4
    <3>6. /\ x \in R /\ x # Null /\ heap[x].next \in R /\ SeqIn(heap, x) < i
          /\ i < SeqIn(heap, heap[x].next)
      BY <1>2
    <3>7. NextOf(x) = heap[x].next /\ NextOf(x) # Null
      BY <1>2, <3>6 DEF NextOf
    <3>8. i \in (NodeSeq(x) + 1)..(NodeSeq(NextOf(x)) - 1)
      <4>1. SeqIn(heap, x) \in Nat /\ SeqIn(heap, heap[x].next) \in Nat
        BY <1>2, <3>6
      <4> QED BY <2>3, <3>6, <3>7, <4>1 DEF NodeSeq, SeqIn
    <3> QED BY <3>6, <3>7, <3>8 DEF ListMissingFrom
  <2> QED BY <2>6, <2>7
<1>8. ListMissingFrom(n) \subseteq MissingSeqFrom(Contents, n)
  BY <1>5, <1>6 DEF ListMissingFrom
<1> QED BY <1>7, <1>8

\* The queries that walk the list agree with what they say of the set of
\* packets held: length with its shortcut, the numbers a miss request lists,
\* and the packets a miss request selects.
THEOREM QueriesCorrect == Spec => []QueriesAgree
<1>1. ASSUME BufferInv PROVE QueriesAgree
  <2>1. Length = Cardinality(Contents)
    BY <1>1, LengthIs
  <2>2. \A n \in 0..4 : ListMissingFrom(n) = MissingSeqFrom(Contents, n)
    BY <1>1, ListMissingIs
  <2>3. ASSUME NEW miss \in SUBSET Seqs(Packet)
        PROVE  ListPacketsForMiss(miss) = PacketsForMiss(Contents, miss)
    BY DEF ListPacketsForMiss, PacketsForMiss, Contents, NodeSeq
  <2> QED BY <2>1, <2>2, <2>3 DEF QueriesAgree
<1>2. BufferInv => QueriesAgree
  BY <1>1
<1> QED BY <1>2, BufferInvariant, PTL

==============================================================================
