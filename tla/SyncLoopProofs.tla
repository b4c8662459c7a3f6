---------------------------- MODULE SyncLoopProofs ----------------------------
(***************************************************************************)
(* That what a node knows of its peers is their chain: proved along the    *)
(* way from the last block known of a peer, by the updates still on the    *)
(* wire, to the last block of the peer.                                    *)
(***************************************************************************)
EXTENDS SyncLoopProps, SequenceFacts, FiniteSetTheorems

-----------------------------------------------------------------------------
(* The inductive invariant.                                                *)

Names == DOMAIN Forks \cup {"trunk"}
Height == Nat \ {0}
Blocks == {b \in [fork : Names, height : Height] : b = Block(b.fork, b.height)}

\* One of them is the other one's parent.
Adjacent(b, c) == b = Parent(c) \/ c = Parent(b)

\* From one block to the next, along w.
Way(first, w, end) ==
  /\ w = <<>> => end = first
  /\ w # <<>> => Adjacent(first, w[1]) /\ end = w[Len(w)]
  /\ \A i \in 1..Len(w) - 1 : Adjacent(w[i], w[i + 1])

\* The ids known are those at the heights from a to b: all on the chain of the
\* last block, or all at its height and above, or, once there was no room left
\* for an id below them, all above it.
KnownBetween(m, a, b) ==
  /\ a <= b /\ b - a + 1 <= Window
  /\ DOMAIN m.ids = a..b
  /\ \/ m.last.height = b /\ \A k \in a..b : m.ids[k].height = k /\ OnChain(m.ids[k], m.last)
     \/ m.last.height = a /\ a < b /\ m.ids[a] = m.last
     \/ m.last.height < a /\ b - a + 1 = Window
Known(m) == \E a, b \in Height : KnownBetween(m, a, b)

ShapeInv ==
  /\ DOMAIN theirs = Peers
  /\ wire \in [Peers -> Seq(Blocks)]
  /\ DOMAIN memory = Peers
  /\ online \subseteq Peers
  /\ \A p \in Peers : memory[p].last \in Blocks /\ theirs[p].last \in Blocks
OffInv == \A p \in Peers \ online : wire[p] = <<>>
WayInv == \A p \in online : Way(memory[p].last, wire[p], theirs[p].last)
KnownInv == \A p \in Peers : Known(memory[p]) /\ Known(theirs[p])
IInv == ShapeInv /\ OffInv /\ WayInv /\ KnownInv

-----------------------------------------------------------------------------
(* Blocks and chains.                                                      *)

LEMMA BlockIsBlock ==
  ASSUME NEW f \in Names, NEW h \in Height PROVE Block(f, h) \in Blocks
<1>1. Trunk \in Nat
  BY SyncAssumption
<1>2. CASE h <= Trunk
  BY <1>1, <1>2 DEF Block, Blocks, Names, Height
<1>3. CASE ~(h <= Trunk)
  BY <1>1, <1>3 DEF Block, Blocks, Names, Height
<1> QED
  BY <1>2, <1>3

LEMMA BlockShape ==
  ASSUME NEW b \in Blocks
  PROVE  /\ b.height \in Height /\ b.fork \in Names
         /\ b = Block(b.fork, b.height)
  BY DEF Blocks

LEMMA SelfOnChain ==
  ASSUME NEW b \in Blocks PROVE OnChain(b, b)
  BY BlockShape DEF OnChain, Height

\* A block of a fork, seen from another block of the fork.
LEMMA SameFork ==
  ASSUME NEW f \in Names, NEW k \in Nat, NEW h \in Nat, k <= h
  PROVE  Block(Block(f, h).fork, k) = Block(f, k)
<1>1. Trunk \in Nat
  BY SyncAssumption
<1>2. CASE h <= Trunk
  BY <1>1, <1>2 DEF Block
<1>3. CASE ~(h <= Trunk)
  BY <1>1, <1>3 DEF Block
<1> QED
  BY <1>2, <1>3

LEMMA ParentHeight ==
  ASSUME NEW b \in Blocks PROVE Parent(b).height = b.height - 1
<1>1. b.height \in Height
  BY BlockShape
<1> QED
  BY <1>1 DEF Parent, Block

\* The chain of a block is that of its parent, up to the parent.
LEMMA ChainOfParent ==
  ASSUME NEW b \in Blocks, NEW c \in Blocks, b = Parent(c), NEW x, x.height \in Height
  PROVE  /\ OnChain(x, b) => OnChain(x, c)
         /\ OnChain(x, c) /\ x.height <= b.height => OnChain(x, b)
<1>1. c.height \in Height /\ c.fork \in Names /\ b.height = c.height - 1
  BY BlockShape, ParentHeight
<1>2. b.height \in Height
  BY BlockShape
<1>3. PICK k, h, f : k = x.height /\ h = b.height /\ f = c.fork
  OBVIOUS
<1>4. k \in Nat /\ h \in Nat /\ f \in Names
  BY <1>1, <1>2, <1>3 DEF Height
<1>5. b = Block(f, h)
  BY <1>1, <1>3 DEF Parent
<1>6. ASSUME k <= h PROVE Block(b.fork, x.height) = Block(c.fork, x.height)
  <2>1. Block(Block(f, h).fork, k) = Block(f, k)
    BY <1>4, <1>6, SameFork
  <2> QED
    BY <2>1, <1>3, <1>5
<1>7. k <= h => k <= c.height
  BY <1>1, <1>3, <1>4 DEF Height
<1> QED
  BY <1>3, <1>6, <1>7 DEF OnChain

LEMMA AdjacentHeights ==
  ASSUME NEW b \in Blocks, NEW c \in Blocks, Adjacent(b, c)
  PROVE  b.height = c.height - 1 \/ c.height = b.height - 1
  BY ParentHeight DEF Adjacent

LEMMA NoWay ==
  ASSUME NEW first PROVE Way(first, <<>>, first)
<1>1. Len(<<>>) = 0
  BY EmptySeq
<1>2. 1..Len(<<>>) - 1 = {}
  BY <1>1
<1> QED
  BY <1>2 DEF Way

\* The way on.
LEMMA WayAppend ==
  ASSUME NEW S, NEW first \in S, NEW w \in Seq(S), NEW end \in S, NEW to \in S,
         Way(first, w, end), Adjacent(end, to)
  PROVE  Way(first, Append(w, to), to)
<1>1. PICK u : u = Append(w, to)
  OBVIOUS
<1>2. /\ u \in Seq(S) /\ u # <<>> /\ Len(u) = Len(w) + 1
      /\ \A i \in 1..Len(w) : u[i] = w[i]
      /\ u[Len(w) + 1] = to
  BY <1>1, AppendProperties
<1>3. Len(w) \in Nat /\ (w = <<>> <=> Len(w) = 0)
  BY LenProperties, EmptySeq
<1>4. Adjacent(first, u[1])
  BY <1>2, <1>3 DEF Way
<1>5. ASSUME NEW i \in 1..Len(u) - 1 PROVE Adjacent(u[i], u[i + 1])
  <2>1. i \in 1..Len(w) /\ u[i] = w[i]
    BY <1>2, <1>3
  <2>2. CASE i = Len(w)
    BY <1>2, <1>3, <2>1, <2>2 DEF Way
  <2>3. CASE i # Len(w)
    <3>1. i \in 1..Len(w) - 1 /\ i + 1 \in 1..Len(w)
      BY <1>3, <2>1, <2>3
    <3> QED
      BY <1>2, <2>1, <3>1 DEF Way
  <2> QED
    BY <2>2, <2>3
<1>6. Way(first, u, to)
  BY <1>2, <1>3, <1>4, <1>5 DEF Way
<1> QED
  BY <1>1, <1>6

LEMMA WayTail ==
  ASSUME NEW S, NEW first \in S, NEW w \in Seq(S), NEW end \in S, w # <<>>,
         Way(first, w, end)
  PROVE  Adjacent(first, Head(w)) /\ Way(Head(w), Tail(w), end)
<1>1. PICK u : u = Tail(w)
  OBVIOUS
<1>2. /\ u \in Seq(S) /\ Len(u) = Len(w) - 1
      /\ \A i \in 1..Len(u) : u[i] = w[i + 1]
  BY <1>1, HeadTailProperties
<1>3. Len(w) \in Nat /\ Len(w) # 0 /\ (u = <<>> <=> Len(u) = 0) /\ Len(u) \in Nat
  BY <1>2, LenProperties, EmptySeq
<1>4. Head(w) = w[1]
  BY HeadTailProperties
<1>5. ASSUME u = <<>> PROVE end = Head(w)
  <2>1. Len(w) = 1
    BY <1>2, <1>3, <1>5
  <2>2. end = w[Len(w)]
    BY DEF Way
  <2> QED
    BY <1>4, <2>1, <2>2
<1>6. ASSUME u # <<>> PROVE Adjacent(Head(w), u[1]) /\ end = u[Len(u)]
  <2>1. 1 \in 1..Len(w) - 1 /\ 1 \in 1..Len(u) /\ Len(u) \in 1..Len(u)
    BY <1>2, <1>3, <1>6
  <2> QED
    BY <1>2, <1>3, <1>4, <2>1 DEF Way
<1>7. ASSUME NEW i \in 1..Len(u) - 1 PROVE Adjacent(u[i], u[i + 1])
  <2>1. i \in 1..Len(u) /\ i + 1 \in 1..Len(u) /\ i + 1 \in 1..Len(w) - 1
    BY <1>2, <1>3
  <2> QED
    BY <1>2, <2>1 DEF Way
<1>8. Way(Head(w), u, end)
  BY <1>5, <1>6, <1>7 DEF Way
<1>9. Adjacent(first, Head(w))
  BY <1>4 DEF Way
<1> QED
  BY <1>1, <1>8, <1>9

-----------------------------------------------------------------------------
(* The ids of a peer, updated.                                             *)

LEMMA OneMoreElement ==
  ASSUME NEW B, IsFiniteSet(B), NEW x, x \notin B, NEW D, D = B \cup {x}
  PROVE  IsFiniteSet(D) /\ Cardinality(D) = Cardinality(B) + 1
  BY FS_AddElement

LEMMA IntervalSize ==
  ASSUME NEW a \in Nat, NEW b \in Nat, a <= b + 1
  PROVE  IsFiniteSet(a..b) /\ Cardinality(a..b) = b - a + 1
  BY FS_Interval

\* The lowest of a set goes when there is no room.
Shrunk(D, left) ==
  \/ Cardinality(D) <= Window /\ left = D
  \/ Cardinality(D) > Window /\ \A l \in D : (\A j \in D : l <= j) => left = D \ {l}

LEMMA UpdateShape ==
  ASSUME NEW m, NEW last \in Blocks, DOMAIN m.ids \subseteq Nat,
         NEW D, D = {k \in DOMAIN m.ids : last.height \in DOMAIN m.ids => k < last.height}
                      \cup {last.height},
         IsFiniteSet(D)
  PROVE  /\ Update(m, last).last = last
         /\ Shrunk(D, DOMAIN Update(m, last).ids)
         /\ \A k \in DOMAIN Update(m, last).ids :
              Update(m, last).ids[k] = IF k = last.height THEN last ELSE m.ids[k]
<1> DEFINE h == last.height
           kept == IF h \in DOMAIN m.ids THEN {k \in DOMAIN m.ids : k < h}
                   ELSE DOMAIN m.ids
           all == [k \in kept \cup {h} |-> IF k = h THEN last ELSE m.ids[k]]
           lowest == CHOOSE k \in DOMAIN all : \A j \in DOMAIN all : k <= j
           left == IF Cardinality(DOMAIN all) > Window THEN DOMAIN all \ {lowest}
                   ELSE DOMAIN all
<1>1. Update(m, last) = [last |-> last, ids |-> [k \in left |-> all[k]]]
  BY DEF Update
<1>2. PICK A, L : A = all /\ L = left
  OBVIOUS
<1>3. h \in Nat
  BY BlockShape DEF Height
<1>4. D = kept \cup {h}
  OBVIOUS
<1>5. DOMAIN A = D /\ \A k \in D : A[k] = IF k = h THEN last ELSE m.ids[k]
  BY <1>2, <1>4
<1>6. D \subseteq Nat /\ Cardinality(D) \in Nat /\ Window \in Nat
  BY <1>3, SyncAssumption, FS_CardinalityType
<1>7. L = IF Cardinality(D) > Window
          THEN D \ {CHOOSE k \in D : \A j \in D : k <= j} ELSE D
  BY <1>2, <1>4, Zenon
<1>8. Shrunk(D, L)
  <2>1. CASE Cardinality(D) <= Window
    BY <1>6, <1>7, <2>1 DEF Shrunk
  <2>2. CASE Cardinality(D) > Window
    <3>1. PICK c : c = CHOOSE k \in D : \A j \in D : k <= j
      OBVIOUS
    <3>2. ASSUME NEW l \in D, \A j \in D : l <= j PROVE l = c
      <4>1. c \in D /\ \A j \in D : c <= j
        BY <3>1, <3>2
      <4> QED
        BY <1>6, <3>2, <4>1
    <3> QED
      BY <1>7, <2>2, <3>1, <3>2 DEF Shrunk
  <2> QED
    BY <1>6, <2>1, <2>2
<1>9. L \subseteq D
  BY <1>7
<1>10. Update(m, last) = [last |-> last, ids |-> [k \in L |-> A[k]]]
  BY <1>1, <1>2, Zenon
<1> HIDE DEF h, kept, all, lowest, left
<1>11. /\ Update(m, last).last = last
       /\ DOMAIN Update(m, last).ids = L
       /\ \A k \in L : Update(m, last).ids[k] = A[k]
  BY <1>10
<1> QED
  BY <1>5, <1>8, <1>9, <1>11 DEF h

LEMMA UpdateKnows ==
  ASSUME NEW m, m.last \in Blocks, Known(m), NEW last \in Blocks, Adjacent(m.last, last)
  PROVE  Known(Update(m, last)) /\ Update(m, last).last = last
<1>1. PICK a \in Height, b \in Height : KnownBetween(m, a, b)
  BY DEF Known
<1>2. PICK l, h, W, u : /\ l = m.last.height /\ h = last.height
                        /\ W = Window /\ u = Update(m, last)
  OBVIOUS
<1>3. l \in Height /\ h \in Height /\ (l = h - 1 \/ h = l - 1)
  BY <1>2, BlockShape, AdjacentHeights
<1>4. /\ a \in Nat /\ b \in Nat /\ a >= 1 /\ a <= b /\ W \in Nat /\ b - a + 1 <= W
      /\ DOMAIN m.ids = a..b /\ l \in Nat /\ h \in Nat /\ h >= 1 /\ W >= 1
  BY <1>1, <1>2, <1>3, SyncAssumption DEF KnownBetween, Height
<1>5. PICK D : D = {k \in DOMAIN m.ids : h \in DOMAIN m.ids => k < h} \cup {h}
  OBVIOUS
<1>6. ASSUME IsFiniteSet(D)
      PROVE  /\ u.last = last /\ Shrunk(D, DOMAIN u.ids)
             /\ \A k \in DOMAIN u.ids : u.ids[k] = IF k = h THEN last ELSE m.ids[k]
  <2>1. DOMAIN m.ids \subseteq Nat
    BY <1>4
  <2> QED
    BY <1>2, <1>5, <1>6, <2>1, UpdateShape
\* The heights at which the chain known goes on.
<1>7. ASSUME NEW k \in a..b, OnChain(m.ids[k], m.last), m.ids[k].height = k, k <= h
      PROVE  OnChain(m.ids[k], last)
  <2>1. m.ids[k].height \in Height
    BY <1>4, <1>7 DEF Height
  <2> QED
    BY <1>2, <1>7, <2>1, ChainOfParent DEF Adjacent
<1>8. OnChain(m.last, m.last) /\ OnChain(last, last)
  BY SelfOnChain
<1>9. CASE h \in a..b
  <2>1. D = a..h /\ h <= b
    BY <1>4, <1>5, <1>9
  <2>2. IsFiniteSet(D) /\ Cardinality(D) = h - a + 1
    <3>1. a <= h + 1
      BY <1>4, <1>9
    <3> QED
      BY <1>4, <2>1, <3>1, IntervalSize
  <2>3. Cardinality(D) <= W /\ DOMAIN u.ids = D
    BY <1>2, <1>4, <1>6, <1>9, <2>2 DEF Shrunk
  <2>4. ASSUME NEW k \in a..h PROVE u.ids[k].height = k /\ OnChain(u.ids[k], last)
    <3>1. CASE k = h
      BY <1>2, <1>6, <1>8, <2>1, <2>2, <2>3, <3>1
    <3>2. CASE k # h
      <4>1. k \in a..b /\ k < h /\ u.ids[k] = m.ids[k]
        BY <1>4, <1>6, <1>9, <2>1, <2>2, <2>3, <3>2
      <4>2. CASE l = b
        <5>1. m.ids[k].height = k /\ OnChain(m.ids[k], m.last)
          BY <1>1, <1>2, <1>4, <1>9, <4>1, <4>2 DEF KnownBetween
        <5> QED
          BY <1>4, <1>7, <4>1, <5>1
      <4>3. CASE l # b
        <5>1. l = a /\ m.ids[a] = m.last /\ k = a /\ m.ids[k].height = k
          BY <1>1, <1>2, <1>3, <1>4, <1>9, <4>1, <4>3 DEF KnownBetween
        <5> QED
          BY <1>4, <1>7, <1>8, <4>1, <5>1
      <4> QED
        BY <4>2, <4>3
    <3> QED
      BY <3>1, <3>2
  <2>5. KnownBetween(u, a, h)
    BY <1>2, <1>4, <1>6, <1>9, <2>1, <2>2, <2>3, <2>4 DEF KnownBetween
  <2> QED
    BY <1>2, <1>3, <1>6, <2>2, <2>5 DEF Known
<1>10. CASE h > b
  <2>1. l = b /\ h = b + 1
    BY <1>1, <1>2, <1>3, <1>4, <1>10 DEF KnownBetween
  <2>2. D = a..h
    BY <1>4, <1>5, <2>1
  <2>3. IsFiniteSet(D) /\ Cardinality(D) = h - a + 1
    BY <1>4, <1>10, <2>2, IntervalSize
  <2>4. PICK c \in {a, a + 1} : DOMAIN u.ids = c..h /\ h - c + 1 <= W
    <3>1. CASE Cardinality(D) <= W
      <4>1. W \in Nat /\ Cardinality(D) \in Nat
        BY <1>4, <2>3, FS_CardinalityType
      <4>2. DOMAIN u.ids = D
        BY <1>2, <1>6, <2>3, <3>1, <4>1 DEF Shrunk
      <4> QED
        BY <2>2, <2>3, <3>1, <4>2
    <3>2. CASE Cardinality(D) > W
      <4>1. a \in D /\ \A j \in D : a <= j
        BY <1>4, <2>1, <2>2
      <4>2. DOMAIN u.ids = D \ {a}
        BY <1>2, <1>4, <1>6, <2>3, <3>2, <4>1 DEF Shrunk
      <4>3. D \ {a} = a + 1..h
        BY <1>4, <2>2
      <4>4. h - (a + 1) + 1 <= W
        BY <1>4, <2>1
      <4> QED
        BY <4>2, <4>3, <4>4
    <3> QED
      BY <1>4, <2>1, <2>3, <3>1, <3>2
  <2>5. ASSUME NEW k \in c..h PROVE u.ids[k].height = k /\ OnChain(u.ids[k], last)
    <3>1. u.ids[k] = IF k = h THEN last ELSE m.ids[k]
      BY <1>6, <2>3, <2>4
    <3>2. CASE k = h
      BY <1>2, <1>8, <3>1, <3>2
    <3>3. CASE k # h
      <4>1. k \in a..b /\ k <= h
        BY <1>4, <2>1, <2>4, <3>3
      <4>2. m.ids[k].height = k /\ OnChain(m.ids[k], m.last)
        BY <1>1, <1>2, <1>4, <2>1, <4>1 DEF KnownBetween, OnChain
      <4> QED
        BY <1>7, <3>1, <3>3, <4>1, <4>2
    <3> QED
      BY <3>2, <3>3
  <2>6. c \in Height /\ c <= h
    BY <1>4, <2>1, <2>4 DEF Height
  <2>7. KnownBetween(u, c, h)
    BY <1>2, <1>6, <2>3, <2>4, <2>5, <2>6 DEF KnownBetween
  <2> QED
    BY <1>2, <1>3, <1>6, <2>3, <2>6, <2>7 DEF Known
<1>11. CASE h < a
  <2>1. PICK B : B = a..b
    OBVIOUS
  <2>2. IsFiniteSet(B) /\ Cardinality(B) = b - a + 1 /\ h \notin B
    BY <1>4, <1>11, <2>1, IntervalSize
  <2>3. D = B \cup {h}
    BY <1>4, <1>5, <2>1, <2>2
  <2>4. IsFiniteSet(D) /\ Cardinality(D) = b - a + 2
    <3>1. Cardinality(D) = Cardinality(B) + 1 /\ IsFiniteSet(D)
      BY <2>2, <2>3, OneMoreElement
    <3> QED
      BY <1>4, <2>2, <3>1
  <2>5. CASE Cardinality(D) > W
    <3>1. h \in D /\ \A j \in D : h <= j
      BY <1>4, <1>11, <2>1, <2>3
    <3>2. DOMAIN u.ids = a..b
      <4>1. W \in Nat /\ Cardinality(D) \in Nat
        BY <1>4, <2>4, FS_CardinalityType
      <4>2. DOMAIN u.ids = D \ {h}
        BY <1>2, <1>6, <2>4, <2>5, <3>1, <4>1 DEF Shrunk
      <4>3. D \ {h} = B
        BY <2>2, <2>3
      <4> QED
        BY <2>1, <4>2, <4>3
    <3>3. b - a + 1 = W
      BY <1>4, <2>4, <2>5
    <3>4. KnownBetween(u, a, b)
      BY <1>2, <1>4, <1>6, <1>11, <2>4, <3>2, <3>3 DEF KnownBetween
    <3> QED
      BY <1>2, <1>6, <2>4, <3>4 DEF Known
  <2>6. CASE ~(Cardinality(D) > W)
    <3>1. DOMAIN u.ids = D /\ b - a + 2 <= W
      BY <1>2, <1>4, <1>6, <2>4, <2>6 DEF Shrunk
    <3>2. h = a - 1
      BY <1>1, <1>2, <1>3, <1>4, <1>11, <3>1 DEF KnownBetween
    <3>3. D = h..b
      BY <1>4, <2>1, <2>3, <3>2
    <3>4. u.ids[h] = last
      BY <1>6, <2>3, <2>4, <3>1
    <3>6. h < b /\ b - h + 1 <= W
      BY <1>4, <3>1, <3>2
    <3>7. u.last.height = h /\ u.ids[h] = u.last
      BY <1>2, <1>6, <2>4, <3>4
    <3>8. h <= b /\ b - h + 1 <= Window /\ DOMAIN u.ids = h..b
      BY <1>2, <1>4, <3>1, <3>3, <3>6
    <3>5. KnownBetween(u, h, b)
      BY <3>6, <3>7, <3>8 DEF KnownBetween
    <3> QED
      BY <1>2, <1>3, <1>6, <2>4, <3>5 DEF Known
  <2> QED
    BY <2>5, <2>6
<1> QED
  BY <1>4, <1>9, <1>10, <1>11

LEMMA FullKnows ==
  ASSUME NEW b \in Blocks
  PROVE  Known(Full(b)) /\ Full(b).last = b
<1>1. PICK h, f, W : h = b.height /\ f = b.fork /\ W = Window
  OBVIOUS
<1>2. h \in Nat /\ h >= 1 /\ f \in Names /\ W \in Nat /\ W >= 1
  BY <1>1, BlockShape, SyncAssumption DEF Height
<1>3. PICK a : a = IF h > W THEN h - W + 1 ELSE 1
  OBVIOUS
<1>4. a \in Height /\ h \in Height /\ a <= h /\ h - a + 1 <= W
  BY <1>2, <1>3 DEF Height
<1>5. PICK m : m = Full(b)
  OBVIOUS
<1>6. PICK I : I = {k \in 1..h : k > h - W}
  OBVIOUS
<1>7. I = a..h
  BY <1>2, <1>3, <1>6
<1>8. m = [last |-> b, ids |-> [k \in I |-> Block(f, k)]]
  BY <1>1, <1>5, <1>6 DEF Full, Pool
<1>9. m.last = b /\ DOMAIN m.ids = I /\ \A k \in I : m.ids[k] = Block(f, k)
  BY <1>8
<1>10. ASSUME NEW k \in a..h PROVE m.ids[k].height = k /\ OnChain(m.ids[k], m.last)
  <2>1. m.ids[k] = Block(f, k) /\ k \in Nat /\ k <= h
    BY <1>4, <1>7, <1>9 DEF Height
  <2>2. Block(f, k).height = k
    BY DEF Block
  <2> QED
    BY <1>1, <1>9, <2>1, <2>2 DEF OnChain
<1>11. KnownBetween(m, a, h)
  BY <1>1, <1>4, <1>7, <1>9, <1>10 DEF KnownBetween
<1> QED
  BY <1>4, <1>5, <1>9, <1>11 DEF Known

-----------------------------------------------------------------------------
(* The invariant holds.                                                    *)

LEMMA StartsAreBlocks == PeerStarts \subseteq Blocks
<1> SUFFICES ASSUME NEW b \in PeerStarts PROVE b \in Blocks
  OBVIOUS
<1>1. PICK f \in DOMAIN Forks : \E h \in 1..Forks[f] : b = Block(f, h)
  BY SyncAssumption
<1>2. PICK h \in 1..Forks[f] : b = Block(f, h)
  BY <1>1
<1>3. h \in Height /\ f \in Names
  BY SyncAssumption DEF Height, Names
<1> QED
  BY <1>2, <1>3, BlockIsBlock

LEMMA InitInvariant == Init => IInv
<1> SUFFICES ASSUME Init PROVE IInv
  OBVIOUS
<1> USE DEF Init
<1>2. memory = theirs /\ DOMAIN theirs = Peers
  OBVIOUS
<1>3. ASSUME NEW p \in Peers
      PROVE  theirs[p].last \in Blocks /\ Known(theirs[p]) /\ wire[p] = <<>>
  <2>1. PICK b \in PeerStarts : theirs[p] = Full(b)
    OBVIOUS
  <2> QED
    BY <2>1, StartsAreBlocks, FullKnows
<1>4. ShapeInv
  <2>1. wire \in [Peers -> Seq(Blocks)]
    BY EmptySeq
  <2> QED
    BY <1>2, <1>3, <2>1 DEF ShapeInv
<1>5. OffInv /\ KnownInv
  BY <1>2, <1>3 DEF OffInv, KnownInv
<1>6. WayInv
  <2> SUFFICES ASSUME NEW p \in online PROVE Way(memory[p].last, wire[p], theirs[p].last)
    BY DEF WayInv
  <2>1. wire[p] = <<>> /\ theirs[p] = memory[p]
    BY <1>2, <1>3
  <2> QED
    BY <2>1, NoWay
<1> QED
  BY <1>4, <1>5, <1>6 DEF IInv

\* Only what happens to a peer changes what is known of it.
Kept == UNCHANGED <<memory, online, theirs, wire>>
OfPeer(p) ==
  \/ UpdatePeer(p) \/ PeerLeaves(p) \/ PeerJoins(p)
  \/ \E to : PeerMoves(p, to)

LEMMA EveryStep ==
  [Next]_vars => Kept \/ \E p \in Peers : OfPeer(p)
<1> SUFFICES ASSUME [Next]_vars PROVE Kept \/ \E p \in Peers : OfPeer(p)
  OBVIOUS
<1> USE DEF peerVars
<1>1. CASE Start
  BY <1>1 DEF Start, Kept
<1>2. CASE Sync
  <2>1. CASE Begin
    BY <2>1 DEF Begin, Kept
  <2>2. CASE Loop
    BY <2>2 DEF Loop, Kept
  <2>3. CASE Delay
    BY <2>3 DEF Delay, Kept
  <2>4. CASE NobodyHigher
    BY <2>4 DEF NobodyHigher, Kept
  <2>5. CASE \E p \in Peers : CheckCommonBlock(p)
    BY <2>5 DEF CheckCommonBlock, Kept
  <2>6. CASE CommonAnswered
    BY <2>6 DEF CommonAnswered, Kept
  <2>7. CASE RequestFails
    BY <2>7 DEF RequestFails, Kept
  <2>8. CASE BlocksAnswered
    BY <2>8 DEF BlocksAnswered, Kept
  <2>9. CASE SaveBlock
    BY <2>9 DEF SaveBlock, Kept
  <2>10. CASE SaveFails
    BY <2>10 DEF SaveFails, Kept
  <2>11. CASE Deleted
    BY <2>11 DEF Deleted, Kept
  <2>12. CASE UpdateHeaders
    BY <2>12 DEF UpdateHeaders, Kept
  <2> QED
    BY <1>2, <2>1, <2>2, <2>3, <2>4, <2>5, <2>6, <2>7, <2>8, <2>9, <2>10, <2>11, <2>12
       DEF Sync
<1>3. CASE ClearBanList
  BY <1>3 DEF ClearBanList, Kept
<1>4. CASE \E p \in Peers : UpdatePeer(p) \/ PeerLeaves(p) \/ PeerJoins(p)
  BY <1>4 DEF OfPeer
<1>5. CASE \E p \in Peers : \E to \in {Parent(theirs[p].last)} \cup
             {Block(f, theirs[p].last.height + 1) : f \in DOMAIN Forks} : PeerMoves(p, to)
  BY <1>5 DEF OfPeer
<1>6. CASE UNCHANGED vars
  BY <1>6 DEF vars, Kept
<1> QED
  BY <1>1, <1>2, <1>3, <1>4, <1>5, <1>6 DEF Next

\* A peer moves on, and tells it where it is connected.
LEMMA MovesKeep ==
  ASSUME IInv, NEW p \in Peers, NEW to, PeerMoves(p, to) PROVE IInv'
<1>1. to \in Blocks
  <2>1. PICK f \in DOMAIN Forks : to \in {Block(f, h) : h \in 1..Forks[f]}
    BY DEF PeerMoves
  <2>2. PICK h \in 1..Forks[f] : to = Block(f, h)
    BY <2>1
  <2>3. h \in Height /\ f \in Names
    BY SyncAssumption DEF Height, Names
  <2> QED
    BY <2>2, <2>3, BlockIsBlock
<1>2. /\ UNCHANGED <<memory, online>>
      /\ theirs' = [theirs EXCEPT ![p] = Update(@, to)]
      /\ wire' = IF p \in online THEN [wire EXCEPT ![p] = Append(@, to)] ELSE wire
      /\ Adjacent(theirs[p].last, to)
  BY DEF PeerMoves, Adjacent
<1>3. /\ wire \in [Peers -> Seq(Blocks)]
      /\ online \subseteq Peers /\ DOMAIN memory = Peers /\ DOMAIN theirs = Peers
      /\ \A q \in Peers : memory[q].last \in Blocks /\ theirs[q].last \in Blocks
  BY DEF IInv, ShapeInv
<1>4. Append(wire[p], to) \in Seq(Blocks)
  BY <1>1, <1>3, AppendProperties
<1>8. Known(Update(theirs[p], to)) /\ Update(theirs[p], to).last = to
  <2>1. Known(theirs[p])
    BY DEF IInv, KnownInv
  <2> QED
    BY <1>1, <1>2, <1>3, <2>1, UpdateKnows
<1>9. /\ DOMAIN theirs' = Peers
      /\ \A q \in Peers : theirs'[q] = IF q = p THEN Update(theirs[p], to) ELSE theirs[q]
  BY <1>2, <1>3
<1>5. ShapeInv'
  BY <1>1, <1>2, <1>3, <1>4, <1>8, <1>9 DEF ShapeInv
<1>6. OffInv' /\ KnownInv'
  BY <1>2, <1>3, <1>8, <1>9 DEF IInv, OffInv, KnownInv
<1>7. WayInv'
  <2> SUFFICES ASSUME NEW q \in online PROVE Way(memory[q].last, wire'[q], theirs'[q].last)
    BY <1>2 DEF WayInv
  <2>1. Way(memory[q].last, wire[q], theirs[q].last)
    BY DEF IInv, WayInv
  <2>2. CASE q # p
    BY <1>2, <1>3, <1>9, <2>1, <2>2
  <2>3. CASE q = p
    <3>1. Way(memory[p].last, Append(wire[p], to), to)
      BY <1>1, <1>2, <1>3, <2>1, <2>3, WayAppend
    <3>2. wire'[p] = Append(wire[p], to) /\ theirs'[p].last = to
      BY <1>2, <1>3, <1>8, <1>9, <2>3
    <3> QED
      BY <2>3, <3>1, <3>2
  <2> QED
    BY <2>2, <2>3
<1> QED
  BY <1>5, <1>6, <1>7 DEF IInv

\* The next update arrives.
LEMMA UpdatesKeep ==
  ASSUME IInv, NEW p \in Peers, UpdatePeer(p) PROVE IInv'
<1>1. /\ wire \in [Peers -> Seq(Blocks)]
      /\ online \subseteq Peers /\ DOMAIN memory = Peers /\ DOMAIN theirs = Peers
      /\ \A q \in Peers : memory[q].last \in Blocks /\ theirs[q].last \in Blocks
  BY DEF IInv, ShapeInv
<1>2. p \in online /\ wire[p] # <<>>
  BY DEF IInv, OffInv, UpdatePeer
<1>3. PICK b : b = Head(wire[p])
  OBVIOUS
<1>4. /\ UNCHANGED <<online, theirs>>
      /\ wire' = [wire EXCEPT ![p] = Tail(@)]
      /\ memory' = [memory EXCEPT ![p] = Update(@, b)]
  BY <1>2, <1>3 DEF UpdatePeer
<1>5. b \in Blocks /\ Tail(wire[p]) \in Seq(Blocks)
  BY <1>1, <1>2, <1>3, HeadTailProperties
<1>6. Adjacent(memory[p].last, b) /\ Way(b, Tail(wire[p]), theirs[p].last)
  <2>1. Way(memory[p].last, wire[p], theirs[p].last)
    BY <1>2 DEF IInv, WayInv
  <2> QED
    BY <1>1, <1>2, <1>3, <2>1, WayTail
<1>7. Known(Update(memory[p], b)) /\ Update(memory[p], b).last = b
  <2>1. Known(memory[p])
    BY DEF IInv, KnownInv
  <2> QED
    BY <1>1, <1>5, <1>6, <2>1, UpdateKnows
<1>8. /\ DOMAIN memory' = Peers
      /\ \A q \in Peers : memory'[q] = IF q = p THEN Update(memory[p], b) ELSE memory[q]
  BY <1>1, <1>4
<1>9. ShapeInv'
  BY <1>1, <1>4, <1>5, <1>7, <1>8 DEF ShapeInv
<1>10. OffInv'
  BY <1>1, <1>2, <1>4 DEF IInv, OffInv
<1>11. KnownInv'
  BY <1>4, <1>7, <1>8 DEF IInv, KnownInv
<1>12. WayInv'
  <2> SUFFICES ASSUME NEW q \in online PROVE Way(memory'[q].last, wire'[q], theirs[q].last)
    BY <1>4 DEF WayInv
  <2>1. q \in Peers
    BY <1>1
  <2>2. CASE q # p
    BY <1>1, <1>4, <1>8, <2>1, <2>2 DEF IInv, WayInv
  <2>3. CASE q = p
    <3>1. wire'[q] = Tail(wire[p])
      BY <1>1, <1>4, <2>3
    <3> QED
      BY <1>6, <1>7, <1>8, <2>3, <3>1
  <2> QED
    BY <2>2, <2>3
<1> QED
  BY <1>9, <1>10, <1>11, <1>12 DEF IInv

LEMMA LeavesKeep ==
  ASSUME IInv, NEW p \in Peers, PeerLeaves(p) PROVE IInv'
<1>1. /\ wire \in [Peers -> Seq(Blocks)]
      /\ online \subseteq Peers /\ DOMAIN memory = Peers /\ DOMAIN theirs = Peers
      /\ \A q \in Peers : memory[q].last \in Blocks /\ theirs[q].last \in Blocks
  BY DEF IInv, ShapeInv
<1>2. /\ UNCHANGED <<memory, theirs>> /\ online' = online \ {p}
      /\ wire' = [wire EXCEPT ![p] = <<>>]
  BY DEF PeerLeaves
<1>3. wire' \in [Peers -> Seq(Blocks)]
  <2>1. <<>> \in Seq(Blocks)
    BY EmptySeq
  <2> QED
    BY <1>1, <1>2, <2>1
<1>4. ShapeInv'
  BY <1>1, <1>2, <1>3 DEF ShapeInv
<1>5. OffInv' /\ KnownInv' /\ WayInv'
  BY <1>1, <1>2 DEF IInv, OffInv, KnownInv, WayInv
<1> QED
  BY <1>4, <1>5 DEF IInv

\* The peer connects, started again or not, with the ids it keeps of itself.
LEMMA JoinsKeep ==
  ASSUME IInv, NEW p \in Peers, PeerJoins(p) PROVE IInv'
<1>1. /\ wire \in [Peers -> Seq(Blocks)]
      /\ online \subseteq Peers /\ DOMAIN memory = Peers /\ DOMAIN theirs = Peers
      /\ \A q \in Peers : memory[q].last \in Blocks /\ theirs[q].last \in Blocks
  BY DEF IInv, ShapeInv
<1>2. /\ UNCHANGED wire /\ online' = online \cup {p} /\ p \notin online
      /\ theirs' = theirs \/ theirs' = [theirs EXCEPT ![p] = Full(@.last)]
      /\ memory' = [memory EXCEPT ![p] = theirs'[p]]
  BY DEF PeerJoins
<1>3. wire[p] = <<>>
  BY <1>1, <1>2 DEF IInv, OffInv
<1>4. PICK own : own = theirs'[p]
  OBVIOUS
<1>5. Known(Full(theirs[p].last)) /\ Full(theirs[p].last).last = theirs[p].last
  BY <1>1, FullKnows
<1>6. /\ DOMAIN theirs' = Peers
      /\ \A q \in Peers : theirs'[q] = IF q = p THEN own ELSE theirs[q]
      /\ own = theirs[p] \/ own = Full(theirs[p].last)
  BY <1>1, <1>2, <1>4
<1>7. own.last \in Blocks /\ Known(own)
  BY <1>1, <1>5, <1>6 DEF IInv, KnownInv
<1>8. /\ DOMAIN memory' = Peers
      /\ \A q \in Peers : memory'[q] = IF q = p THEN own ELSE memory[q]
  BY <1>1, <1>2, <1>4
<1>9. ShapeInv'
  BY <1>1, <1>2, <1>6, <1>7, <1>8 DEF ShapeInv
<1>10. OffInv' /\ KnownInv'
  BY <1>2, <1>6, <1>7, <1>8 DEF IInv, OffInv, KnownInv
<1>11. WayInv'
  <2> SUFFICES ASSUME NEW q \in online' PROVE Way(memory'[q].last, wire[q], theirs'[q].last)
    BY <1>2 DEF WayInv
  <2>1. CASE q = p
    BY <1>3, <1>6, <1>8, <2>1, NoWay
  <2>2. CASE q # p
    BY <1>1, <1>2, <1>6, <1>8, <2>2 DEF IInv, WayInv
  <2> QED
    BY <2>1, <2>2
<1> QED
  BY <1>9, <1>10, <1>11 DEF IInv

LEMMA NextInvariant == IInv /\ [Next]_vars => IInv'
<1> SUFFICES ASSUME IInv, [Next]_vars PROVE IInv'
  OBVIOUS
<1>1. CASE Kept
  BY <1>1 DEF IInv, ShapeInv, OffInv, WayInv, KnownInv, Kept
<1>2. ASSUME NEW p \in Peers, OfPeer(p) PROVE IInv'
  BY <1>2, MovesKeep, UpdatesKeep, LeavesKeep, JoinsKeep DEF OfPeer
<1> QED
  BY <1>1, <1>2, EveryStep

LEMMA SyncInvariant == Spec => []IInv
BY InitInvariant, NextInvariant, PTL DEF Spec

-----------------------------------------------------------------------------
(* What it says of a peer whose updates have all arrived.                  *)

LEMMA InvariantKnows == IInv => KnowsTheirChain
<1> SUFFICES ASSUME IInv, NEW p \in online, wire[p] = <<>>
             PROVE  /\ memory[p].last = theirs[p].last
                    /\ \A h \in DOMAIN memory[p].ids :
                         h <= theirs[p].last.height
                           => OnChain(memory[p].ids[h], theirs[p].last)
                    /\ (\E h \in DOMAIN memory[p].ids : h > theirs[p].last.height)
                         => \A h \in DOMAIN memory[p].ids : h >= theirs[p].last.height
  BY DEF KnowsTheirChain
<1>1. p \in Peers /\ theirs[p].last \in Blocks
  BY DEF IInv, ShapeInv
<1>2. memory[p].last = theirs[p].last
  BY DEF IInv, WayInv, Way
<1>3. PICK a \in Height, b \in Height : KnownBetween(memory[p], a, b)
  BY <1>1 DEF IInv, KnownInv, Known
<1>4. PICK l : l = theirs[p].last.height
  OBVIOUS
<1>5. l \in Nat /\ a \in Nat /\ b \in Nat
  BY <1>1, <1>4, BlockShape DEF Height
<1>6. OnChain(theirs[p].last, theirs[p].last)
  BY <1>1, SelfOnChain
<1>7. ASSUME NEW h \in DOMAIN memory[p].ids, h <= l
      PROVE  OnChain(memory[p].ids[h], theirs[p].last)
  BY <1>2, <1>3, <1>4, <1>5, <1>6, <1>7 DEF KnownBetween
<1>8. ASSUME NEW h \in DOMAIN memory[p].ids, h > l, NEW k \in DOMAIN memory[p].ids
      PROVE  k >= l
  BY <1>2, <1>3, <1>4, <1>5, <1>8 DEF KnownBetween
<1> QED
  BY <1>2, <1>4, <1>7, <1>8

\* What a node knows of a peer whose updates have all arrived is the chain of
\* the peer, for every number of ids kept, every tree of forks and however the
\* peers move, leave, start again and join with the ids they keep of themselves
\* (memoryPeer.ts update, system.ts addBlockIdInPool).
THEOREM KnowsTheirChainHolds == Spec => []KnowsTheirChain
BY SyncInvariant, InvariantKnows, PTL
=============================================================================
