---------------------------- MODULE ChainProofs -----------------------------
(***************************************************************************)
(* Proofs about the chain and the rounds of Node together, up to the first *)
(* step after which they may disagree (NodeProps, RacelessSpec): the       *)
(* rounds follow from the chain, the chain fits into the rounds, what is   *)
(* stored can be loaded again, and the delegates are paid what their       *)
(* blocks call for, since processReward finds the blocks of the round it   *)
(* pays for, or takes back the pay of, by counting from the top of the     *)
(* chain.                                                                  *)
(***************************************************************************)
EXTENDS NodeProofs

-----------------------------------------------------------------------------
(* What rounds q have to do with a chain c.                                *)

\* Block b is the one of its generator's slot in round r.
Forges(r, b) == b.generator \in Active(r) /\ b.slot = SlotOf(r, b.generator)

\* Rounds with the same slots.
Same(r, q) == r.first = q.first /\ r.order = q.order

Ascending(q) == \A k, m \in 1..Len(q) : k < m => LastSlot(q[k]) < q[m].first
Gapless(q)   == \A k \in 2..Len(q) : q[k].first = LastSlot(q[k - 1]) + 1

\* Block j of c is the last one before slot s; the first block is before all.
IsBefore(c, j, s) ==
  /\ j = 1 \/ c[j].slot < s
  /\ \A i \in 1..Len(c) : j < i => s <= c[i].slot

\* Round r is the one that is generated on c, as far as c goes before it.  The
\* rounds above the genesis block begin where any node lets them begin.
BasedOn(c, r) ==
  \E j \in 1..Len(c) :
    /\ IsBefore(c, j, r.first)
    /\ r.order = Schedule[c[j].id]
    /\ j = 1 => FirstSlotInRound(r.first, Len(r.order)) = r.first

Rising(c) == \A i, j \in 1..Len(c) : i < j => c[i].slot < c[j].slot

Fits(c, q) ==
  /\ Ascending(q) /\ Gapless(q)
  /\ \A k \in 1..Len(q) : BasedOn(c, q[k])
  /\ \A i \in 2..Len(c) : \E k \in 1..Len(q) : Forges(q[k], c[i])
  /\ Rising(c)

Flagged(c, q) ==
  \A k \in 1..Len(q) :
    \A d : d \in q[k].forged <=>
             \E i \in 2..Len(c) : InRound(q[k], c[i].slot) /\ c[i].generator = d

-----------------------------------------------------------------------------
(* The inductive invariant, on top of those of NodeInv and of the          *)
(* dispatcher.                                                             *)

\* The rounds fit the chain, and the flags are those of the chain's blocks.
RoundsInv ==
  /\ rounds = <<>> => Len(chain) <= 1
  /\ rounds # <<>> => Fits(chain, rounds) /\ Flagged(chain, rounds)

\* The row of the last block has been deleted, memory follows.
Deleted == (Stage = "deleting" /\ stmt = "done") \/ Stage = "undo"

\* Blocks count up and are stored.
RowsInv ==
  /\ \A i \in 1..Len(chain) :
       /\ chain[i].height = i
       /\ chain[i] \in db \/ (i = Len(chain) /\ Deleted)
  /\ pc = "deleting" => stmt \in {"sent", "done"}

\* The block that is saved has been verified against the current round, and
\* the one that is undone is in the round that is restored.
TaskInv ==
  /\ Stage = "saving" =>
       /\ rounds # <<>>
       /\ Forges(CurrentRound, blk)
       /\ LastBlock.slot < blk.slot
  /\ Stage = "undo" =>
       IF pc = "restore" THEN goal = LastBlock.slot
       ELSE InRound(CurrentRound, LastBlock.slot)

\* Stored is the chain w, which fits into the rounds q.
Stores(w, q) ==
  /\ \A i \in 1..Len(w) : w[i].height = i
  /\ \A b : b \in db <=> \E i \in 1..Len(w) : b = w[i]
  /\ 2 <= Len(w) => Fits(w, q)

\* The loader goes through the chain w in the rounds q.
Loads(w, q) ==
  /\ Stores(w, q)
  /\ Len(chain) <= Len(w) /\ \A i \in 1..Len(chain) : chain[i] = w[i]
  /\ rounds # <<>> => \E k \in 1..Len(q) : Same(CurrentRound, q[k])
  /\ Stage = "warmUp" =>
       IF Len(chain) <= 1 THEN rounds = <<>>
       ELSE InRound(CurrentRound, LastBlock.slot)
  /\ Loading =>
       /\ Len(chain) < Len(w) /\ blk = w[Len(chain) + 1]
       /\ rounds # <<>> /\ CurrentRound.first <= blk.slot
       /\ 2 <= Len(chain) => LastBlock.slot <= LastSlot(CurrentRound)
  /\ pc = "warmPush" => InRound(CurrentRound, blk.slot)
  /\ pc = "restore" => then = "warmPush" /\ goal = blk.slot

LoaderInv ==
  WarmingUp => \E w \in Seq(Blocks), q \in Seq(RoundType) : Loads(w, q)

ObserverInv ==
  RoundsInv /\ RowsInv /\ TaskInv /\ LoaderInv /\ pc # "dead"

-----------------------------------------------------------------------------
(* Lemmas about one round.                                                 *)

LEMMA BlockFields ==
  ASSUME NEW b \in Blocks
  PROVE  /\ b.id \in BlockIds /\ b.slot \in Nat
         /\ b.height \in Nat \ {0} /\ b.generator \in Delegates
BY NodeAssumption

\* A round has slots, each active delegate has one of them, and no two have
\* the same.
Proper(r) ==
  /\ r.first \in Int /\ LastSlot(r) \in Int /\ Len(r.order) \in Nat \ {0}
  /\ LastSlot(r) = r.first + Len(r.order) - 1 /\ r.first <= LastSlot(r)
  /\ \A d \in Active(r) : SlotOf(r, d) \in Int /\ InRound(r, SlotOf(r, d))
  /\ \A d, e \in Active(r) : SlotOf(r, d) = SlotOf(r, e) => d = e

LEMMA ScheduledRound ==
  ASSUME NEW r \in RoundType, NEW id \in BlockIds, r.order = Schedule[id]
  PROVE  Proper(r)
<1>1. PICK n \in Nat \ {0} : n = Len(r.order)
  BY ScheduleAssumption, EmptySeq, LenProperties
<1>2. /\ r.first \in Int /\ r.order \in Seq(Delegates)
      /\ DOMAIN r.order = 1..n
  BY <1>1, LenProperties DEF RoundType
<1>3. \A i, j \in 1..n : r.order[i] = r.order[j] => i = j
  BY <1>2, ScheduleAssumption DEF IsInjective
<1>4. \A d \in Active(r) : \E i \in 1..n :
        /\ r.order[i] = d /\ SlotOf(r, d) = r.first + i - 1
  <2> TAKE d \in Active(r)
  <2>1. PICK i : i = CHOOSE j \in DOMAIN r.order : r.order[j] = d
    OBVIOUS
  <2>2. i \in DOMAIN r.order /\ r.order[i] = d
    BY <2>1 DEF Active
  <2>3. SlotOf(r, d) = r.first + i - 1
    BY <2>1 DEF SlotOf
  <2> QED
    BY <1>2, <2>2, <2>3
<1>5. LastSlot(r) = r.first + n - 1
  BY <1>1 DEF LastSlot
<1>6. ASSUME NEW d \in Active(r)
      PROVE  SlotOf(r, d) \in Int /\ InRound(r, SlotOf(r, d))
  BY <1>2, <1>4, <1>5 DEF InRound
<1>7. ASSUME NEW d \in Active(r), NEW e \in Active(r),
             SlotOf(r, d) = SlotOf(r, e)
      PROVE  d = e
  BY <1>2, <1>4, <1>7
<1> QED
  BY <1>1, <1>2, <1>5, <1>6, <1>7 DEF Proper

\* The slot a block has been forged for is one of the round.
LEMMA ForgedInRound ==
  ASSUME NEW r, Proper(r), NEW b, Forges(r, b)
  PROVE  InRound(r, b.slot)
BY DEF Proper, Forges

\* Whose slot it is follows from the slots of the round.
LEMMA SameRound ==
  ASSUME NEW r, NEW p, Same(r, p)
  PROVE  /\ Proper(r) => Proper(p)
         /\ LastSlot(r) = LastSlot(p)
         /\ \A s : InRound(r, s) <=> InRound(p, s)
         /\ \A b : Forges(r, b) <=> Forges(p, b)
         /\ Same(p, r)
BY SMTT(20) DEF Same, Proper, LastSlot, InRound, Forges, Active, SlotOf

\* A remainder and a quotient are the only ones.
LEMMA Remainder ==
  ASSUME NEW a \in Int, NEW n \in Nat \ {0}, NEW k \in Int, NEW m \in 0..n - 1,
         a = n * k + m
  PROVE  a % n = m
<1>1. PICK j, l : j = a \div n /\ l = a % n
  OBVIOUS
<1>2. j \in Int /\ l \in 0..n - 1 /\ a = n * j + l
  BY <1>1
<1>3. ASSUME NEW x \in Int, NEW y \in Int, x < y PROVE n * x + n <= n * y
  <2>1. PICK z \in Nat : y = x + 1 + z
    <3>1. y - x - 1 \in Nat /\ y = x + 1 + (y - x - 1)
      BY <1>3
    <3> QED
      BY <3>1
  <2>2. n * y = n * x + n + n * z
    BY <2>1
  <2>3. n * z \in Nat
    BY <2>1
  <2> QED
    BY <2>2, <2>3
<1>4. n * k \in Int /\ n * j \in Int
  BY <1>2
<1>5. ~(k < j)
  <2> SUFFICES ASSUME k < j PROVE FALSE
    OBVIOUS
  <2>1. n * k + n <= n * j
    BY <1>2, <1>3
  <2> QED
    BY <1>2, <1>4, <2>1
<1>6. ~(j < k)
  <2> SUFFICES ASSUME j < k PROVE FALSE
    OBVIOUS
  <2>1. n * j + n <= n * k
    BY <1>2, <1>3
  <2> QED
    BY <1>2, <1>4, <2>1
<1>7. j = k
  BY <1>2, <1>5, <1>6
<1> QED
  BY <1>1, <1>2, <1>7

\* Where the rounds above the genesis block begin: each slot of such a round
\* leads to its first slot, and the next one begins where it ends.
LEMMA FirstSlots ==
  ASSUME NEW s \in Int, NEW n \in Nat \ {0},
         NEW f, f = FirstSlotInRound(s, n)
  PROVE  /\ f \in Int /\ f <= s /\ s <= f + n - 1
         /\ \A t \in f..f + n - 1 : FirstSlotInRound(t, n) = f
         /\ FirstSlotInRound(f + n, n) = f + n
<1>1. PICK k \in Int, m \in 0..n - 1 : s + 1 = n * k + m /\ m = (s + 1) % n
  <2>1. (s + 1) \div n \in Int /\ (s + 1) % n \in 0..n - 1
        /\ s + 1 = n * ((s + 1) \div n) + ((s + 1) % n)
    OBVIOUS
  <2> QED
    BY <2>1
<1>2. PICK p \in Int : p = n * k
  OBVIOUS
<1>3. f = s - m /\ f + 1 = p
  BY <1>1, <1>2 DEF FirstSlotInRound
<1>4. f \in Int /\ f <= s /\ s <= f + n - 1
  BY <1>1, <1>3
<1>5. ASSUME NEW t \in f..f + n - 1 PROVE FirstSlotInRound(t, n) = f
  <2>1. t - f \in 0..n - 1 /\ t + 1 \in Int /\ t + 1 = n * k + (t - f)
    BY <1>2, <1>3, <1>4
  <2>2. (t + 1) % n = t - f
    BY <2>1, Remainder
  <2> QED
    BY <1>4, <2>2 DEF FirstSlotInRound
<1>6. FirstSlotInRound(f + n, n) = f + n
  <2>1. n * (k + 1) = p + n
    BY <1>2
  <2>2. f + n + 1 = n * (k + 1) + 0 /\ f + n + 1 \in Int /\ k + 1 \in Int /\ 0 \in 0..n - 1
    BY <1>3, <1>4, <2>1
  <2>3. (f + n + 1) % n = 0
    BY <2>2, Remainder
  <2> QED
    BY <1>4, <2>3 DEF FirstSlotInRound
<1> QED
  BY <1>4, <1>5, <1>6

-----------------------------------------------------------------------------
(* Lemmas about a chain and its rounds.                                    *)

\* What Fits says of the single blocks and rounds.
LEMMA FitsTypes ==
  ASSUME NEW c \in Seq(Blocks), NEW q \in Seq(RoundType), Fits(c, q)
  PROVE  /\ Len(c) \in Nat /\ Len(q) \in Nat
         /\ \A i \in 1..Len(c) :
              /\ c[i] \in Blocks /\ c[i].slot \in Nat
              /\ c[i].id \in BlockIds
         /\ \A k \in 1..Len(q) : q[k] \in RoundType /\ Proper(q[k])
<1>1. Len(c) \in Nat /\ Len(q) \in Nat
  BY LenProperties
<1>2. \A i \in 1..Len(c) : c[i] \in Blocks
  BY ElementOfSeq
<1>3. \A i \in 1..Len(c) : c[i].slot \in Nat /\ c[i].id \in BlockIds
  BY <1>2, BlockFields
<1>4. ASSUME NEW k \in 1..Len(q)
      PROVE  q[k] \in RoundType /\ Proper(q[k])
  <2>1. q[k] \in RoundType
    BY ElementOfSeq
  <2>2. PICK j \in 1..Len(c) : q[k].order = Schedule[c[j].id]
    BY DEF Fits, BasedOn
  <2> QED
    BY <1>3, <2>1, <2>2, ScheduledRound
<1> QED
  BY <1>1, <1>2, <1>3, <1>4

\* Each block lies in one round, not later than the last one.
LEMMA BlockInRounds ==
  ASSUME NEW c \in Seq(Blocks), NEW q \in Seq(RoundType), Fits(c, q), q # <<>>,
         NEW i \in 2..Len(c)
  PROVE  /\ c[i].slot <= LastSlot(q[Len(q)])
         /\ \A k \in 1..Len(q) : InRound(q[k], c[i].slot) => Forges(q[k], c[i])
<1>0. /\ Len(c) \in Nat /\ Len(q) \in Nat \ {0}
      /\ \A k \in 1..Len(q) : Proper(q[k])
  BY FitsTypes, EmptySeq
<1>1. PICK m \in 1..Len(q) : Forges(q[m], c[i])
  BY DEF Fits
<1>2. InRound(q[m], c[i].slot)
  BY <1>0, <1>1, ForgedInRound
<1>3. i \in 1..Len(c) /\ c[i].slot \in Nat
  <2>1. i \in 1..Len(c)
    BY <1>0
  <2> QED
    BY <2>1, FitsTypes
<1>4. \A k \in 1..Len(q) : q[k].first \in Int /\ LastSlot(q[k]) \in Int
                         /\ q[k].first <= LastSlot(q[k])
  BY <1>0 DEF Proper
<1>5. \A k, l \in 1..Len(q) : k < l => LastSlot(q[k]) < q[l].first
  BY DEF Fits, Ascending
<1>6. c[i].slot <= LastSlot(q[Len(q)])
  <2>1. Len(q) \in 1..Len(q)
    BY <1>0
  <2>2. CASE m = Len(q)
    BY <1>2, <2>2 DEF InRound
  <2>3. CASE m # Len(q)
    <3>1. m < Len(q)
      BY <1>0, <2>3
    <3> QED
      BY <1>2, <1>3, <1>4, <1>5, <2>1, <3>1, SMTT(20) DEF InRound
  <2> QED
    BY <2>2, <2>3
<1>7. ASSUME NEW k \in 1..Len(q), InRound(q[k], c[i].slot)
      PROVE  k = m
  <2>1. ~(k < m) /\ ~(m < k)
    BY <1>2, <1>3, <1>4, <1>5, <1>7 DEF InRound
  <2> QED
    BY <1>0, <2>1
<1> QED
  BY <1>1, <1>6, <1>7

\* The first round, generated on the genesis block.
LEMMA FirstFits ==
  ASSUME NEW c \in Seq(Blocks), Len(c) = 1, NEW s \in Int,
         NEW r, r = NewRound(FirstSlotInRound(s, ActiveCount(c[1])), c[1].id),
         NEW q, q = <<r>>
  PROVE  /\ q \in Seq(RoundType) /\ Fits(c, q) /\ Flagged(c, q)
         /\ InRound(r, s)
<1>1. 1 \in 1..Len(c) /\ c[1] \in Blocks /\ c[1].id \in BlockIds
  <2>1. 1 \in 1..Len(c)
    OBVIOUS
  <2>2. c[1] \in Blocks
    BY <2>1, ElementOfSeq
  <2> QED
    BY <2>1, <2>2, BlockFields
<1>2. PICK n : n = ActiveCount(c[1])
  OBVIOUS
<1>3. n \in Nat \ {0} /\ n = Len(Schedule[c[1].id])
  BY <1>1, <1>2, ScheduleAssumption, EmptySeq, LenProperties DEF ActiveCount
<1>4. PICK f : f = FirstSlotInRound(s, n)
  OBVIOUS
<1>5. /\ f \in Int /\ f <= s /\ s <= f + n - 1
      /\ \A t \in f..f + n - 1 : FirstSlotInRound(t, n) = f
  BY <1>3, <1>4, FirstSlots
<1>6. r = NewRound(f, c[1].id)
  BY <1>2, <1>4
<1>7. /\ r.first = f /\ r.order = Schedule[c[1].id] /\ r.forged = {}
      /\ r \in RoundType
  <2>1. r \in RoundType
    BY <1>1, <1>5, <1>6, NewRoundType
  <2> QED
    BY <1>6, <2>1 DEF NewRound
<1>8. InRound(r, s)
  BY <1>3, <1>5, <1>7 DEF InRound, LastSlot
<1>9. q \in Seq(RoundType) /\ Len(q) = 1 /\ q[1] = r /\ \A k \in 1..1 : k = 1
  BY <1>7
<1>10. BasedOn(c, r)
  <2>1. f \in f..f + n - 1
    BY <1>3, <1>5
  <2>2. FirstSlotInRound(f, n) = f
    BY <1>5, <2>1
  <2>3. IsBefore(c, 1, r.first)
    BY DEF IsBefore
  <2> QED
    BY <1>1, <1>3, <1>7, <2>2, <2>3 DEF BasedOn
<1>11. 2..Len(c) = {}
  OBVIOUS
<1>12. Fits(c, q)
  BY <1>9, <1>10, <1>11 DEF Fits, Ascending, Gapless, Rising
<1>13. Flagged(c, q)
  BY <1>7, <1>9, <1>11 DEF Flagged
<1> QED
  BY <1>8, <1>9, <1>12, <1>13

\* The next round, generated on the last block.
LEMMA ForwardFits ==
  ASSUME NEW c \in Seq(Blocks), c # <<>>, NEW q \in Seq(RoundType), q # <<>>,
         Fits(c, q), Flagged(c, q),
         NEW r, r = NewRound(LastSlot(Last(q)) + 1, Last(c).id),
         NEW p, p = Append(q, r)
  PROVE  p \in Seq(RoundType) /\ Fits(c, p) /\ Flagged(c, p)
<1>1. PICK n \in Nat \ {0}, m \in Nat \ {0} : n = Len(c) /\ m = Len(q)
  BY EmptySeq
<1>2. /\ \A i \in 1..n : /\ c[i] \in Blocks /\ c[i].slot \in Nat
                         /\ c[i].id \in BlockIds
      /\ \A k \in 1..m : q[k] \in RoundType /\ Proper(q[k])
  BY <1>1, FitsTypes
<1>3. /\ Last(q) = q[m] /\ Last(c) = c[n] /\ n \in 1..n /\ m \in 1..m
  BY <1>1 DEF Last
<1>4. PICK l : l = LastSlot(q[m])
  OBVIOUS
<1>5. l \in Int /\ q[m].first \in Int /\ q[m].first <= l
  BY <1>2, <1>3, <1>4 DEF Proper
<1>6. r = NewRound(l + 1, c[n].id) /\ l + 1 \in Int
  BY <1>3, <1>4, <1>5
<1>7. /\ r.first = l + 1 /\ r.order = Schedule[c[n].id] /\ r.forged = {}
      /\ r \in RoundType
  BY <1>2, <1>3, <1>6, NewRoundType DEF NewRound
<1>8. /\ p \in Seq(RoundType) /\ Len(p) = m + 1 /\ p[m + 1] = r
      /\ \A k \in 1..m : p[k] = q[k]
  BY <1>1, <1>7, AppendProperties
<1>9. \A i \in 2..n : c[i].slot <= l
  BY <1>1, <1>4, BlockInRounds
<1>10. \A k \in 1..m : LastSlot(q[k]) \in Int /\ LastSlot(q[k]) <= l
  <2> TAKE k \in 1..m
  <2>1. LastSlot(q[k]) \in Int
    BY <1>2 DEF Proper
  <2>2. k < m => LastSlot(q[k]) < q[m].first
    BY <1>1, <1>3 DEF Fits, Ascending
  <2>3. k < m \/ k = m
    BY <1>1
  <2> QED
    BY <1>4, <1>5, <2>1, <2>2, <2>3
<1>11. \A k \in 1..m + 1 : k \in 1..m \/ k = m + 1
  BY <1>1
<1>12. Ascending(p)
  <2> SUFFICES ASSUME NEW k \in 1..m + 1, NEW j \in 1..m + 1, k < j
               PROVE  LastSlot(p[k]) < p[j].first
    BY <1>8 DEF Ascending
  <2>1. k \in 1..m /\ p[k] = q[k]
    BY <1>1, <1>8
  <2>2. CASE j \in 1..m
    BY <1>1, <1>8, <2>1, <2>2 DEF Fits, Ascending
  <2>3. CASE j = m + 1
    BY <1>5, <1>7, <1>8, <1>10, <2>1, <2>3
  <2> QED
    BY <1>11, <2>2, <2>3
<1>13. Gapless(p)
  <2> SUFFICES ASSUME NEW k \in 2..m + 1
               PROVE  p[k].first = LastSlot(p[k - 1]) + 1
    BY <1>8 DEF Gapless
  <2>1. k - 1 \in 1..m /\ p[k - 1] = q[k - 1]
    BY <1>1, <1>8
  <2>2. CASE k \in 2..m
    BY <1>1, <1>8, <2>1, <2>2 DEF Fits, Gapless
  <2>3. CASE k = m + 1
    BY <1>1, <1>4, <1>7, <1>8, <2>1, <2>3
  <2> QED
    BY <1>1, <2>2, <2>3
<1>14. BasedOn(c, r)
  <2>1. IsBefore(c, n, r.first)
    <3>1. n = 1 \/ c[n].slot < r.first
      <4>1. CASE n = 1
        BY <4>1
      <4>2. CASE n # 1
        <5>1. n \in 2..n
          BY <1>1, <4>2
        <5> QED
          BY <1>2, <1>3, <1>5, <1>7, <1>9, <5>1
      <4> QED
        BY <4>1, <4>2
    <3>2. \A i \in 1..n : ~(n < i)
      BY <1>1
    <3> QED
      BY <1>1, <3>1, <3>2 DEF IsBefore
  <2>2. ASSUME n = 1 PROVE FirstSlotInRound(r.first, Len(r.order)) = r.first
    <3>1. PICK j \in 1..n : /\ q[m].order = Schedule[c[j].id]
                            /\ j = 1 => FirstSlotInRound(q[m].first, Len(q[m].order))
                                          = q[m].first
      BY <1>1, <1>3 DEF Fits, BasedOn
    <3>2. j = n /\ j = 1
      BY <2>2
    <3>3. PICK f, k : f = q[m].first /\ k = Len(q[m].order)
      OBVIOUS
    <3>4. f \in Int /\ k \in Nat \ {0} /\ f = FirstSlotInRound(f, k)
      BY <1>2, <1>3, <3>1, <3>2, <3>3 DEF Proper
    <3>5. FirstSlotInRound(f + k, k) = f + k
      BY <3>4, FirstSlots
    <3>6. r.order = q[m].order /\ r.first = f + k
      <4>1. l = f + k - 1
        BY <1>2, <1>3, <1>4, <3>3 DEF Proper
      <4> QED
        BY <1>7, <3>1, <3>2, <3>4, <4>1
    <3> QED
      BY <3>3, <3>5, <3>6
  <2> QED
    BY <1>1, <1>3, <1>7, <2>1, <2>2 DEF BasedOn
<1>15. \A k \in 1..m + 1 : BasedOn(c, p[k])
  BY <1>1, <1>8, <1>11, <1>14 DEF Fits
<1>16. \A i \in 2..n : \E k \in 1..m + 1 : Forges(p[k], c[i])
  <2> TAKE i \in 2..n
  <2>1. PICK k \in 1..m : Forges(q[k], c[i])
    BY <1>1 DEF Fits
  <2>2. k \in 1..m + 1
    BY <1>1
  <2> QED
    BY <1>8, <2>1, <2>2
<1>17. Fits(c, p)
  BY <1>1, <1>8, <1>12, <1>13, <1>15, <1>16 DEF Fits
<1>18. Flagged(c, p)
  <2> SUFFICES ASSUME NEW k \in 1..m + 1, NEW d
               PROVE  d \in p[k].forged <=>
                        \E i \in 2..n : InRound(p[k], c[i].slot) /\ c[i].generator = d
    BY <1>1, <1>8 DEF Flagged
  <2>1. CASE k \in 1..m
    BY <1>1, <1>8, <2>1 DEF Flagged
  <2>2. CASE k = m + 1
    <3>1. ASSUME NEW i \in 2..n PROVE ~InRound(r, c[i].slot)
      <4>1. i \in 1..n
        BY <1>1
      <4>2. c[i].slot \in Nat /\ c[i].slot <= l
        BY <1>2, <1>9, <4>1
      <4>3. ~(r.first <= c[i].slot)
        BY <1>5, <1>7, <4>2
      <4> QED
        BY <4>3 DEF InRound
    <3> QED
      BY <1>7, <1>8, <2>2, <3>1
  <2> QED
    BY <1>11, <2>1, <2>2
<1> QED
  BY <1>8, <1>17, <1>18

\* What the following lemmas need of a chain and its rounds.
LEMMA FitsOrder ==
  ASSUME NEW c \in Seq(Blocks), NEW q \in Seq(RoundType), Fits(c, q), q # <<>>
  PROVE  \A k \in 1..Len(q) :
           /\ q[k].first \in Int /\ LastSlot(q[k]) \in Int
           /\ q[k].first <= LastSlot(q[k])
           /\ q[k].first <= q[Len(q)].first
           /\ k # Len(q) => LastSlot(q[k]) < q[Len(q)].first
<1>1. PICK m \in Nat \ {0} : m = Len(q)
  BY EmptySeq
<1>2. \A k \in 1..m : /\ q[k].first \in Int /\ LastSlot(q[k]) \in Int
                      /\ q[k].first <= LastSlot(q[k])
  BY <1>1, FitsTypes DEF Proper
<1>3. m \in 1..m /\ \A k \in 1..m : k < m \/ k = m
  BY <1>1
<1>4. \A k \in 1..m : k < m => LastSlot(q[k]) < q[m].first
  BY <1>1, <1>3 DEF Fits, Ascending
<1>5. ASSUME NEW k \in 1..m
      PROVE  /\ q[k].first <= q[m].first
             /\ k # m => LastSlot(q[k]) < q[m].first
  <2>1. /\ q[k].first \in Int /\ LastSlot(q[k]) \in Int
        /\ q[k].first <= LastSlot(q[k]) /\ q[m].first \in Int
    BY <1>2, <1>3
  <2>2. k < m => LastSlot(q[k]) < q[m].first
    BY <1>4
  <2>3. k < m \/ k = m
    BY <1>3
  <2> QED
    BY <2>1, <2>2, <2>3
<1> QED
  BY <1>1, <1>2, <1>5

\* Only which slots of the last round are marked is different.
Marked(q, f, p) ==
  /\ p \in Seq(RoundType) /\ Len(p) = Len(q) /\ p # <<>>
  /\ \A k \in 1..Len(q) :
       /\ Same(q[k], p[k])
       /\ k = Len(q) => p[k].forged = f
       /\ k # Len(q) => p[k].forged = q[k].forged

LEMMA MarkedFits ==
  ASSUME NEW c \in Seq(Blocks), NEW q \in Seq(RoundType), Fits(c, q), q # <<>>,
         NEW f \in SUBSET Delegates,
         NEW p, p = [q EXCEPT ![Len(q)].forged = f]
  PROVE  Marked(q, f, p) /\ Fits(c, p)
<1>1. PICK m \in Nat \ {0} : m = Len(q)
  BY EmptySeq
<1>2. p \in Seq(RoundType) /\ p # <<>>
  BY MarkType
<1>3. DOMAIN q = 1..m /\ DOMAIN p = 1..m /\ p = [q EXCEPT ![m].forged = f]
  BY <1>1, LenProperties
<1>4. Len(p) = m
  BY <1>1, <1>2, <1>3, LenProperties
<1>5. \A k \in 1..m : q[k] \in RoundType
  BY <1>1, FitsTypes
<1>6. ASSUME NEW k \in 1..m
      PROVE  /\ Same(q[k], p[k])
             /\ k = m => p[k].forged = f
             /\ k # m => p[k].forged = q[k].forged
  <2>1. CASE k = m
    <3>1. PICK r : r = q[k]
      OBVIOUS
    <3>2. p[k] = [r EXCEPT !.forged = f]
      BY <1>3, <2>1, <3>1
    <3>3. r = [first |-> r.first, order |-> r.order, forged |-> r.forged]
      BY <1>5, <3>1 DEF RoundType
    <3>4. /\ p[k].first = r.first /\ p[k].order = r.order
          /\ p[k].forged = f
      BY <3>2, <3>3
    <3>5. Same(q[k], p[k])
      BY <3>1, <3>4 DEF Same
    <3> QED
      BY <2>1, <3>4, <3>5
  <2>2. CASE k # m
    <3>1. p[k] = q[k]
      BY <1>3, <2>2
    <3>2. Same(q[k], p[k])
      BY <3>1 DEF Same
    <3> QED
      BY <2>2, <3>1, <3>2
  <2> QED
    BY <2>1, <2>2
<1>7. \A k \in 1..m : /\ q[k].first = p[k].first /\ q[k].order = p[k].order
                      /\ LastSlot(q[k]) = LastSlot(p[k])
                      /\ \A b : Forges(q[k], b) <=> Forges(p[k], b)
  <2> TAKE k \in 1..m
  <2>1. Same(q[k], p[k])
    BY <1>6
  <2>2. /\ LastSlot(q[k]) = LastSlot(p[k])
        /\ \A b : Forges(q[k], b) <=> Forges(p[k], b)
    BY <2>1, SameRound
  <2>3. q[k].first = p[k].first /\ q[k].order = p[k].order
    BY <2>1 DEF Same
  <2> QED
    BY <2>2, <2>3
<1>8. Ascending(p)
  BY <1>1, <1>4, <1>7 DEF Fits, Ascending
<1>9. Gapless(p)
  <2>1. \A k \in 2..m : k \in 1..m /\ k - 1 \in 1..m
    BY <1>1
  <2> QED
    BY <1>1, <1>4, <1>7, <2>1 DEF Fits, Gapless
<1>10. \A k \in 1..m : BasedOn(c, p[k])
  <2> TAKE k \in 1..m
  <2>1. BasedOn(c, q[k])
    BY <1>1 DEF Fits
  <2>2. q[k].first = p[k].first /\ q[k].order = p[k].order
    BY <1>7
  <2> QED
    BY <2>1, <2>2 DEF BasedOn, IsBefore
<1>11. \A i \in 2..Len(c) : \E k \in 1..m : Forges(p[k], c[i])
  <2> TAKE i \in 2..Len(c)
  <2>1. PICK k \in 1..m : Forges(q[k], c[i])
    BY <1>1 DEF Fits
  <2> QED
    BY <1>7, <2>1
<1>12. Rising(c)
  BY DEF Fits
<1>13. Fits(c, p)
  BY <1>4, <1>8, <1>9, <1>10, <1>11, <1>12 DEF Fits
<1> QED
  BY <1>1, <1>2, <1>4, <1>6, <1>13 DEF Marked

\* The last round is given up, when the last block does not lie in it.
LEMMA BackwardFits ==
  ASSUME NEW c \in Seq(Blocks), c # <<>>, NEW q \in Seq(RoundType), Len(q) > 1,
         Fits(c, q), Flagged(c, q),
         Len(c) = 1 \/ ~InRound(q[Len(q)], c[Len(c)].slot),
         NEW p, p = Front(q)
  PROVE  p \in Seq(RoundType) /\ p # <<>> /\ Fits(c, p) /\ Flagged(c, p)
<1>1. PICK n \in Nat \ {0}, m \in Nat \ {0} : n = Len(c) /\ m = Len(q)
  BY EmptySeq, LenProperties
<1>2. q # <<>> /\ m - 1 \in Nat \ {0}
  BY <1>1, EmptySeq
<1>3. /\ p \in Seq(RoundType) /\ Len(p) = m - 1
      /\ \A k \in 1..m - 1 : p[k] = q[k]
  BY <1>1, <1>2, FrontElements
<1>4. \A k \in 1..m - 1 : k \in 1..m /\ k # m
  BY <1>1
<1>5. \A i \in 1..n : c[i].slot \in Nat
  BY <1>1, FitsTypes
<1>6. q[m].first \in Int /\ LastSlot(q[m]) \in Int /\ Proper(q[m])
  <2>1. m \in 1..m
    BY <1>1
  <2>2. Proper(q[m])
    BY <1>1, <2>1, FitsTypes
  <2> QED
    BY <2>2 DEF Proper
<1>7. ASSUME NEW i \in 2..n PROVE ~InRound(q[m], c[i].slot)
  <2>1. i \in 1..n /\ n \in 1..n /\ n \in 2..n /\ n # 1
    BY <1>1
  <2>2. c[n].slot <= LastSlot(q[m])
    BY <1>1, <1>2, <2>1, BlockInRounds
  <2>3. c[n].slot < q[m].first
    BY <1>1, <1>5, <1>6, <2>1, <2>2 DEF InRound
  <2>4. c[i].slot <= c[n].slot
    <3>1. i < n => c[i].slot < c[n].slot
      BY <1>1, <2>1 DEF Fits, Rising
    <3>2. i < n \/ i = n
      BY <2>1
    <3> QED
      BY <1>5, <2>1, <3>1, <3>2
  <2>5. ~(q[m].first <= c[i].slot)
    BY <1>5, <1>6, <2>1, <2>3, <2>4, SMTT(20)
  <2> QED
    BY <2>5 DEF InRound
<1>8. \A i \in 2..n : \E k \in 1..m - 1 : Forges(p[k], c[i])
  <2> TAKE i \in 2..n
  <2>1. PICK k \in 1..m : Forges(q[k], c[i])
    BY <1>1 DEF Fits
  <2>2. CASE k = m
    <3>1. InRound(q[m], c[i].slot)
      BY <1>6, <2>1, <2>2, ForgedInRound
    <3> QED
      BY <1>7, <3>1
  <2>3. CASE k # m
    <3>1. k \in 1..m - 1
      BY <1>1, <2>3
    <3> QED
      BY <1>3, <2>1, <3>1
  <2> QED
    BY <2>2, <2>3
<1>9. Ascending(p)
  BY <1>1, <1>3, <1>4 DEF Fits, Ascending
<1>10. Gapless(p)
  <2>1. \A k \in 2..m - 1 : k \in 2..m /\ k \in 1..m - 1 /\ k - 1 \in 1..m - 1
    BY <1>1
  <2> QED
    BY <1>1, <1>3, <2>1 DEF Fits, Gapless
<1>11. Fits(c, p)
  BY <1>1, <1>3, <1>4, <1>8, <1>9, <1>10 DEF Fits
<1>12. Flagged(c, p)
  BY <1>1, <1>3, <1>4 DEF Flagged
<1>13. p # <<>>
  BY <1>2, <1>3, EmptySeq
<1> QED
  BY <1>3, <1>11, <1>12, <1>13

\* A block of the last round goes on top, and its slot is marked.
LEMMA PushFits ==
  ASSUME NEW c \in Seq(Blocks), c # <<>>, NEW q \in Seq(RoundType), q # <<>>,
         Fits(c, q), NEW b \in Blocks,
         Forges(q[Len(q)], b), c[Len(c)].slot < b.slot,
         NEW e, e = Append(c, b)
  PROVE  /\ Fits(e, q)
         /\ Flagged(c, q) =>
              \A p : p = [q EXCEPT ![Len(q)].forged = @ \cup {b.generator}]
                    => p \in Seq(RoundType) /\ p # <<>> /\ Fits(e, p) /\ Flagged(e, p)
<1>1. PICK n \in Nat \ {0}, m \in Nat \ {0} : n = Len(c) /\ m = Len(q)
  BY EmptySeq
<1>2. /\ e \in Seq(Blocks) /\ Len(e) = n + 1 /\ e[n + 1] = b
      /\ \A i \in 1..n : e[i] = c[i]
  BY <1>1, AppendProperties
<1>3. \A i \in 1..n + 1 : i \in 1..n \/ i = n + 1
  BY <1>1
<1>4. b.slot \in Nat /\ \A i \in 1..n : c[i].slot \in Nat
  BY <1>1, FitsTypes, BlockFields
<1>5. /\ m \in 1..m /\ n \in 1..n /\ Proper(q[m])
      /\ \A k \in 1..m : /\ q[k].first \in Int /\ LastSlot(q[k]) \in Int
                         /\ q[k].first <= q[m].first
                         /\ k # m => LastSlot(q[k]) < q[m].first
  BY <1>1, FitsTypes, FitsOrder, SMTT(20)
<1>6. InRound(q[m], b.slot) /\ q[m].first <= b.slot
  BY <1>1, <1>5, ForgedInRound DEF InRound
<1>7. \A i \in 1..n : c[i].slot < b.slot
  <2> TAKE i \in 1..n
  <2>1. i < n => c[i].slot < c[n].slot
    BY <1>1, <1>5 DEF Fits, Rising
  <2>2. i < n \/ i = n
    BY <1>1
  <2> QED
    BY <1>1, <1>4, <1>5, <2>1, <2>2
<1>8. Rising(e)
  <2> SUFFICES ASSUME NEW i \in 1..n + 1, NEW j \in 1..n + 1, i < j
               PROVE  e[i].slot < e[j].slot
    BY <1>2 DEF Rising
  <2>1. i \in 1..n /\ e[i] = c[i]
    BY <1>1, <1>2
  <2>2. CASE j \in 1..n
    BY <1>1, <1>2, <2>1, <2>2 DEF Fits, Rising
  <2>3. CASE j = n + 1
    BY <1>2, <1>7, <2>1, <2>3
  <2> QED
    BY <1>3, <2>2, <2>3
<1>9. ASSUME NEW k \in 1..m PROVE BasedOn(e, q[k])
  <2>1. PICK j \in 1..n :
          /\ IsBefore(c, j, q[k].first)
          /\ q[k].order = Schedule[c[j].id]
          /\ j = 1 => FirstSlotInRound(q[k].first, Len(q[k].order)) = q[k].first
    BY <1>1 DEF Fits, BasedOn
  <2>2. q[k].first <= b.slot
    <3>1. /\ q[k].first \in Int /\ q[m].first \in Int
          /\ q[k].first <= q[m].first
      BY <1>5
    <3> QED
      BY <1>4, <1>6, <3>1
  <2>3. IsBefore(e, j, q[k].first)
    <3>1. j = 1 \/ e[j].slot < q[k].first
      BY <1>2, <2>1 DEF IsBefore
    <3>2. \A i \in 1..n + 1 : j < i => q[k].first <= e[i].slot
      BY <1>1, <1>2, <1>3, <2>1, <2>2 DEF IsBefore
    <3> QED
      BY <1>2, <3>1, <3>2 DEF IsBefore
  <2>4. j \in 1..Len(e) /\ e[j] = c[j]
    BY <1>1, <1>2
  <2> QED
    BY <2>1, <2>3, <2>4 DEF BasedOn
<1>10. \A i \in 2..n + 1 : \E k \in 1..m : Forges(q[k], e[i])
  <2> TAKE i \in 2..n + 1
  <2>1. CASE i = n + 1
    BY <1>1, <1>2, <1>5, <2>1
  <2>2. CASE i # n + 1
    <3>1. i \in 2..n /\ e[i] = c[i]
      BY <1>1, <1>2, <2>2
    <3> QED
      BY <1>1, <3>1 DEF Fits
  <2> QED
    BY <2>1, <2>2
<1>11. Fits(e, q)
  BY <1>1, <1>2, <1>8, <1>9, <1>10 DEF Fits
<1>12. ASSUME Flagged(c, q),
              NEW p, p = [q EXCEPT ![Len(q)].forged = @ \cup {b.generator}]
       PROVE  p \in Seq(RoundType) /\ p # <<>> /\ Fits(e, p) /\ Flagged(e, p)
  <2>1. PICK f : f = q[m].forged \cup {b.generator}
    OBVIOUS
  <2>2. f \in SUBSET Delegates
    BY <1>1, <1>5, <2>1, FitsTypes, BlockFields DEF RoundType
  <2>3. p = [q EXCEPT ![Len(q)].forged = f]
    BY <1>1, <1>12, <2>1
  <2>4. /\ p \in Seq(RoundType) /\ p # <<>> /\ Len(p) = m /\ Fits(e, p)
        /\ \A k \in 1..m : /\ Same(q[k], p[k])
                           /\ k = m => p[k].forged = f
                           /\ k # m => p[k].forged = q[k].forged
    <3>1. Marked(q, f, p) /\ Fits(e, p)
      BY <1>2, <1>11, <2>2, <2>3, MarkedFits
    <3> QED
      BY <1>1, <3>1 DEF Marked
  <2>5. \A k \in 1..m : \A s : InRound(p[k], s) <=> InRound(q[k], s)
    BY <2>4, SameRound
  <2>6. ASSUME NEW k \in 1..m, NEW d
        PROVE  d \in p[k].forged <=>
                 \E i \in 2..n + 1 : InRound(p[k], e[i].slot) /\ e[i].generator = d
    <3>1. d \in q[k].forged <=>
            \E i \in 2..n : InRound(q[k], c[i].slot) /\ c[i].generator = d
      BY <1>1, <1>12 DEF Flagged
    <3>2. /\ \A i \in 2..n : i \in 2..n + 1 /\ i \in 1..n
          /\ \A i \in 2..n + 1 : i \in 2..n \/ i = n + 1
          /\ n + 1 \in 2..n + 1
      BY <1>1
    <3>3. (\E i \in 2..n + 1 : InRound(p[k], e[i].slot) /\ e[i].generator = d)
            <=> \/ \E i \in 2..n : InRound(q[k], c[i].slot) /\ c[i].generator = d
                \/ InRound(q[k], b.slot) /\ b.generator = d
      BY <1>2, <2>5, <3>2
    <3>4. CASE k = m
      BY <1>6, <2>1, <2>4, <3>1, <3>3, <3>4
    <3>5. CASE k # m
      <4>1. ~(b.slot <= LastSlot(q[k]))
        BY <1>4, <1>5, <1>6, <3>5
      <4>2. ~InRound(q[k], b.slot)
        BY <4>1 DEF InRound
      <4> QED
        BY <2>4, <3>1, <3>3, <3>5, <4>2
    <3> QED
      BY <3>4, <3>5
  <2>7. Flagged(e, p)
    <3>1. Len(p) = m /\ Len(e) = n + 1
      BY <1>2, <2>4
    <3>2. SUFFICES ASSUME NEW k \in 1..Len(p), NEW d
                   PROVE  d \in p[k].forged <=>
                            \E i \in 2..Len(e) : InRound(p[k], e[i].slot)
                                                /\ e[i].generator = d
      BY DEF Flagged
    <3>3. k \in 1..m
      BY <3>1
    <3>4. 2..Len(e) = 2..n + 1
      BY <3>1
    <3> QED
      BY <2>6, <3>3, <3>4, SMTT(20)
  <2> QED
    BY <2>4, <2>7
<1> QED
  BY <1>11, <1>12

\* The last block goes, and its slot is no longer marked.
LEMMA PopFits ==
  ASSUME NEW c \in Seq(Blocks), Len(c) > 1, NEW q \in Seq(RoundType), q # <<>>,
         Fits(c, q), InRound(q[Len(q)], c[Len(c)].slot),
         NEW e, e = Front(c)
  PROVE  /\ e \in Seq(Blocks) /\ e # <<>> /\ Fits(e, q)
         /\ Flagged(c, q) =>
              \A p : p = [q EXCEPT ![Len(q)].forged = @ \ {c[Len(c)].generator}]
                    => p \in Seq(RoundType) /\ p # <<>> /\ Fits(e, p) /\ Flagged(e, p)
<1>1. PICK n \in Nat \ {0}, m \in Nat \ {0} : n = Len(c) /\ m = Len(q)
  BY EmptySeq, LenProperties
<1>2. c # <<>> /\ n - 1 \in Nat \ {0}
  BY <1>1, EmptySeq
<1>3. /\ e \in Seq(Blocks) /\ Len(e) = n - 1
      /\ \A i \in 1..n - 1 : e[i] = c[i]
  BY <1>1, <1>2, FrontElements
<1>4. e # <<>>
  BY <1>2, <1>3, EmptySeq
<1>5. /\ \A i \in 1..n - 1 : i \in 1..n /\ i < n
      /\ \A i \in 1..n : i \in 1..n - 1 \/ i = n
      /\ n \in 1..n /\ n \in 2..n /\ n # 1 /\ m \in 1..m
      /\ \A i \in 2..n - 1 : i \in 2..n /\ i \in 1..n - 1
      /\ \A i \in 2..n : i \in 2..n - 1 \/ i = n
  BY <1>1, <1>2
<1>6. \A i \in 1..n : c[i].slot \in Nat
  BY <1>1, FitsTypes
<1>7. \A k \in 1..m : Proper(q[k])
  BY <1>1, FitsTypes
<1>8. \A k \in 1..m : /\ q[k].first \in Int /\ LastSlot(q[k]) \in Int
                      /\ q[k].first <= q[m].first
                      /\ k # m => LastSlot(q[k]) < q[m].first
  BY <1>1, FitsOrder
<1>9. InRound(q[m], c[n].slot)
  BY <1>1
<1>10. \A k \in 1..m : q[k].first <= c[n].slot
  <2> TAKE k \in 1..m
  <2>1. q[m].first <= c[n].slot
    BY <1>9 DEF InRound
  <2>2. q[k].first \in Int /\ q[m].first \in Int /\ q[k].first <= q[m].first
    BY <1>5, <1>8, Zenon
  <2> QED
    BY <1>5, <1>6, <2>1, <2>2
<1>11. ASSUME NEW k \in 1..m PROVE BasedOn(e, q[k])
  <2>1. PICK j \in 1..n :
          /\ IsBefore(c, j, q[k].first)
          /\ q[k].order = Schedule[c[j].id]
          /\ j = 1 => FirstSlotInRound(q[k].first, Len(q[k].order)) = q[k].first
    BY <1>1 DEF Fits, BasedOn
  <2>2. j # n
    <3> SUFFICES ASSUME j = n PROVE FALSE
      OBVIOUS
    <3>1. c[n].slot < q[k].first
      BY <1>5, <2>1 DEF IsBefore
    <3>2. q[k].first <= c[n].slot /\ q[k].first \in Int /\ c[n].slot \in Nat
      BY <1>5, <1>6, <1>8, <1>10, Zenon
    <3> QED
      BY <3>1, <3>2
  <2>3. j \in 1..n - 1 /\ e[j] = c[j]
    BY <1>3, <1>5, <2>2
  <2>4. IsBefore(e, j, q[k].first)
    BY <1>1, <1>3, <1>5, <2>1, <2>3 DEF IsBefore
  <2> QED
    BY <1>3, <2>1, <2>3, <2>4 DEF BasedOn
<1>12. Rising(e)
  <2> SUFFICES ASSUME NEW i \in 1..n - 1, NEW j \in 1..n - 1, i < j
               PROVE  e[i].slot < e[j].slot
    BY <1>3 DEF Rising
  <2>1. i \in 1..n /\ j \in 1..n /\ e[i] = c[i] /\ e[j] = c[j]
    BY <1>3, <1>5
  <2> QED
    BY <1>1, <2>1 DEF Fits, Rising
<1>13. \A i \in 2..n - 1 : \E k \in 1..m : Forges(q[k], e[i])
  <2> TAKE i \in 2..n - 1
  <2>1. i \in 2..n /\ e[i] = c[i]
    BY <1>3, <1>5
  <2> QED
    BY <1>1, <2>1 DEF Fits
<1>14. Fits(e, q)
  BY <1>1, <1>3, <1>11, <1>12, <1>13 DEF Fits
<1>15. PICK g : g = c[n].generator
  OBVIOUS
<1>16. ASSUME Flagged(c, q),
              NEW p, p = [q EXCEPT ![Len(q)].forged = @ \ {c[Len(c)].generator}]
       PROVE  p \in Seq(RoundType) /\ p # <<>> /\ Fits(e, p) /\ Flagged(e, p)
  <2>1. PICK f : f = q[m].forged \ {g}
    OBVIOUS
  <2>2. f \in SUBSET Delegates
    <3>1. q[m] \in RoundType
      BY <1>1, <1>5, FitsTypes
    <3> QED
      BY <2>1, <3>1 DEF RoundType
  <2>3. p = [q EXCEPT ![Len(q)].forged = f]
    BY <1>1, <1>15, <1>16, <2>1
  <2>4. /\ p \in Seq(RoundType) /\ p # <<>> /\ Len(p) = m /\ Fits(e, p)
        /\ \A k \in 1..m : /\ Same(q[k], p[k])
                           /\ k = m => p[k].forged = f
                           /\ k # m => p[k].forged = q[k].forged
    <3>1. Marked(q, f, p) /\ Fits(e, p)
      BY <1>3, <1>14, <2>2, <2>3, MarkedFits
    <3> QED
      BY <1>1, <3>1 DEF Marked
  <2>5. \A k \in 1..m : \A s : InRound(p[k], s) <=> InRound(q[k], s)
    BY <2>4, SameRound
  \* The generator of the last block has forged no other block of its round.
  <2>6. \A i \in 2..n - 1 : InRound(q[m], c[i].slot) => c[i].generator # g
    <3> SUFFICES ASSUME NEW i \in 2..n - 1, InRound(q[m], c[i].slot),
                        c[i].generator = g
                 PROVE  FALSE
      OBVIOUS
    <3>1. Forges(q[m], c[i]) /\ Forges(q[m], c[n])
      BY <1>1, <1>5, <1>9, BlockInRounds
    <3>2. c[i].slot = c[n].slot
      BY <1>15, <3>1 DEF Forges
    <3>3. c[i].slot < c[n].slot
      BY <1>1, <1>5 DEF Fits, Rising
    <3>4. c[n].slot \in Nat
      BY <1>5, <1>6
    <3> QED
      BY <3>2, <3>3, <3>4
  <2>7. ASSUME NEW k \in 1..m, NEW d
        PROVE  d \in p[k].forged <=>
                 \E i \in 2..n - 1 : InRound(p[k], e[i].slot) /\ e[i].generator = d
    <3>1. d \in q[k].forged <=>
            \E i \in 2..n : InRound(q[k], c[i].slot) /\ c[i].generator = d
      BY <1>1, <1>16 DEF Flagged
    <3>2. (\E i \in 2..n - 1 : InRound(p[k], e[i].slot) /\ e[i].generator = d)
            <=> \E i \in 2..n - 1 : InRound(q[k], c[i].slot) /\ c[i].generator = d
      BY <1>3, <1>5, <2>5
    <3>3. (\E i \in 2..n : InRound(q[k], c[i].slot) /\ c[i].generator = d)
            <=> \/ \E i \in 2..n - 1 : InRound(q[k], c[i].slot) /\ c[i].generator = d
                \/ InRound(q[k], c[n].slot) /\ g = d
      BY <1>5, <1>15
    <3>4. CASE k = m
      BY <1>9, <2>1, <2>4, <2>6, <3>1, <3>2, <3>3, <3>4
    <3>5. CASE k # m
      <4>1. ~(c[n].slot <= LastSlot(q[k]))
        <5>1. /\ LastSlot(q[k]) < q[m].first /\ LastSlot(q[k]) \in Int
              /\ q[m].first \in Int /\ q[m].first <= c[n].slot /\ c[n].slot \in Nat
          BY <1>5, <1>6, <1>8, <1>10, <3>5, Zenon
        <5> QED
          BY <5>1
      <4>2. ~InRound(q[k], c[n].slot)
        BY <4>1 DEF InRound
      <4> QED
        BY <2>4, <3>1, <3>2, <3>3, <3>5, <4>2
    <3> QED
      BY <3>4, <3>5
  <2>8. Flagged(e, p)
    <3>1. Len(p) = m /\ Len(e) = n - 1
      BY <1>3, <2>4
    <3>2. SUFFICES ASSUME NEW k \in 1..Len(p), NEW d
                   PROVE  d \in p[k].forged <=>
                            \E i \in 2..Len(e) : InRound(p[k], e[i].slot)
                                                /\ e[i].generator = d
      BY DEF Flagged
    <3>3. k \in 1..m
      BY <3>1
    <3>4. 2..Len(e) = 2..n - 1
      BY <3>1
    <3> QED
      BY <2>7, <3>3, <3>4
  <2> QED
    BY <2>4, <2>8
<1> QED
  BY <1>3, <1>4, <1>14, <1>16

\* Without the last block, the rounds up to that block remain.
LEMMA ShorterFits ==
  ASSUME NEW c \in Seq(Blocks), Len(c) > 1, NEW q \in Seq(RoundType), q # <<>>,
         Fits(c, q)
  PROVE  \E p \in Seq(RoundType) : Fits(Front(c), p)
<1>1. PICK n \in Nat \ {0} : n = Len(c)
  BY LenProperties
<1>2. n \in 2..n
  BY <1>1
<1>3. PICK m \in 1..Len(q) : Forges(q[m], c[n])
  BY <1>1, <1>2 DEF Fits
<1>4. Len(q) \in Nat /\ m \in Nat \ {0}
  BY LenProperties
<1>5. PICK p : p = [k \in 1..m |-> q[k]]
  OBVIOUS
<1>6. \A k \in 1..m : k \in 1..Len(q)
  BY <1>4
<1>7. \A k \in 1..m : p[k] \in RoundType /\ p[k] = q[k]
  BY <1>5, <1>6, ElementOfSeq
<1>8. p \in Seq(RoundType) /\ Len(p) = m
  BY <1>4, <1>5, <1>7, FunctionIsSeq
<1>9. p # <<>>
  BY <1>4, <1>8, EmptySeq
<1>10. Ascending(p)
  BY <1>6, <1>7, <1>8 DEF Fits, Ascending
<1>11. Gapless(p)
  <2>1. \A k \in 2..m : k \in 1..m /\ k - 1 \in 1..m /\ k \in 2..Len(q)
    BY <1>4
  <2> QED
    BY <1>7, <1>8, <2>1 DEF Fits, Gapless
<1>12. \A k \in 1..m : BasedOn(c, p[k])
  BY <1>6, <1>7 DEF Fits
<1>13. /\ \A i \in 1..n : c[i].slot \in Nat
       /\ \A k \in 1..Len(q) : Proper(q[k])
  BY <1>1, FitsTypes
<1>14. InRound(q[m], c[n].slot)
  BY <1>3, <1>13, ForgedInRound
<1>15. \A i \in 2..n : \E k \in 1..m : Forges(p[k], c[i])
  <2> TAKE i \in 2..n
  <2>1. PICK k \in 1..Len(q) : Forges(q[k], c[i])
    BY <1>1 DEF Fits
  <2>2. InRound(q[k], c[i].slot)
    BY <1>13, <2>1, ForgedInRound
  <2>3. ~(m < k)
    <3> SUFFICES ASSUME m < k PROVE FALSE
      OBVIOUS
    <3>1. LastSlot(q[m]) < q[k].first
      BY DEF Fits, Ascending
    <3>2. c[n].slot <= LastSlot(q[m]) /\ q[k].first <= c[i].slot
      BY <1>14, <2>2 DEF InRound
    <3>3. i < n => c[i].slot < c[n].slot
      <4>1. i \in 1..n /\ n \in 1..n
        BY <1>1
      <4> QED
        BY <1>1, <4>1 DEF Fits, Rising
    <3>4. c[i].slot \in Nat /\ c[n].slot \in Nat /\ (i < n \/ i = n)
      <4>1. i \in 1..n /\ n \in 1..n /\ (i < n \/ i = n)
        BY <1>1
      <4> QED
        BY <1>13, <4>1
    <3>5. LastSlot(q[m]) \in Int /\ q[k].first \in Int
      BY <1>13 DEF Proper
    <3> QED
      BY <3>1, <3>2, <3>3, <3>4, <3>5, SMTT(20)
  <2>4. k \in 1..m
    BY <1>4, <2>3
  <2> QED
    BY <1>7, <2>1, <2>4
<1>16. Rising(c)
  BY DEF Fits
<1>17. Fits(c, p)
  BY <1>1, <1>8, <1>10, <1>11, <1>12, <1>15, <1>16 DEF Fits
<1>18. p[Len(p)] = q[m]
  <2>1. m \in 1..m
    BY <1>4
  <2> QED
    BY <1>7, <1>8, <2>1
<1>19. Fits(Front(c), p)
  BY <1>1, <1>8, <1>9, <1>14, <1>17, <1>18, PopFits
<1> QED
  BY <1>8, <1>19

-----------------------------------------------------------------------------
(* The rounds in which the loader goes through a chain.                    *)

\* The round of the first block after the genesis block.
LEMMA LoadFirst ==
  ASSUME NEW w \in Seq(Blocks), 2 <= Len(w), NEW q \in Seq(RoundType), Fits(w, q),
         NEW r, r = NewRound(FirstSlotInRound(w[2].slot, ActiveCount(w[1])), w[1].id)
  PROVE  \E k \in 1..Len(q) : Same(r, q[k])
<1>1. PICK n \in Nat : n = Len(w)
  BY LenProperties
<1>2. 1 \in 1..n /\ 2 \in 1..n /\ 2 \in 2..n
  BY <1>1
<1>3. /\ \A i \in 1..n : w[i].slot \in Nat
      /\ \A k \in 1..Len(q) : Proper(q[k])
  BY <1>1, FitsTypes
<1>4. PICK k \in 1..Len(q) : Forges(q[k], w[2])
  BY <1>1, <1>2 DEF Fits
<1>5. PICK f, m : f = q[k].first /\ m = Len(q[k].order)
  OBVIOUS
<1>6. f \in Int /\ m \in Nat \ {0} /\ LastSlot(q[k]) = f + m - 1
  BY <1>3, <1>5 DEF Proper
<1>7. f <= w[2].slot /\ w[2].slot <= f + m - 1
  <2>1. InRound(q[k], w[2].slot)
    BY <1>3, <1>4, ForgedInRound
  <2> QED
    BY <1>5, <1>6, <2>1 DEF InRound
<1>8. PICK j \in 1..n :
        /\ IsBefore(w, j, f)
        /\ q[k].order = Schedule[w[j].id]
        /\ j = 1 => FirstSlotInRound(f, m) = f
  BY <1>1, <1>5 DEF Fits, BasedOn
<1>9. j = 1
  <2> SUFFICES ASSUME j # 1 PROVE FALSE
    OBVIOUS
  <2>1. w[j].slot < f
    BY <1>8 DEF IsBefore
  <2>2. 2 < j => w[2].slot < w[j].slot
    BY <1>1, <1>2 DEF Fits, Rising
  <2>3. 2 < j \/ 2 = j
    BY <1>1
  <2>4. PICK s \in Nat, t \in Nat : s = w[2].slot /\ t = w[j].slot
    BY <1>2, <1>3
  <2>5. s <= t
    BY <2>2, <2>3, <2>4
  <2>6. t < f /\ f <= s
    BY <1>7, <2>1, <2>4
  <2> QED
    BY <1>6, <2>4, <2>5, <2>6
<1>10. FirstSlotInRound(w[2].slot, m) = f
  <2>1. f = FirstSlotInRound(f, m)
    BY <1>8, <1>9
  <2>2. \A t \in f..f + m - 1 : FirstSlotInRound(t, m) = f
    BY <1>6, <2>1, FirstSlots
  <2>3. w[2].slot \in f..f + m - 1
    BY <1>2, <1>3, <1>6, <1>7
  <2> QED
    BY <2>2, <2>3
<1>11. r.first = f /\ r.order = q[k].order
  <2>1. ActiveCount(w[1]) = m
    BY <1>5, <1>8, <1>9 DEF ActiveCount
  <2> QED
    BY <1>8, <1>9, <1>10, <2>1 DEF NewRound
<1> QED
  BY <1>5, <1>11 DEF Same

\* The round after the one of the block before.
LEMMA LoadNext ==
  ASSUME NEW w \in Seq(Blocks), NEW q \in Seq(RoundType), Fits(w, q),
         NEW i \in 1..Len(w), i + 1 <= Len(w), NEW k \in 1..Len(q),
         NEW l, l = LastSlot(q[k]), l < w[i + 1].slot, i > 1 => w[i].slot <= l,
         NEW r, r = NewRound(l + 1, w[i].id)
  PROVE  (\E m \in 1..Len(q) : Same(r, q[m])) /\ r.first <= w[i + 1].slot
<1>1. PICK n \in Nat, o \in Nat : n = Len(w) /\ o = Len(q)
  BY LenProperties
<1>2. /\ i \in 1..n /\ i + 1 \in 1..n /\ i + 1 \in 2..n /\ k \in 1..o
  BY <1>1
<1>3. /\ \A j \in 1..n : w[j].slot \in Nat
      /\ \A m \in 1..o : Proper(q[m])
  BY <1>1, FitsTypes
<1>4. /\ \A m \in 1..o : q[m].first \in Int /\ LastSlot(q[m]) \in Int
      /\ \A m \in 1..o : q[m].first <= LastSlot(q[m])
      /\ l \in Int
  BY <1>2, <1>3 DEF Proper
<1>5. w[i + 1].slot \in Nat /\ l + 1 <= w[i + 1].slot
  <2>1. w[i + 1].slot \in Nat
    BY <1>2, <1>3
  <2> QED
    BY <1>4, <2>1
\* There is a later round.
<1>6. PICK m \in 1..o : Forges(q[m], w[i + 1])
  BY <1>1, <1>2 DEF Fits
<1>7. InRound(q[m], w[i + 1].slot)
  BY <1>3, <1>6, ForgedInRound
<1>8. k < m
  <2> SUFFICES ASSUME ~(k < m) PROVE FALSE
    OBVIOUS
  <2>1. m < k \/ m = k
    BY <1>2
  <2>2. m < k => LastSlot(q[m]) < q[k].first
    BY <1>1 DEF Fits, Ascending
  <2>3. w[i + 1].slot <= LastSlot(q[m])
    BY <1>7 DEF InRound
  <2>4. /\ LastSlot(q[m]) \in Int /\ q[k].first \in Int
        /\ q[k].first <= LastSlot(q[k])
    BY <1>2, <1>4
  <2> QED
    BY <1>4, <1>5, <2>1, <2>2, <2>3, <2>4, SMTT(20)
<1>9. PICK g \in 1..o : g = k + 1 /\ g \in 2..o
  <2>1. k + 1 \in 1..o /\ k + 1 \in 2..o
    BY <1>2, <1>8
  <2> QED
    BY <2>1
<1>10. q[g].first = l + 1
  <2>1. g - 1 = k
    BY <1>9
  <2>2. q[g].first = LastSlot(q[g - 1]) + 1
    BY <1>1, <1>9 DEF Fits, Gapless
  <2> QED
    BY <2>1, <2>2
\* It is generated on block i.
<1>11. PICK j \in 1..n : IsBefore(w, j, l + 1) /\ q[g].order = Schedule[w[j].id]
  BY <1>1, <1>10 DEF Fits, BasedOn
<1>12. j = i
  <2>1. ~(i < j)
    <3> SUFFICES ASSUME i < j PROVE FALSE
      OBVIOUS
    <3>1. j # 1
      BY <1>2
    <3>2. w[j].slot < l + 1
      BY <1>11, <3>1 DEF IsBefore
    <3>3. i + 1 < j => w[i + 1].slot < w[j].slot
      BY <1>1, <1>2 DEF Fits, Rising
    <3>4. i + 1 < j \/ i + 1 = j
      BY <1>2
    <3>5. w[j].slot \in Nat
      BY <1>3
    <3> QED
      BY <1>4, <1>5, <3>2, <3>3, <3>4, <3>5, SMTT(20)
  <2>2. ~(j < i)
    <3> SUFFICES ASSUME j < i PROVE FALSE
      OBVIOUS
    <3>1. l + 1 <= w[i].slot
      BY <1>1, <1>2, <1>11 DEF IsBefore
    <3>2. i > 1
      BY <1>2
    <3>3. w[i].slot <= l /\ w[i].slot \in Nat
      BY <1>2, <1>3, <3>2
    <3> QED
      BY <1>4, <3>1, <3>3
  <2> QED
    BY <1>2, <2>1, <2>2
<1>13. r.first = l + 1 /\ r.order = q[g].order
  BY <1>11, <1>12 DEF NewRound
<1>14. Same(r, q[g])
  BY <1>10, <1>13 DEF Same
<1> QED
  BY <1>1, <1>5, <1>13, <1>14

-----------------------------------------------------------------------------
(* The rounds fit the chain, step by step.                                 *)

\* What is proved of Node whatever the rounds do.
Settled == IInv /\ DispatchInv /\ ScheduleInv

\* Where there is a chain, it has a last block.
LEMMA InMemory ==
  ASSUME Settled, chain # <<>>
  PROVE  /\ chain \in Seq(Blocks) /\ Len(chain) \in Nat \ {0}
         /\ Last(chain) = chain[Len(chain)]
         /\ \A i \in 1..Len(chain) : chain[i] \in Blocks
         /\ chain[Len(chain)] \in Blocks /\ chain[1] = Genesis
<1>1. chain \in Seq(Blocks) /\ chain[1] = Genesis
  BY DEF Settled, IInv, BaseInv, StoreTypeOK, GenesisFirst
<1>2. Len(chain) \in Nat \ {0}
  BY <1>1, EmptySeq
<1>3. \A i \in 1..Len(chain) : chain[i] \in Blocks
  BY <1>1, ElementOfSeq
<1>4. Len(chain) \in 1..Len(chain)
  BY <1>2
<1> QED
  BY <1>1, <1>2, <1>3, <1>4 DEF Last

\* Only the loader works without a chain.
LEMMA ChainThere ==
  ASSUME Settled, Stage # "warmUp" PROVE chain # <<>>
BY DEF Settled, IInv, BaseInv, GenesisFirst

LEMMA RoundsTyped ==
  ASSUME Settled
  PROVE  /\ rounds \in Seq(RoundType) /\ Len(rounds) \in Nat
         /\ Last(rounds) = rounds[Len(rounds)]
         /\ now \in Int
<1>1. rounds \in Seq(RoundType) /\ now \in Int
  BY DEF Settled, ScheduleInv, ScheduleTypeOK
<1> QED
  BY <1>1, LenProperties DEF Last

\* A round that is finished.
LEMMA RoundsForward ==
  ASSUME Settled, RoundsInv, rounds # <<>>, chain # <<>>,
         ForwardProcess, UNCHANGED chain
  PROVE  RoundsInv'
<1>1. rounds' = Append(rounds, NewRound(LastSlot(Last(rounds)) + 1, Last(chain).id))
  BY DEF ForwardProcess, CurrentRound, LastBlock
<1>2. Fits(chain, rounds) /\ Flagged(chain, rounds)
  BY DEF RoundsInv
<1>3. chain \in Seq(Blocks) /\ rounds \in Seq(RoundType)
  BY InMemory, RoundsTyped
<1>4. PICK p : p = rounds'
  OBVIOUS
<1>5. Fits(chain, p) /\ Flagged(chain, p)
  BY <1>1, <1>2, <1>3, <1>4, ForwardFits
<1>6. rounds' # <<>>
  BY <1>1, <1>3, AppendProperties, RoundsTyped
<1> QED
  BY <1>4, <1>5, <1>6 DEF RoundsInv

\* A round that is given up.
LEMMA RoundsBackward ==
  ASSUME Settled, RoundsInv, rounds # <<>>, chain # <<>>,
         ~InRound(CurrentRound, LastBlock.slot),
         BackwardProcess, UNCHANGED chain
  PROVE  RoundsInv'
<1>1. Fits(chain, rounds) /\ Flagged(chain, rounds)
  BY DEF RoundsInv
<1>2. CASE Len(rounds) > 1
  <2>1. rounds' = Front(rounds)
    BY <1>2 DEF BackwardProcess
  <2>2. chain \in Seq(Blocks) /\ rounds \in Seq(RoundType)
    BY InMemory, RoundsTyped
  <2>3. ~InRound(rounds[Len(rounds)], chain[Len(chain)].slot)
    BY InMemory, RoundsTyped DEF CurrentRound, LastBlock
  <2>4. PICK p : p = rounds'
    OBVIOUS
  <2>5. p # <<>> /\ Fits(chain, p) /\ Flagged(chain, p)
    BY <1>1, <1>2, <2>1, <2>2, <2>3, <2>4, BackwardFits
  <2> QED
    BY <2>4, <2>5 DEF RoundsInv
<1>3. CASE ~(Len(rounds) > 1)
  BY <1>3 DEF BackwardProcess, RoundsInv
<1> QED
  BY <1>2, <1>3

\* The first round, with only the genesis block below.
LEMMA RoundsBegin ==
  ASSUME Settled, RoundsInv, rounds = <<>>, chain # <<>>, NEW s \in Int,
         rounds' = <<NewRound(FirstSlotInRound(s, ActiveCount(LastBlock)),
                              LastBlock.id)>>,
         UNCHANGED chain
  PROVE  RoundsInv' /\ rounds' # <<>> /\ InRound(CurrentRound', s)
<1>1. Len(chain) = 1 /\ chain \in Seq(Blocks) /\ LastBlock = chain[1]
  <2>1. Len(chain) <= 1
    BY DEF RoundsInv
  <2> QED
    BY <2>1, InMemory DEF LastBlock
<1>2. PICK r : r = NewRound(FirstSlotInRound(s, ActiveCount(chain[1])), chain[1].id)
  OBVIOUS
<1>3. PICK p : p = rounds' /\ p = <<r>>
  BY <1>1, <1>2
<1>4. Fits(chain, p) /\ Flagged(chain, p) /\ InRound(r, s)
  BY <1>1, <1>2, <1>3, FirstFits
<1>5. rounds' # <<>> /\ Len(rounds') = 1 /\ rounds'[1] = r
  BY <1>3
<1>6. CurrentRound' = r
  BY <1>5 DEF CurrentRound, Last
<1> QED
  BY <1>3, <1>4, <1>5, <1>6 DEF RoundsInv

\* A block of the current round on top.
LEMMA RoundsPush ==
  ASSUME Settled, RoundsInv, rounds # <<>>, chain # <<>>, NEW b \in Blocks,
         Forges(CurrentRound, b), LastBlock.slot < b.slot,
         Push(b), SetForged(b)
  PROVE  RoundsInv' /\ Fits(Append(chain, b), rounds)
<1>1. /\ chain' = Append(chain, b)
      /\ rounds' = [rounds EXCEPT ![Len(rounds)].forged = @ \cup {b.generator}]
  BY DEF Push, SetForged
<1>2. chain \in Seq(Blocks) /\ rounds \in Seq(RoundType)
  BY InMemory, RoundsTyped
<1>3. Forges(rounds[Len(rounds)], b) /\ chain[Len(chain)].slot < b.slot
  BY InMemory, RoundsTyped DEF CurrentRound, LastBlock
<1>4. Fits(chain, rounds) /\ Flagged(chain, rounds)
  BY DEF RoundsInv
<1>5. PICK e, p : e = chain' /\ p = rounds'
  OBVIOUS
<1>6. e = Append(chain, b)
  BY <1>1, <1>5
<1>7. /\ Fits(e, rounds)
      /\ \A r : r = [rounds EXCEPT ![Len(rounds)].forged = @ \cup {b.generator}]
               => r # <<>> /\ Fits(e, r) /\ Flagged(e, r)
  BY <1>2, <1>3, <1>4, <1>6, PushFits
<1>8. p # <<>> /\ Fits(e, p) /\ Flagged(e, p)
  BY <1>1, <1>5, <1>7
<1> QED
  BY <1>5, <1>6, <1>7, <1>8 DEF RoundsInv

\* The last block goes.
LEMMA RoundsPop ==
  ASSUME Settled, RoundsInv, Len(chain) > 1,
         InRound(CurrentRound, LastBlock.slot),
         chain' = Front(chain),
         rounds' = [rounds EXCEPT ![Len(rounds)].forged = @ \ {LastBlock.generator}]
  PROVE  RoundsInv' /\ rounds # <<>>
<1>0. chain # <<>> /\ rounds # <<>>
  BY EmptySeq DEF RoundsInv
<1>1. chain \in Seq(Blocks) /\ rounds \in Seq(RoundType)
  BY <1>0, InMemory, RoundsTyped
<1>2. LastBlock = chain[Len(chain)] /\ CurrentRound = rounds[Len(rounds)]
  BY <1>0, InMemory, RoundsTyped DEF LastBlock, CurrentRound
<1>3. Fits(chain, rounds) /\ Flagged(chain, rounds)
  BY <1>0 DEF RoundsInv
<1>4. PICK e, p : e = chain' /\ p = rounds'
  OBVIOUS
<1>5. p # <<>> /\ Fits(e, p) /\ Flagged(e, p)
  BY <1>0, <1>1, <1>2, <1>3, <1>4, PopFits
<1> QED
  BY <1>0, <1>4, <1>5 DEF RoundsInv

-----------------------------------------------------------------------------
(* RoundsInv.                                                              *)

\* The block that the loader is at.
LEMMA LoadedBlock ==
  ASSUME Settled, RoundsInv, Loading,
         NEW w \in Seq(Blocks), NEW q \in Seq(RoundType), Loads(w, q)
  PROVE  /\ chain # <<>> /\ Len(chain) + 1 \in 2..Len(w)
         /\ blk \in Blocks /\ blk = w[Len(chain) + 1] /\ Fits(w, q)
         /\ LastBlock = w[Len(chain)] /\ LastBlock.slot < blk.slot
         /\ rounds # <<>> /\ \E k \in 1..Len(q) : Same(CurrentRound, q[k])
         /\ InRound(CurrentRound, blk.slot) => Forges(CurrentRound, blk)
<1>1. chain # <<>>
  BY ChainThere DEF Loading
<1>2. PICK n \in Nat \ {0}, o \in Nat : n = Len(chain) /\ o = Len(w)
  BY <1>1, InMemory, LenProperties
<1>3. /\ n < o /\ blk = w[n + 1] /\ rounds # <<>>
      /\ 2 <= o => Fits(w, q)
      /\ \A i \in 1..n : chain[i] = w[i]
  BY <1>2 DEF Loads, Stores
<1>4. /\ n + 1 \in 2..o /\ 2 <= o /\ n \in 1..n /\ n \in 1..o /\ n + 1 \in 1..o
      /\ n < n + 1
  BY <1>2, <1>3
<1>5. LastBlock = w[n]
  BY <1>1, <1>2, <1>3, <1>4, InMemory DEF LastBlock
<1>6. Fits(w, q)
  BY <1>3, <1>4
<1>7. w[n].slot < w[n + 1].slot
  BY <1>2, <1>4, <1>6 DEF Fits, Rising
<1>8. blk \in Blocks
  BY <1>2, <1>3, <1>4, ElementOfSeq
<1>9. PICK k \in 1..Len(q) : Same(CurrentRound, q[k])
  BY <1>3 DEF Loads
<1>10. q # <<>>
  BY <1>9
<1>11. InRound(q[k], w[n + 1].slot) => Forges(q[k], w[n + 1])
  BY <1>2, <1>4, <1>6, <1>10, BlockInRounds
<1>12. InRound(CurrentRound, blk.slot) => Forges(CurrentRound, blk)
  BY <1>3, <1>9, <1>11, SameRound
<1> QED
  BY <1>1, <1>2, <1>3, <1>4, <1>5, <1>6, <1>7, <1>8, <1>9, <1>12

\* What is left for the loader lies above what it has loaded.
LEMMA NextLoaded ==
  ASSUME Settled, NEW w \in Seq(Blocks), NEW q, Loads(w, q), NEW b \in NextRows
  PROVE  Len(chain) + 1 \in 1..Len(w) /\ b = w[Len(chain) + 1]
         /\ b.height = Len(chain) + 1 /\ b \in db
<1>1. PICK n \in Nat, o \in Nat : n = Len(chain) /\ o = Len(w)
  BY LenProperties DEF Settled, IInv, BaseInv, StoreTypeOK
<1>2. /\ \A i \in 1..o : w[i].height = i
      /\ \A c : c \in db <=> \E i \in 1..o : c = w[i]
      /\ n <= o /\ \A i \in 1..n : chain[i] = w[i]
  BY <1>1 DEF Loads, Stores
<1>3. \A c : c \in ToSet(chain) <=> \E i \in 1..n : c = chain[i]
  <2>1. DOMAIN chain = 1..n
    BY <1>1, LenProperties DEF Settled, IInv, BaseInv, StoreTypeOK
  <2> QED
    BY <2>1 DEF ToSet
<1>4. b \in db /\ b \notin ToSet(chain)
  BY DEF NextRows, RowsLeft
<1>5. PICK i \in 1..o : b = w[i]
  BY <1>2, <1>4
<1>6. ~(i <= n)
  <2> SUFFICES ASSUME i <= n PROVE FALSE
    OBVIOUS
  <2>1. i \in 1..n
    BY <1>1
  <2> QED
    BY <1>2, <1>3, <1>4, <1>5, <2>1
<1>7. n + 1 \in 1..o /\ n < i
  BY <1>1, <1>6
<1>8. w[n + 1] \notin ToSet(chain)
  <2> SUFFICES ASSUME NEW j \in 1..n, w[n + 1] = chain[j] PROVE FALSE
    BY <1>3
  <2>1. j \in 1..o /\ w[j].height = j /\ w[n + 1].height = n + 1
    BY <1>1, <1>2, <1>7
  <2>2. w[j] = w[n + 1]
    BY <1>2
  <2> QED
    BY <1>1, <2>1, <2>2
<1>9. w[n + 1] \in RowsLeft
  BY <1>2, <1>7, <1>8 DEF RowsLeft
<1>10. b.height <= w[n + 1].height
  BY <1>9 DEF NextRows
<1>11. i = n + 1
  BY <1>1, <1>2, <1>5, <1>7, <1>10
<1> QED
  BY <1>1, <1>2, <1>4, <1>5, <1>7, <1>11

\* A step of restoreToSlot.
LEMMA RoundsRestored ==
  ASSUME Settled, RoundsInv, RestoreStep PROVE RoundsInv'
<1>1. /\ pc = "restore" /\ then \notin {"warmUp"} /\ rounds # <<>>
      /\ UNCHANGED chain
  BY DEF RestoreStep, Settled, DispatchInv, Continues, ScheduleInv, RoundsKnown,
         chainVars
<1>2. chain # <<>>
  BY <1>1, ChainThere DEF Stage
<1>3. \/ UNCHANGED rounds
      \/ ForwardProcess
      \/ BackwardProcess /\ ~InRound(CurrentRound, LastBlock.slot)
  BY DEF RestoreStep, roundVars
<1> QED
  BY <1>1, <1>2, <1>3, RoundsForward, RoundsBackward DEF RoundsInv

\* The chain and the rounds fit each other and the flags are those of the
\* blocks, whatever the node does.
LEMMA RoundsNext ==
  ASSUME Settled, ObserverInv, [Next]_vars PROVE RoundsInv'
<1>a. RoundsInv /\ RowsInv /\ TaskInv /\ LoaderInv
  BY DEF ObserverInv
<1>b. ASSUME UNCHANGED <<chain, rounds>> PROVE RoundsInv'
  BY <1>a, <1>b DEF RoundsInv
<1>c. ASSUME AtAwait PROVE chain # <<>> /\ Stage = pc /\ pc \in AwaitPoints
  <2>1. pc \in AwaitPoints /\ pc # "restore" /\ pc # "warmUp"
    BY <1>c DEF AtAwait, AwaitPoints
  <2> QED
    BY <2>1, ChainThere DEF Stage
<1>1. CASE RestoreStep
  BY <1>1, <1>a, RoundsRestored
<1>2. CASE RoundFinish
  <2>1. /\ AtAwait /\ ForwardProcess /\ UNCHANGED chain
        /\ imm # <<>> /\ Head(imm) = "ROUND_FINISH"
    BY <1>2 DEF RoundFinish, RunCallback, chainVars
  <2>2. rounds # <<>>
    <3>1. imm \in Seq(Callbacks) /\ Len(imm) \in Nat \ {0}
      BY <2>1, EmptySeq DEF Settled, DispatchInv, DispatcherTypeOK, Callbacks
    <3>2. Head(imm) = imm[1] /\ 1 \in DOMAIN imm
      BY <3>1, LenProperties
    <3>3. "ROUND_FINISH" \in ToSet(imm)
      BY <2>1, <3>2 DEF ToSet
    <3> QED
      BY <3>3 DEF Settled, ScheduleInv, RoundsKnown
  <2> QED
    BY <1>a, <1>c, <2>1, <2>2, RoundsForward
<1>3. CASE WarmUpFinished
  <2>1. AtAwait /\ UNCHANGED chain
    BY <1>3 DEF WarmUpFinished, RunCallback, chainVars
  <2>2. CASE rounds = <<>>
    <3>1. rounds' = <<NewRound(FirstSlotInRound(now, ActiveCount(LastBlock)),
                               LastBlock.id)>>
      BY <1>3, <2>2 DEF WarmUpFinished
    <3> QED
      BY <1>a, <1>c, <2>1, <2>2, <3>1, RoundsTyped, RoundsBegin
  <2>3. CASE rounds # <<>>
    BY <1>3, <1>b, <2>1, <2>3 DEF WarmUpFinished
  <2> QED
    BY <2>2, <2>3
<1>4. CASE ReceiveFails \/ ReceiveSaves
  <2>1. rounds' = RoundsForBlock /\ UNCHANGED chain /\ pc = "receive"
    BY <1>4 DEF ReceiveFails, ReceiveSaves, chainVars
  <2>2. chain # <<>> /\ blk \in Blocks
    BY <2>1, ChainThere
    DEF Stage, Settled, IInv, BaseInv, TaskBlock, StoreTypeOK, Receiving
  <2>3. blk.slot \in Int
    BY <2>2, BlockFields
  <2>4. CASE rounds = <<>>
    <3>1. rounds' = <<NewRound(FirstSlotInRound(blk.slot, ActiveCount(LastBlock)),
                               LastBlock.id)>>
      BY <2>1, <2>4 DEF RoundsForBlock
    <3> QED
      BY <1>a, <2>1, <2>2, <2>3, <2>4, <3>1, RoundsBegin
  <2>5. CASE rounds # <<>>
    BY <1>b, <2>1, <2>5 DEF RoundsForBlock
  <2> QED
    BY <2>4, <2>5
<1>5. CASE ApplyBlock
  <2>1. /\ pc = "saving" /\ Push(blk) /\ SetForged(blk)
    BY <1>5 DEF ApplyBlock
  <2>2. chain # <<>> /\ blk \in Blocks
    BY <2>1, ChainThere
    DEF Stage, Settled, IInv, BaseInv, TaskBlock, StoreTypeOK, Receiving
  <2>3. rounds # <<>> /\ Forges(CurrentRound, blk) /\ LastBlock.slot < blk.slot
    BY <1>a, <2>1 DEF TaskInv, Stage
  <2> QED
    BY <1>a, <2>1, <2>2, <2>3, RoundsPush
<1>6. CASE ApplyThrows
  <2>1. pc = "saving" /\ blk.generator \notin Active(CurrentRound)
    BY <1>6 DEF ApplyThrows
  <2> QED
    BY <1>a, <2>1 DEF TaskInv, Stage, Forges
<1>7. CASE Undo
  <2>1. pc = "undo"
    BY <1>7 DEF Undo, Pop
  <2>2. /\ chain # <<>> /\ LastBlock.height # 1
        /\ InRound(CurrentRound, LastBlock.slot)
    BY <1>a, <2>1, ChainThere
    DEF Stage, Settled, IInv, BaseInv, TaskBlock, TaskInv
  <2>3. Len(chain) > 1
    <3>1. Len(chain) # 1
      <4>1. Len(chain) = 1 => LastBlock = Genesis
        BY <2>2, InMemory DEF LastBlock
      <4>2. Genesis.height = 1
        BY NodeAssumption
      <4> QED
        BY <2>2, <4>1, <4>2
    <3>2. PICK n \in Nat \ {0} : n = Len(chain)
      BY <2>2, InMemory
    <3> QED
      BY <3>1, <3>2
  <2>4. CASE UNCHANGED <<chain, rounds>>
    BY <1>b, <2>4
  <2>5. CASE /\ chain' = Front(chain)
             /\ rounds' = [rounds EXCEPT ![Len(rounds)].forged =
                                           @ \ {LastBlock.generator}]
    BY <1>a, <2>2, <2>3, <2>5, RoundsPop
  <2> QED
    BY <1>7, <2>4, <2>5 DEF Undo, Pop
<1>8. CASE Crash
  <2>1. Len(<<>>) = 0
    OBVIOUS
  <2> QED
    BY <1>8, <2>1 DEF Crash, RoundsInv
<1>9. CASE WarmUp
  <2>1. pc = "warmUp" /\ Stage = "warmUp" /\ WarmingUp
    BY <1>9 DEF WarmUp, Stage, WarmingUp, BootPoints
  <2>2. PICK w \in Seq(Blocks), q \in Seq(RoundType) : Loads(w, q)
    BY <1>a, <2>1 DEF LoaderInv
  <2>3. PICK b \in NextRows :
          IF b.height = 1
          THEN Push(b) /\ UNCHANGED <<rounds, pc, blk>>
          ELSE /\ UNCHANGED <<chain, byHeight>>
               /\ rounds' = IF b.height = 2
                            THEN Append(rounds,
                                   NewRound(FirstSlotInRound(b.slot,
                                              ActiveCount(LastBlock)),
                                            LastBlock.id))
                            ELSE rounds
    BY <1>9 DEF WarmUp
  <2>4. b.height = Len(chain) + 1 /\ b = w[Len(chain) + 1]
    BY <2>2, NextLoaded
  <2>5. Len(chain) <= 1 => rounds = <<>>
    BY <2>1, <2>2 DEF Loads
  <2>6. b \in Blocks /\ b.slot \in Int /\ Len(chain) \in Nat /\ chain \in Seq(Blocks)
    <3>1. b \in Blocks
      BY DEF NextRows, RowsLeft, Settled, IInv, BaseInv, StoreTypeOK
    <3> QED
      BY <3>1, BlockFields, LenProperties DEF Settled, IInv, BaseInv, StoreTypeOK
  <2>7. CASE b.height = 1
    <3>1. chain' = Append(chain, b) /\ rounds' = rounds /\ Len(chain) = 0
      BY <2>3, <2>4, <2>6, <2>7 DEF Push
    <3>2. Len(Append(chain, b)) = Len(chain) + 1
      BY <2>6, AppendProperties
    <3>3. Len(chain') = 1 /\ rounds' = <<>>
      BY <2>5, <3>1, <3>2
    <3> QED
      BY <3>3 DEF RoundsInv
  <2>8. CASE b.height = 2
    <3>1. PICK n \in Nat : n = Len(chain)
      BY <2>6
    <3>2. Len(chain) = 1
      BY <2>4, <2>8, <3>1
    <3>3. rounds = <<>>
      BY <2>5, <3>2
    <3>4. Len(<<>>) = 0 /\ 0 # 1
      OBVIOUS
    <3>5. chain # <<>>
      BY <3>2, <3>4, Zenon
    <3>6. PICK r : r = NewRound(FirstSlotInRound(b.slot, ActiveCount(LastBlock)),
                                LastBlock.id)
      OBVIOUS
    <3>7. UNCHANGED chain /\ rounds' = Append(<<>>, r)
      BY <2>3, <2>8, <3>3, <3>6
    <3>8. rounds' = <<r>>
      BY <3>7
    <3> QED
      BY <1>a, <2>6, <3>3, <3>5, <3>6, <3>7, <3>8, RoundsBegin
  <2>9. CASE b.height # 1 /\ b.height # 2
    BY <1>b, <2>3, <2>9
  <2> QED
    BY <2>7, <2>8, <2>9
<1>10. CASE WarmPush
  <2>1. /\ pc = "warmPush" /\ Stage = "warmPush" /\ WarmingUp /\ Loading
        /\ Push(blk)
    BY <1>10 DEF WarmPush, Stage, WarmingUp, BootPoints, Loading
  <2>2. PICK w \in Seq(Blocks), q \in Seq(RoundType) : Loads(w, q)
    BY <1>a, <2>1 DEF LoaderInv
  <2>3. /\ chain # <<>> /\ rounds # <<>> /\ blk \in Blocks
        /\ LastBlock.slot < blk.slot
        /\ InRound(CurrentRound, blk.slot) => Forges(CurrentRound, blk)
    BY <1>a, <2>1, <2>2, LoadedBlock
  <2>4. InRound(CurrentRound, blk.slot)
    BY <2>1, <2>2 DEF Loads
  <2>5. SetForged(blk)
    BY <1>10, <2>3, <2>4 DEF WarmPush, Forges
  <2> QED
    BY <1>a, <2>1, <2>3, <2>4, <2>5, RoundsPush
<1>11. CASE WarmUpDone
  <2>1. pc = "warmUp" /\ Stage = "warmUp" /\ WarmingUp /\ UNCHANGED rounds
    BY <1>11 DEF WarmUpDone, Stage, WarmingUp, BootPoints, roundVars
  <2>2. PICK w \in Seq(Blocks), q \in Seq(RoundType) : Loads(w, q)
    BY <1>a, <2>1 DEF LoaderInv
  <2>3. CASE chain = <<>>
    <3>1. chain' = Append(<<>>, Genesis) /\ Len(chain) = 0
      BY <1>11, <2>3 DEF WarmUpDone, Push
    <3>2. Len(chain') = 1 /\ rounds = <<>>
      BY <2>1, <2>2, <3>1 DEF Loads
    <3> QED
      BY <2>1, <3>2 DEF RoundsInv
  <2>4. CASE chain # <<>>
    BY <1>11, <1>b, <2>1, <2>4 DEF WarmUpDone
  <2> QED
    BY <2>3, <2>4
<1>12. CASE \/ RefuseBlock \/ SkipForging \/ ForgeFails \/ ForgeThrows \/ Forge
            \/ StartSync
            \/ AcceptNext \/ AcceptReplacement \/ DeleteAnswered \/ AfterRollback
            \/ SendDelete \/ DbDelete \/ DbInsert \/ InsertFailed
            \/ RestoreReceived \/ WarmRestore \/ SyncWaitEnds \/ SyncBegins
            \/ SyncNotNeeded \/ SyncLoop \/ PeerAnswers \/ SaveRequestedBlock
            \/ RequestedBlocksEnd \/ SyncExit \/ SyncDone
  BY <1>12, <1>b
  DEF RefuseBlock, SkipForging, ForgeFails, ForgeThrows, Forge, StartSync,
      AcceptNext,
      AcceptReplacement, DeleteAnswered, AfterRollback, SendDelete, DbDelete,
      DbInsert, InsertFailed, RestoreReceived, WarmRestore, SyncWaitEnds,
      SyncBegins, SyncNotNeeded, SyncLoop, PeerAnswers, SaveRequestedBlock,
      RequestedBlocksEnd, SyncExit, SyncDone, roundVars, chainVars
<1>13. CASE \/ GenTimerFires \/ FinTimerFires \/ SyncTimerFires \/ BlockArrives
            \/ Tick \/ UNCHANGED vars
  BY <1>13, <1>b
  DEF GenTimerFires, FinTimerFires, SyncTimerFires, BlockArrives, Tick, vars,
      roundVars, chainVars
<1> QED
  BY <1>1, <1>2, <1>3, <1>4, <1>5, <1>6, <1>7, <1>8, <1>9, <1>10, <1>11,
     <1>12, <1>13, Zenon
  DEF Next, Handler, Database, Timers, Environment

-----------------------------------------------------------------------------
(* RowsInv.                                                                *)

\* deleteLastBlock finds the slot of the generator in the round it restored.
LEMMA UndoneForged ==
  ASSUME Settled, RoundsInv, TaskInv, pc = "undo"
  PROVE  /\ Len(chain) > 1 /\ LastBlock.generator \in Active(CurrentRound)
         /\ InRound(CurrentRound, LastBlock.slot)
<1>1. /\ chain # <<>> /\ LastBlock.height # 1
      /\ InRound(CurrentRound, LastBlock.slot)
  BY ChainThere DEF Stage, Settled, IInv, BaseInv, TaskBlock, TaskInv
<1>2. PICK n \in Nat \ {0} : n = Len(chain)
  BY <1>1, InMemory
<1>3. n # 1
  <2>1. n = 1 => LastBlock = Genesis
    BY <1>1, <1>2, InMemory DEF LastBlock
  <2>2. Genesis.height = 1
    BY NodeAssumption
  <2> QED
    BY <1>1, <2>1, <2>2
<1>4. n > 1 /\ n \in 2..n
  BY <1>2, <1>3
<1>5. rounds # <<>> /\ Fits(chain, rounds)
  BY <1>2, <1>4 DEF RoundsInv
<1>6. /\ chain \in Seq(Blocks) /\ rounds \in Seq(RoundType)
      /\ Last(chain) = chain[n] /\ Last(rounds) = rounds[Len(rounds)]
      /\ Len(rounds) \in Nat \ {0}
  BY <1>1, <1>2, <1>5, InMemory, RoundsTyped, EmptySeq
<1>7. Len(rounds) \in 1..Len(rounds)
  BY <1>6
<1>8. InRound(rounds[Len(rounds)], chain[n].slot)
  BY <1>1, <1>6 DEF LastBlock, CurrentRound
<1>9. Forges(rounds[Len(rounds)], chain[n])
  BY <1>2, <1>4, <1>5, <1>6, <1>7, <1>8, BlockInRounds
<1> QED
  BY <1>1, <1>2, <1>4, <1>6, <1>9 DEF Forges, LastBlock, CurrentRound

\* Unless its row is being deleted, the last block is stored.
LEMMA LastStored ==
  ASSUME Settled, RowsInv, chain # <<>>, ~Deleted
  PROVE  LastBlock \in db /\ LastBlock.height = Len(chain)
<1>1. Len(chain) \in 1..Len(chain) /\ LastBlock = chain[Len(chain)]
  BY InMemory DEF LastBlock
<1> QED
  BY <1>1 DEF RowsInv

\* A stored block on top.
LEMMA RowsPush ==
  ASSUME Settled, RowsInv, ~Deleted, NEW b \in Blocks, b \in db,
         b.height = Len(chain) + 1, Push(b), UNCHANGED db, pc' # "deleting"
  PROVE  RowsInv'
<1>1. PICK n \in Nat : n = Len(chain)
  BY LenProperties DEF Settled, IInv, BaseInv, StoreTypeOK
<1>2. /\ Len(chain') = n + 1 /\ \A i \in 1..n : chain'[i] = chain[i]
      /\ chain'[n + 1] = b
  BY <1>1, PushProperties DEF Settled, IInv, BaseInv
<1>3. \A i \in 1..n + 1 : i \in 1..n \/ i = n + 1
  BY <1>1
<1>4. \A i \in 1..n : chain[i].height = i /\ chain[i] \in db
  BY <1>1 DEF RowsInv
<1>5. \A i \in 1..n + 1 : chain'[i].height = i /\ chain'[i] \in db
  BY <1>1, <1>2, <1>3, <1>4
<1> QED
  BY <1>2, <1>5 DEF RowsInv

\* Blocks count up and are stored, whatever the node does.
LEMMA RowsNext ==
  ASSUME Settled, ObserverInv, [Next]_vars, [Raceless]_vars PROVE RowsInv'
<1>a. RoundsInv /\ RowsInv /\ TaskInv /\ LoaderInv
  BY DEF ObserverInv
<1>b. ASSUME UNCHANGED <<chain, db>>, Deleted => Deleted',
             pc' = "deleting" => stmt' \in {"sent", "done"}
      PROVE  RowsInv'
  BY <1>a, <1>b DEF RowsInv
<1>c. /\ pc \in Points /\ then \in Points /\ then # "restore"
      /\ pc = "restore" => then \notin AwaitPoints
      /\ pc = "deleting" => stmt \in {"sent", "done"}
  BY <1>a DEF Settled, IInv, BaseInv, StoreTypeOK, DispatchInv, Continues, RowsInv
<1> USE DEF Deleted, Stage, chainVars, queueVars, taskVars, AwaitPoints
<1>1. CASE RestoreStep
  BY <1>1, <1>b, <1>c DEF RestoreStep, LeaveRestore
<1>2. CASE RoundFinish \/ WarmUpFinished
  BY <1>2, <1>b, <1>c DEF RoundFinish, WarmUpFinished, RunCallback
<1>3. CASE RefuseBlock \/ SkipForging \/ ForgeFails \/ ForgeThrows
           \/ AcceptNext \/ Forge \/ StartSync
  BY <1>3, <1>b
  DEF RefuseBlock, SkipForging, ForgeFails, ForgeThrows, AcceptNext, Forge,
      StartSync,
      TaskBegins, FinishTask, NextTask, Await
<1>4. CASE AcceptReplacement \/ SyncBegins \/ AfterRollback \/ RestoreReceived
           \/ SyncExit \/ WarmRestore
  BY <1>4, <1>b
  DEF AcceptReplacement, SyncBegins, AfterRollback, RestoreReceived, SyncExit,
      WarmRestore, TaskBegins, Restore
<1>5. CASE SendDelete
  BY <1>5, <1>b DEF SendDelete, AfterFailedDelete, Await
<1>6. CASE DeleteAnswered
  BY <1>6, <1>b, <1>c DEF DeleteAnswered, Restore
<1>7. CASE DbDelete
  <2>1. pc = "deleting" /\ stmt = "sent" /\ ~Deleted /\ chain # <<>>
    <3>1. pc = "deleting" /\ stmt = "sent"
      BY <1>7 DEF DbDelete
    <3> QED
      BY <3>1, ChainThere
  <2>2. LastBlock \in db /\ LastBlock.height = Len(chain)
    BY <1>a, <2>1, LastStored
  <2>3. /\ db' = db \ {LastBlock} /\ stmt' = "done"
        /\ UNCHANGED <<chain, pc, then>>
    BY <1>7, <2>1, <2>2 DEF DbDelete, Raceless, DeleteLost, vars
  <2>4. ASSUME NEW i \in 1..Len(chain), i # Len(chain)
        PROVE  chain[i] \in db'
    <3>1. chain[i].height = i /\ chain[i] \in db
      BY <1>a, <2>1, <2>4 DEF RowsInv
    <3> QED
      BY <2>2, <2>3, <2>4, <3>1
  <2>5. Deleted'
    BY <2>1, <2>3
  <2> QED
    BY <1>a, <2>3, <2>4, <2>5 DEF RowsInv
<1>8. CASE Undo
  <2>1. /\ pc = "undo" /\ chain # <<>> /\ Len(chain) > 1
        /\ LastBlock.generator \in Active(CurrentRound)
    <3>1. pc = "undo"
      BY <1>8 DEF Undo, Pop
    <3> QED
      BY <1>a, <3>1, ChainThere, UndoneForged
  <2>2. chain' = Front(chain) /\ UNCHANGED db /\ pc' # "deleting"
    BY <1>8, <2>1 DEF Undo, Pop
  <2>3. PICK n \in Nat \ {0} : n = Len(chain)
    BY <2>1, InMemory
  <2>4. Len(chain') = n - 1 /\ \A i \in 1..n - 1 : chain'[i] = chain[i]
    BY <2>1, <2>2, <2>3, InMemory, FrontElements
  <2>5. \A i \in 1..n - 1 : chain[i].height = i /\ chain[i] \in db
    <3>1. \A i \in 1..n - 1 : i \in 1..n /\ i # n
      BY <2>3
    <3> QED
      BY <1>a, <2>3, <3>1 DEF RowsInv
  <2> QED
    BY <2>2, <2>4, <2>5 DEF RowsInv
<1>9. CASE ReceiveFails \/ InsertFailed
  BY <1>9, <1>b DEF ReceiveFails, InsertFailed, ProcessFailed, FinishTask, NextTask
<1>10. CASE ReceiveSaves
  BY <1>10, <1>b DEF ReceiveSaves, Await
<1>11. CASE DbInsert
  <2>1. db \subseteq db' /\ UNCHANGED <<chain, pc>> /\ pc = "saving"
    BY <1>11 DEF DbInsert
  <2>2. ~Deleted
    BY <2>1
  <2> QED
    BY <1>a, <2>1, <2>2 DEF RowsInv
<1>12. CASE ApplyBlock
  <2>1. /\ pc = "saving" /\ stmt = "done" /\ Push(blk) /\ UNCHANGED db
        /\ pc' # "deleting" /\ ~Deleted /\ chain # <<>>
    <3>1. /\ pc = "saving" /\ stmt = "done" /\ Push(blk) /\ UNCHANGED db
          /\ pc' # "deleting"
      BY <1>12 DEF ApplyBlock, FinishTask, NextTask
    <3> QED
      BY <3>1, ChainThere
  <2>2. blk \in db /\ blk \in Blocks /\ Follows(LastBlock, blk)
    BY <2>1
    DEF Settled, IInv, BaseInv, StoreTypeOK, TaskBlock, Receiving, LinearInv,
        StageInv, ReceivedFollows
  <2>3. LastBlock \in db /\ LastBlock.height = Len(chain)
    BY <1>a, <2>1, LastStored
  <2>4. blk.height = Len(chain) + 1
    BY <2>2, <2>3 DEF Follows, IsNext
  <2> QED
    BY <1>a, <2>1, <2>2, <2>4, RowsPush
<1>13. CASE ApplyThrows
  <2>1. pc = "saving" /\ blk.generator \notin Active(CurrentRound)
    BY <1>13 DEF ApplyThrows
  <2> QED
    BY <1>a, <2>1 DEF TaskInv, Forges
<1>14. CASE SyncWaitEnds \/ SyncNotNeeded \/ SyncLoop \/ PeerAnswers
            \/ SaveRequestedBlock \/ RequestedBlocksEnd \/ SyncDone
  BY <1>14, <1>b
  DEF SyncWaitEnds, SyncNotNeeded, SyncLoop, PeerAnswers, SaveRequestedBlock,
      RequestedBlocksEnd, SyncDone, FinishTask, NextTask
<1>15. CASE \/ GenTimerFires \/ FinTimerFires \/ SyncTimerFires \/ BlockArrives
            \/ Tick \/ UNCHANGED vars
  BY <1>15, <1>b, <1>c
  DEF GenTimerFires, FinTimerFires, SyncTimerFires, BlockArrives, Tick, vars
<1>16. CASE Crash
  <2>1. Len(<<>>) = 0
    OBVIOUS
  <2> QED
    BY <1>16, <2>1 DEF Crash, RowsInv
<1>17. CASE WarmUp
  <2>1. pc = "warmUp" /\ WarmingUp /\ ~Deleted
    BY <1>17 DEF WarmUp, WarmingUp, BootPoints
  <2>2. PICK w \in Seq(Blocks), q \in Seq(RoundType) : Loads(w, q)
    BY <1>a, <2>1 DEF LoaderInv
  <2>3. PICK b \in NextRows :
          \/ Push(b) /\ UNCHANGED pc
          \/ UNCHANGED chain /\ pc' = "warmRestore"
    BY <1>17 DEF WarmUp
  <2>4. b.height = Len(chain) + 1 /\ b \in db
    BY <2>2, NextLoaded
  <2>5. b \in Blocks /\ UNCHANGED db
    BY <1>17, <2>4 DEF WarmUp, Settled, IInv, BaseInv, StoreTypeOK
  <2> QED
    BY <1>a, <1>b, <2>1, <2>3, <2>4, <2>5, RowsPush
<1>18. CASE WarmPush
  <2>1. /\ pc = "warmPush" /\ WarmingUp /\ Loading /\ ~Deleted
        /\ Push(blk) /\ UNCHANGED db /\ pc' # "deleting"
    BY <1>18 DEF WarmPush, WarmingUp, BootPoints, Loading
  <2>2. PICK w \in Seq(Blocks), q \in Seq(RoundType) : Loads(w, q)
    BY <1>a, <2>1 DEF LoaderInv
  <2>3. blk \in NextRows /\ blk \in Blocks
    BY <2>1
    DEF Settled, IInv, LinearInv, StageInv, LoadedLowest, NextRows, RowsLeft,
        BaseInv, StoreTypeOK
  <2>4. blk.height = Len(chain) + 1 /\ blk \in db
    BY <2>2, <2>3, NextLoaded
  <2> QED
    BY <1>a, <2>1, <2>3, <2>4, RowsPush
<1>19. CASE WarmUpDone
  <2>1. pc = "warmUp" /\ pc' = "idle"
    BY <1>19 DEF WarmUpDone
  <2>2. CASE chain = <<>>
    <3>1. chain' = Append(<<>>, Genesis) /\ db' = {Genesis}
      BY <1>19, <2>2 DEF WarmUpDone, Push
    <3>2. Len(chain') = 1 /\ chain'[1] = Genesis
      BY <3>1
    <3>3. Genesis.height = 1
      BY NodeAssumption
    <3> QED
      BY <2>1, <3>1, <3>2, <3>3 DEF RowsInv
  <2>3. CASE chain # <<>>
    BY <1>19, <1>b, <2>1, <2>3 DEF WarmUpDone
  <2> QED
    BY <2>2, <2>3
<1> QED
  BY <1>1, <1>2, <1>3, <1>4, <1>5, <1>6, <1>7, <1>8, <1>9, <1>10, <1>11,
     <1>12, <1>13, <1>14, <1>15, <1>16, <1>17, <1>18, <1>19, Zenon
  DEF Next, Handler, Database, Timers, Environment

-----------------------------------------------------------------------------
(* TaskInv.                                                                *)

\* The genesis block is not deleted.
LEMMA DeletedAbove ==
  ASSUME Settled, RoundsInv, Stage \in {"deleting", "undo"}
  PROVE  Len(chain) > 1 /\ rounds # <<>>
<1>1. chain # <<>> /\ LastBlock.height # 1
  BY ChainThere DEF Settled, IInv, BaseInv, TaskBlock
<1>2. PICK n \in Nat \ {0} : n = Len(chain)
  BY <1>1, InMemory
<1>3. n # 1
  <2>1. n = 1 => LastBlock = Genesis
    BY <1>1, <1>2, InMemory DEF LastBlock
  <2>2. Genesis.height = 1
    BY NodeAssumption
  <2> QED
    BY <1>1, <2>1, <2>2
<1> QED
  BY <1>2, <1>3 DEF RoundsInv

\* What a task has verified stays true, whatever the node does.
LEMMA TaskNext ==
  ASSUME Settled, ObserverInv, [Next]_vars, [Raceless]_vars PROVE TaskInv'
<1>a. RoundsInv /\ TaskInv
  BY DEF ObserverInv
<1>b. ASSUME Stage' \notin {"saving", "undo"} PROVE TaskInv'
  BY <1>b DEF TaskInv
<1>c. ASSUME UNCHANGED <<chain, rounds, pc, blk, goal, then>> PROVE TaskInv'
  BY <1>a, <1>c DEF TaskInv, Stage, CurrentRound, LastBlock
<1>d. /\ pc \in Points /\ then # "restore"
      /\ pc = "restore" => then \notin AwaitPoints
  BY DEF Settled, IInv, BaseInv, StoreTypeOK, DispatchInv, Continues
<1> USE DEF Stage, AwaitPoints, queueVars, taskVars, chainVars, roundVars
<1>1. CASE RestoreStep
  <2>1. CASE then = "undo"
    <3>1. /\ pc = "restore" /\ goal = LastBlock.slot /\ UNCHANGED chain
          /\ \/ pc' = "undo" /\ InRound(CurrentRound, goal) /\ UNCHANGED rounds
             \/ /\ pc' = "undo" /\ InRound(CurrentRound, LastBlock.slot)
                /\ UNCHANGED rounds
             \/ UNCHANGED <<pc, then, goal>>
      BY <1>1, <1>a, <2>1 DEF RestoreStep, LeaveRestore, TaskInv
    <3> QED
      BY <2>1, <3>1 DEF TaskInv, CurrentRound, LastBlock
  <2>2. CASE then # "undo"
    <3>1. then # "saving" /\ pc = "restore" /\ then # "restore"
      BY <1>1, <1>d DEF RestoreStep
    <3>2. pc' = then \/ UNCHANGED <<pc, then>>
      BY <1>1 DEF RestoreStep, LeaveRestore
    <3> QED
      BY <1>b, <2>2, <3>1, <3>2
  <2> QED
    BY <2>1, <2>2
<1>2. CASE RoundFinish
  <2>1. /\ imm # <<>> /\ Head(imm) = "ROUND_FINISH" /\ pc \in AwaitPoints
        /\ UNCHANGED pc
    BY <1>2 DEF RoundFinish, RunCallback, AtAwait
  <2>2. pc # "saving"
    <3> SUFFICES ASSUME pc = "saving" PROVE FALSE
      OBVIOUS
    <3>1. rounds' # rounds
      <4>1. rounds \in Seq(RoundType) /\ Len(rounds) \in Nat
        BY RoundsTyped
      <4>2. \A r : Append(rounds, r) # rounds
        BY <4>1, AppendProperties
      <4> QED
        BY <1>2, <4>2 DEF RoundFinish, ForwardProcess
    <3> QED
      BY <2>1, <3>1 DEF Raceless, EarlyRoundEnd, vars
  <2> QED
    BY <1>b, <2>1, <2>2
<1>3. CASE WarmUpFinished
  <2>1. UNCHANGED <<chain, pc, blk, goal, then>> /\ pc \in AwaitPoints
    BY <1>3 DEF WarmUpFinished, RunCallback, AtAwait
  <2>2. CASE pc = "saving"
    <3>1. rounds # <<>>
      BY <1>a, <2>2 DEF TaskInv
    <3>2. UNCHANGED rounds
      BY <1>3, <3>1 DEF WarmUpFinished
    <3> QED
      BY <1>c, <2>1, <3>2
  <2>3. CASE pc # "saving"
    BY <1>b, <2>1, <2>3
  <2> QED
    BY <2>2, <2>3
<1>4. CASE RefuseBlock \/ SkipForging \/ ForgeFails \/ ForgeThrows
           \/ AcceptNext \/ StartSync
  BY <1>4, <1>b
  DEF RefuseBlock, SkipForging, ForgeFails, ForgeThrows, AcceptNext, StartSync,
      TaskBegins,
      FinishTask, NextTask, Await
<1>5. CASE AcceptReplacement \/ SyncBegins \/ AfterRollback \/ RestoreReceived
           \/ SyncExit \/ WarmRestore
  BY <1>5, <1>b
  DEF AcceptReplacement, SyncBegins, AfterRollback, RestoreReceived, SyncExit,
      WarmRestore, TaskBegins, Restore
<1>6. CASE Forge
  <2>1. /\ pc = "idle" /\ pc' = "saving" /\ blk' \in Blocks
        /\ UNCHANGED <<chain, rounds>>
    BY <1>6 DEF Forge, Forgeable, TaskBegins, Await
  <2>2. ~LateForge
    BY <2>1 DEF Raceless, vars
  <2>3. rounds # <<>> /\ Forges(CurrentRound, blk') /\ ~(blk'.slot <= LastBlock.slot)
    BY <2>1, <2>2 DEF LateForge, Forges
  <2>4. LastBlock.slot < blk'.slot
    <3>1. chain # <<>>
      BY <2>1, ChainThere
    <3>2. blk'.slot \in Nat /\ LastBlock.slot \in Nat
      BY <2>1, <3>1, InMemory, BlockFields DEF LastBlock
    <3> QED
      BY <2>3, <3>2
  <2> QED
    BY <2>1, <2>3, <2>4 DEF TaskInv, CurrentRound, LastBlock
<1>7. CASE SendDelete
  BY <1>7, <1>b DEF SendDelete, AfterFailedDelete, Await
<1>8. CASE DbDelete \/ DbInsert
  BY <1>8, <1>c DEF DbDelete, DbInsert
<1>9. CASE DeleteAnswered
  <2>1. CASE stmt = "failed"
    BY <1>9, <1>b, <2>1 DEF DeleteAnswered, AfterFailedDelete
  <2>2. CASE stmt # "failed"
    <3>1. rounds # <<>>
      BY <1>9, <1>a, DeletedAbove DEF DeleteAnswered
    <3>2. /\ UNCHANGED <<chain, rounds>>
          /\ \/ InRound(CurrentRound, LastBlock.slot) /\ pc' = "undo"
             \/ pc' = "restore" /\ then' = "undo" /\ goal' = LastBlock.slot
      BY <1>9, <2>2, <3>1 DEF DeleteAnswered, Restore
    <3> QED
      BY <3>2 DEF TaskInv, CurrentRound, LastBlock
  <2> QED
    BY <2>1, <2>2
<1>10. CASE Undo
  BY <1>10, <1>b DEF Undo, Pop, AbortTask, FinishTask, NextTask
<1>11. CASE ReceiveFails \/ InsertFailed
  BY <1>11, <1>b DEF ReceiveFails, InsertFailed, ProcessFailed, FinishTask, NextTask
<1>12. CASE ReceiveSaves
  <2>1. /\ pc' = "saving" /\ UNCHANGED <<chain, blk>> /\ rounds' = RoundsForBlock
        /\ VerifyBlock(blk, Last(rounds'))
    BY <1>12 DEF ReceiveSaves, Await
  <2>2. rounds' # <<>>
    <3>1. \A x : <<x>> # <<>>
      OBVIOUS
    <3> QED
      BY <2>1, <3>1 DEF RoundsForBlock
  <2>3. Forges(Last(rounds'), blk) /\ LastBlock.slot < blk.slot
    <3>1. blk \in Blocks /\ chain # <<>>
      BY <1>12, ChainThere
      DEF ReceiveSaves, Settled, IInv, BaseInv, StoreTypeOK, TaskBlock, Receiving
    <3>2. blk.slot \in Nat /\ LastBlock.slot \in Nat
      BY <3>1, InMemory, BlockFields DEF LastBlock
    <3> QED
      BY <2>1, <3>2 DEF VerifyBlock, Forges
  <2> QED
    BY <2>1, <2>2, <2>3 DEF TaskInv, CurrentRound, LastBlock
<1>13. CASE ApplyBlock \/ ApplyThrows
  BY <1>13, <1>b DEF ApplyBlock, ApplyThrows, AbortTask, FinishTask, NextTask
<1>14. CASE SyncWaitEnds \/ SyncNotNeeded \/ SyncLoop \/ PeerAnswers
            \/ SaveRequestedBlock \/ RequestedBlocksEnd \/ SyncDone
  BY <1>14, <1>b
  DEF SyncWaitEnds, SyncNotNeeded, SyncLoop, PeerAnswers, SaveRequestedBlock,
      RequestedBlocksEnd, SyncDone, FinishTask, NextTask
<1>15. CASE \/ GenTimerFires \/ FinTimerFires \/ SyncTimerFires \/ BlockArrives
            \/ Tick \/ UNCHANGED vars
  BY <1>15, <1>c
  DEF GenTimerFires, FinTimerFires, SyncTimerFires, BlockArrives, Tick, vars
<1>16. CASE Crash
  BY <1>16, <1>b DEF Crash
<1>17. CASE WarmUp \/ WarmPush \/ WarmUpDone
  BY <1>17, <1>b, <1>d DEF WarmUp, WarmPush, WarmUpDone
<1> QED
  BY <1>1, <1>2, <1>3, <1>4, <1>5, <1>6, <1>7, <1>8, <1>9, <1>10, <1>11,
     <1>12, <1>13, <1>14, <1>15, <1>16, <1>17, Zenon
  DEF Next, Handler, Database, Timers, Environment

-----------------------------------------------------------------------------
(* LoaderInv.                                                              *)

\* At every await the stored blocks are a chain that fits into rounds.
LEMMA StoredFits ==
  ASSUME Settled, ObserverInv, AtAwait
  PROVE  \E w \in Seq(Blocks), q \in Seq(RoundType) : Stores(w, q)
<1>a. RoundsInv /\ RowsInv /\ TaskInv
  BY DEF ObserverInv
<1>1. Stage = pc /\ pc \in AwaitPoints
  BY DEF AtAwait, Stage, AwaitPoints
<1>2. /\ chain # <<>>
      /\ \A b \in db : \/ \E i \in 1..Len(chain) : b = chain[i]
                       \/ b = blk /\ pc = "saving" /\ stmt = "done"
  BY <1>1, ChainThere
  DEF AwaitPoints, Settled, IInv, LinearInv, StageInv, RowsInMemory, WarmingUp,
      BootPoints
<1>3. PICK n \in Nat \ {0} : n = Len(chain)
  BY <1>2, InMemory
<1>4. chain \in Seq(Blocks) /\ rounds \in Seq(RoundType) /\ n \in 1..n
  BY <1>2, <1>3, InMemory, RoundsTyped
<1>5. /\ \A i \in 1..n : chain[i].height = i
      /\ ~Deleted => \A i \in 1..n : chain[i] \in db
      /\ 2 <= n => rounds # <<>>
      /\ rounds # <<>> => Fits(chain, rounds)
  BY <1>a, <1>3 DEF RowsInv, RoundsInv
<1>6. CASE pc = "saving" /\ stmt = "done"
  <2>1. ~Deleted
    BY <1>1, <1>6 DEF Deleted
  <2>2. blk \in Blocks /\ blk \in db /\ Follows(LastBlock, blk)
    BY <1>1, <1>6
    DEF Settled, IInv, BaseInv, StoreTypeOK, TaskBlock, Receiving, LinearInv,
        StageInv, ReceivedFollows
  <2>3. blk.height = n + 1
    <3>1. LastBlock \in db /\ LastBlock.height = n
      BY <1>a, <1>2, <1>3, <2>1, LastStored
    <3> QED
      BY <2>2, <3>1 DEF Follows, IsNext
  <2>4. PICK w : w = Append(chain, blk)
    OBVIOUS
  <2>5. /\ w \in Seq(Blocks) /\ Len(w) = n + 1 /\ w[n + 1] = blk
        /\ \A i \in 1..n : w[i] = chain[i]
    BY <1>3, <1>4, <2>2, <2>4, AppendProperties
  <2>6. \A i \in 1..n + 1 : i \in 1..n \/ i = n + 1
    OBVIOUS
  <2>7. \A i \in 1..n + 1 : w[i].height = i /\ w[i] \in db
    BY <1>5, <2>1, <2>2, <2>3, <2>5, <2>6
  <2>8. \A b \in db : \E i \in 1..n + 1 : b = w[i]
    <3>1. n + 1 \in 1..n + 1 /\ \A i \in 1..n : i \in 1..n + 1
      OBVIOUS
    <3> QED
      BY <1>2, <1>3, <2>5, <3>1
  <2>9. Fits(w, rounds)
    <3>1. /\ rounds # <<>> /\ Forges(CurrentRound, blk)
          /\ LastBlock.slot < blk.slot
      BY <1>a, <1>1, <1>6 DEF TaskInv
    <3>2. Forges(rounds[Len(rounds)], blk) /\ chain[Len(chain)].slot < blk.slot
      BY <1>2, <3>1, InMemory, RoundsTyped DEF CurrentRound, LastBlock
    <3>3. Fits(chain, rounds)
      BY <1>5, <3>1
    <3> QED
      BY <1>2, <1>4, <2>2, <2>4, <3>1, <3>2, <3>3, PushFits
  <2>10. Stores(w, rounds)
    BY <2>5, <2>7, <2>8, <2>9 DEF Stores
  <2> QED
    BY <1>4, <2>5, <2>10
<1>7. CASE Deleted
  <2>1. pc = "deleting" /\ stmt = "done" /\ Stage = "deleting"
    BY <1>1, <1>7 DEF Deleted, AwaitPoints
  <2>2. n > 1 /\ rounds # <<>>
    BY <1>a, <1>3, <2>1, DeletedAbove
  <2>3. chain[n] \notin db
    BY <1>2, <1>3, <2>1, InMemory
    DEF Settled, IInv, LinearInv, StageInv, LastRowGone, LastBlock
  <2>4. PICK w : w = Front(chain)
    OBVIOUS
  <2>5. w \in Seq(Blocks) /\ Len(w) = n - 1 /\ \A i \in 1..n - 1 : w[i] = chain[i]
    BY <1>2, <1>3, <1>4, <2>4, FrontElements
  <2>6. \A i \in 1..n - 1 : i \in 1..n /\ i # n
    OBVIOUS
  <2>7. \A i \in 1..n - 1 : w[i].height = i /\ w[i] \in db
    BY <1>a, <1>3, <1>5, <2>5, <2>6 DEF RowsInv
  <2>8. \A b \in db : \E i \in 1..n - 1 : b = w[i]
    <3> TAKE b \in db
    <3>1. PICK i \in 1..n : b = chain[i]
      BY <1>2, <1>3, <2>1
    <3>2. i # n
      BY <2>3, <3>1
    <3>3. i \in 1..n - 1
      BY <3>2
    <3> QED
      BY <2>5, <3>1, <3>3
  <2>9. PICK q \in Seq(RoundType) : Fits(w, q)
    <3>1. Fits(chain, rounds) /\ Len(chain) > 1
      BY <1>3, <1>5, <2>2
    <3> QED
      BY <1>4, <2>2, <2>4, <3>1, ShorterFits
  <2>10. Stores(w, q)
    BY <2>5, <2>7, <2>8, <2>9 DEF Stores
  <2> QED
    BY <2>5, <2>9, <2>10
<1>8. CASE ~(pc = "saving" /\ stmt = "done") /\ ~Deleted
  <2>1. Stores(chain, rounds)
    BY <1>2, <1>3, <1>5, <1>8 DEF Stores
  <2> QED
    BY <1>4, <2>1
<1> QED
  BY <1>6, <1>7, <1>8

\* The loader takes the next row.
LEMMA LoaderTakes ==
  ASSUME Settled, ObserverInv, WarmUp PROVE LoaderInv'
<1>a. RoundsInv
  BY DEF ObserverInv
<1>1. pc = "warmUp" /\ Stage = "warmUp" /\ WarmingUp
  BY DEF WarmUp, Stage, WarmingUp, BootPoints
<1>2. PICK w \in Seq(Blocks), q \in Seq(RoundType) : Loads(w, q)
  BY <1>1 DEF ObserverInv, LoaderInv
<1>3. PICK b \in NextRows :
        IF b.height = 1
        THEN Push(b) /\ UNCHANGED <<rounds, pc, blk>>
        ELSE /\ blk' = b
             /\ pc' = "warmRestore"
             /\ rounds' = IF b.height = 2
                          THEN Append(rounds,
                                 NewRound(FirstSlotInRound(b.slot,
                                            ActiveCount(LastBlock)),
                                          LastBlock.id))
                          ELSE rounds
             /\ UNCHANGED <<chain, byHeight>>
  BY DEF WarmUp
<1>4. UNCHANGED db
  BY DEF WarmUp
<1>5. PICK n \in Nat, o \in Nat : n = Len(chain) /\ o = Len(w)
  BY LenProperties DEF Settled, IInv, BaseInv, StoreTypeOK
<1>6. n + 1 \in 1..o /\ b = w[n + 1] /\ b.height = n + 1 /\ b \in Blocks
  <2>1. n + 1 \in 1..o /\ b = w[n + 1] /\ b.height = n + 1
    BY <1>2, <1>5, NextLoaded
  <2> QED
    BY <1>5, <2>1, ElementOfSeq
<1>7. /\ Stores(w, q) /\ \A i \in 1..n : chain[i] = w[i]
      /\ rounds # <<>> => \E k \in 1..Len(q) : Same(CurrentRound, q[k])
      /\ IF n <= 1 THEN rounds = <<>> ELSE InRound(CurrentRound, LastBlock.slot)
  BY <1>1, <1>2, <1>5 DEF Loads
<1>8. Stores(w, q)'
  BY <1>4, <1>7 DEF Stores
<1>9. CASE n = 0
  <2>1. Push(b) /\ UNCHANGED <<rounds, pc, blk>> /\ rounds = <<>>
    BY <1>3, <1>6, <1>7, <1>9
  <2>2. Len(chain') = 1 /\ chain'[1] = b
    BY <1>5, <1>6, <1>9, <2>1, PushProperties DEF Settled, IInv, BaseInv
  <2>3. Stage' = "warmUp" /\ ~Loading' /\ pc' = "warmUp"
    BY <1>1, <2>1 DEF Stage, Loading
  <2>4. Len(chain') <= Len(w) /\ \A i \in 1..Len(chain') : chain'[i] = w[i]
    BY <1>5, <1>6, <1>9, <2>2
  <2>5. Loads(w, q)'
    BY <1>8, <2>1, <2>2, <2>3, <2>4 DEF Loads
  <2> QED
    BY <1>2, <2>5 DEF LoaderInv
<1>10. CASE n # 0
  <2>1. /\ blk' = b /\ pc' = "warmRestore" /\ UNCHANGED chain
        /\ rounds' = IF n = 1
                     THEN Append(rounds,
                            NewRound(FirstSlotInRound(b.slot,
                                       ActiveCount(LastBlock)),
                                     LastBlock.id))
                     ELSE rounds
    BY <1>3, <1>6, <1>10
  <2>2. chain # <<>> /\ LastBlock = w[n] /\ n \in 1..n /\ n \in 1..o
    <3>1. chain # <<>>
      BY <1>5, <1>10, EmptySeq
    <3> QED
      BY <1>5, <1>6, <1>7, <1>10, <3>1, InMemory DEF LastBlock
  <2>3. Stage' = "warmRestore" /\ Loading'
    BY <2>1 DEF Stage, Loading
  <2>4. b.slot \in Nat /\ w[n].slot \in Nat
    BY <1>5, <1>6, <2>2, BlockFields, ElementOfSeq
  <2>5. 2 <= o /\ Fits(w, q)
    BY <1>5, <1>6, <1>7, <1>10 DEF Stores
  <2>6. /\ rounds' # <<>> /\ \E k \in 1..Len(q) : Same(CurrentRound', q[k])
        /\ CurrentRound'.first <= b.slot
        /\ 2 <= n => LastBlock.slot <= LastSlot(CurrentRound')
    <3>1. CASE n = 1
      <4>1. PICK r : r = NewRound(FirstSlotInRound(w[2].slot, ActiveCount(w[1])), w[1].id)
        OBVIOUS
      <4>2. rounds = <<>> /\ rounds' = Append(rounds, r) /\ b = w[2]
        BY <1>6, <1>7, <2>1, <2>2, <3>1, <4>1
      <4>3. Len(rounds') = 1 /\ rounds'[1] = r /\ rounds' # <<>>
        BY <4>2
      <4>4. CurrentRound' = r
        BY <4>3 DEF CurrentRound, Last
      <4>5. PICK k \in 1..Len(q) : Same(r, q[k])
        BY <1>5, <2>5, <4>1, LoadFirst
      <4>6. r.first <= b.slot
        <5>1. PICK m \in Nat \ {0} : m = ActiveCount(w[1])
          <6>1. w[1].id \in BlockIds
            BY <1>5, <2>2, <3>1, BlockFields, ElementOfSeq
          <6> QED
            BY <6>1, ScheduleAssumption, EmptySeq DEF ActiveCount
        <5>2. FirstSlotInRound(b.slot, m) <= b.slot
          BY <2>4, FirstSlots
        <5> QED
          BY <4>1, <4>2, <5>1, <5>2 DEF NewRound
      <4> QED
        BY <3>1, <4>3, <4>4, <4>5, <4>6
    <3>2. CASE n # 1
      <4>1. /\ rounds' = rounds /\ rounds # <<>>
            /\ InRound(CurrentRound, LastBlock.slot)
        BY <1>a, <1>5, <1>7, <1>10, <2>1, <3>2 DEF RoundsInv
      <4>2. PICK r : r = CurrentRound /\ r = CurrentRound'
        BY <4>1 DEF CurrentRound
      <4>3. PICK k \in 1..Len(q) : Same(r, q[k])
        BY <1>7, <4>1, <4>2
      <4>4. r.first \in Int
        <5>1. Proper(q[k])
          BY <2>5, FitsTypes
        <5> QED
          BY <4>3, <5>1 DEF Proper, Same
      <4>5. w[n].slot < b.slot
        <5>1. n + 1 \in 1..o /\ n < n + 1
          BY <1>6
        <5> QED
          BY <1>5, <1>6, <2>2, <2>5, <5>1 DEF Fits, Rising
      <4>6. r.first <= b.slot
        <5>1. r.first <= w[n].slot
          BY <2>2, <4>1, <4>2 DEF InRound
        <5> QED
          BY <2>4, <4>4, <4>5, <5>1
      <4>7. LastBlock.slot <= LastSlot(r)
        BY <4>1, <4>2 DEF InRound
      <4> QED
        BY <4>1, <4>2, <4>3, <4>6, <4>7
    <3> QED
      BY <3>1, <3>2
  <2>7. n < o /\ LastBlock' = LastBlock
    BY <1>6, <2>1 DEF LastBlock
  <2>8. Loads(w, q)'
    BY <1>5, <1>6, <1>7, <1>8, <2>1, <2>3, <2>6, <2>7 DEF Loads
  <2> QED
    BY <1>2, <2>8 DEF LoaderInv
<1> QED
  BY <1>9, <1>10

\* One evaluation of the loop of restoreToSlot for the block that is loaded.
LEMMA LoaderRestores ==
  ASSUME Settled, ObserverInv, WarmingUp, RestoreStep PROVE LoaderInv'
<1>1. PICK w \in Seq(Blocks), q \in Seq(RoundType) : Loads(w, q)
  BY DEF ObserverInv, LoaderInv
<1>2. /\ pc = "restore" /\ then = "warmPush" /\ goal = blk.slot
      /\ Stage = "warmPush" /\ Loading
  BY <1>1 DEF RestoreStep, Loads, Stage, Loading
<1>3. UNCHANGED <<chain, db, blk>>
  BY DEF RestoreStep, chainVars
<1>4. PICK n \in Nat \ {0}, o \in Nat : n = Len(chain) /\ o = Len(w)
  <2>1. chain # <<>>
    BY <1>2, ChainThere
  <2> QED
    BY <2>1, InMemory, LenProperties
<1>5. /\ n + 1 \in 2..o /\ blk = w[n + 1] /\ Fits(w, q) /\ LastBlock = w[n]
      /\ rounds # <<>> /\ chain # <<>>
  BY <1>1, <1>2, <1>4, LoadedBlock DEF ObserverInv
<1>6. PICK k \in 1..Len(q) : Same(CurrentRound, q[k])
  BY <1>1, <1>5 DEF Loads
<1>7. PICK l \in Int : l = LastSlot(q[k]) /\ l = LastSlot(CurrentRound)
  <2>1. LastSlot(q[k]) \in Int
    BY <1>5, FitsTypes DEF Proper
  <2> QED
    BY <1>6, <2>1, SameRound
<1>8. /\ Stores(w, q) /\ n < o /\ \A i \in 1..n : chain[i] = w[i]
      /\ CurrentRound.first <= blk.slot
      /\ 2 <= n => LastBlock.slot <= l
  BY <1>1, <1>2, <1>4, <1>7 DEF Loads
<1>9. Stores(w, q)' /\ LastBlock' = LastBlock
  BY <1>3, <1>8 DEF Stores, LastBlock
<1>10. \A i \in 1..o : w[i].slot \in Nat
  BY <1>4, <1>5, FitsTypes
<1>11. CurrentRound.first \in Int
  BY <1>5, <1>6, FitsTypes DEF Proper, Same
<1>12. CASE InRound(CurrentRound, goal)
  <2>1. ~(goal > LastSlot(CurrentRound)) /\ ~(goal < CurrentRound.first)
    <3>1. goal \in Nat
      BY <1>2, <1>5, <1>10
    <3> QED
      BY <1>7, <1>11, <1>12, <3>1 DEF InRound
  <2>2. pc' = "warmPush" /\ UNCHANGED rounds
    BY <1>2, <2>1 DEF RestoreStep, LeaveRestore, roundVars
  <2>3. CurrentRound' = CurrentRound /\ Stage' = "warmPush" /\ Loading'
    BY <2>2 DEF CurrentRound, Stage, Loading
  <2>4. InRound(CurrentRound, blk.slot)
    BY <1>2, <1>12
  <2>5. Loads(w, q)'
    BY <1>3, <1>4, <1>5, <1>6, <1>7, <1>8, <1>9, <2>2, <2>3, <2>4 DEF Loads
  <2> QED
    BY <1>1, <2>5 DEF LoaderInv
<1>13. CASE ~InRound(CurrentRound, goal)
  <2>1. blk.slot \in Nat
    BY <1>5, <1>10
  <2>2. l < blk.slot
    BY <1>2, <1>7, <1>8, <1>11, <1>13, <2>1 DEF InRound
  <2>3. ~(goal < CurrentRound.first)
    BY <1>2, <1>8, <1>11, <2>1
  <2>4. /\ ForwardProcess /\ UNCHANGED <<pc, goal, then>>
    BY <1>13, <2>3 DEF RestoreStep
  <2>5. PICK r : r = NewRound(l + 1, w[n].id)
    OBVIOUS
  <2>6. (\E m \in 1..Len(q) : Same(r, q[m])) /\ r.first <= w[n + 1].slot
    <3>1. /\ n \in 1..Len(w) /\ n + 1 <= Len(w)
          /\ n > 1 => w[n].slot <= l
          /\ l < w[n + 1].slot
      BY <1>4, <1>5, <1>8, <2>2
    <3> QED
      BY <1>5, <1>7, <2>5, <3>1, LoadNext
  <2>7. CurrentRound' = r /\ rounds' # <<>>
    <3>1. rounds' = Append(rounds, r)
      BY <1>5, <1>7, <2>4, <2>5 DEF ForwardProcess
    <3>2. rounds \in Seq(RoundType) /\ r \in RoundType
      <4>1. w[n].id \in BlockIds
        <5>1. n \in 1..Len(w)
          BY <1>4, <1>8
        <5> QED
          BY <1>5, <5>1, FitsTypes
      <4>2. PICK m \in 1..Len(q) : Same(r, q[m])
        BY <2>6
      <4>3. q[m] \in RoundType
        BY <1>5, FitsTypes
      <4>4. l + 1 \in Int /\ Schedule[w[n].id] \in Seq(Delegates)
        BY <4>1, ScheduleAssumption
      <4> QED
        BY <2>5, <4>4, RoundsTyped DEF NewRound, RoundType
    <3> QED
      BY <3>1, <3>2, AppendProperties DEF CurrentRound, Last
  <2>8. PICK m \in 1..Len(q) : Same(r, q[m])
    BY <2>6
  <2>9. 2 <= n => LastBlock.slot <= LastSlot(r)
    <3>1. /\ LastSlot(r) = LastSlot(q[m]) /\ LastSlot(q[m]) \in Int
          /\ q[m].first <= LastSlot(q[m]) /\ r.first = q[m].first
      BY <1>5, <2>8, FitsTypes, SameRound DEF Proper, Same
    <3>2. r.first = l + 1
      BY <2>5 DEF NewRound
    <3>3. LastBlock.slot \in Nat
      <4>1. n \in 1..o
        BY <1>4, <1>8
      <4> QED
        BY <1>5, <1>10, <4>1
    <3> QED
      BY <1>8, <3>1, <3>2, <3>3
  <2>10. /\ pc' = "restore" /\ then' = "warmPush" /\ goal' = blk'.slot
         /\ Stage' = "warmPush" /\ Loading'
    BY <1>2, <1>3, <2>4 DEF Stage, Loading
  <2>11. Loads(w, q)'
    BY <1>3, <1>4, <1>5, <1>8, <1>9, <2>6, <2>7, <2>9, <2>10 DEF Loads
  <2> QED
    BY <1>1, <2>11 DEF LoaderInv
<1> QED
  BY <1>12, <1>13

\* The loader looks for the round of the block.
LEMMA LoaderSeeks ==
  ASSUME Settled, ObserverInv, WarmRestore PROVE LoaderInv'
<1>1. pc = "warmRestore" /\ WarmingUp /\ Loading
  BY DEF WarmRestore, Stage, WarmingUp, Loading, BootPoints
<1>2. PICK w \in Seq(Blocks), q \in Seq(RoundType) : Loads(w, q)
  BY <1>1 DEF ObserverInv, LoaderInv
<1>3. rounds # <<>>
  BY <1>1, <1>2 DEF Loads
<1>4. /\ UNCHANGED <<chain, db, blk, rounds>>
      /\ \/ InRound(CurrentRound, blk.slot) /\ pc' = "warmPush"
         \/ pc' = "restore" /\ then' = "warmPush" /\ goal' = blk.slot
  BY <1>3 DEF WarmRestore, Restore, chainVars, roundVars
<1>5. Stage' = "warmPush" /\ Loading' /\ pc' \in {"warmPush", "restore"}
  BY <1>4 DEF Stage, Loading
<1>6. CurrentRound' = CurrentRound /\ LastBlock' = LastBlock
  BY <1>4 DEF CurrentRound, LastBlock
<1>7. Stores(w, q)'
  BY <1>2, <1>4 DEF Loads, Stores
<1>8. Loads(w, q)'
  BY <1>1, <1>2, <1>4, <1>5, <1>6, <1>7 DEF Loads
<1> QED
  BY <1>2, <1>8 DEF LoaderInv

\* The loader finds the slot of the generator.
LEMMA LoaderPushes ==
  ASSUME Settled, ObserverInv, WarmPush PROVE LoaderInv' /\ pc' = "warmUp"
<1>1. pc = "warmPush" /\ WarmingUp /\ Loading
  BY DEF WarmPush, Stage, WarmingUp, Loading, BootPoints
<1>2. PICK w \in Seq(Blocks), q \in Seq(RoundType) : Loads(w, q)
  BY <1>1 DEF ObserverInv, LoaderInv
<1>3. PICK n \in Nat \ {0}, o \in Nat : n = Len(chain) /\ o = Len(w)
  <2>1. chain # <<>>
    BY <1>1, ChainThere DEF Loading
  <2> QED
    BY <2>1, InMemory, LenProperties
<1>4. /\ chain # <<>> /\ n + 1 \in 2..o /\ blk \in Blocks /\ blk = w[n + 1]
      /\ Fits(w, q) /\ rounds # <<>>
      /\ InRound(CurrentRound, blk.slot) => Forges(CurrentRound, blk)
  BY <1>1, <1>2, <1>3, LoadedBlock DEF ObserverInv
<1>5. InRound(CurrentRound, blk.slot) /\ \A i \in 1..n : chain[i] = w[i]
  BY <1>1, <1>2, <1>3 DEF Loads
<1>6. blk.generator \in Active(CurrentRound)
  BY <1>4, <1>5 DEF Forges
<1>7. Push(blk) /\ SetForged(blk) /\ pc' = "warmUp" /\ UNCHANGED db
  BY <1>6 DEF WarmPush
<1>8. PICK k \in 1..Len(q) : Same(CurrentRound, q[k])
  BY <1>2, <1>4 DEF Loads
<1>9. rounds' # <<>> /\ Same(CurrentRound, CurrentRound')
  <2>1. PICK m \in Nat \ {0} : m = Len(rounds)
    BY <1>4, RoundsTyped, EmptySeq
  <2>2. PICK f : f = CurrentRound.forged \cup {blk.generator}
    OBVIOUS
  <2>3. rounds' = [rounds EXCEPT ![Len(rounds)].forged = f]
    BY <1>7, <2>2, RoundsTyped DEF SetForged, CurrentRound
  <2>4. f \in SUBSET Delegates
    <3>1. m \in 1..Len(rounds)
      BY <2>1
    <3>2. CurrentRound \in RoundType
      BY <1>4, <2>1, <3>1, RoundsTyped, ElementOfSeq DEF CurrentRound
    <3>3. blk.generator \in Delegates
      BY <1>4, BlockFields
    <3> QED
      BY <2>2, <3>2, <3>3 DEF RoundType
  <2>5. Marked(rounds, f, rounds')
    <3>1. Fits(chain, rounds)
      BY <1>4 DEF ObserverInv, RoundsInv
    <3>2. PICK p : p = rounds'
      OBVIOUS
    <3>3. Marked(rounds, f, p)
      BY <1>4, <2>3, <2>4, <3>1, <3>2, InMemory, RoundsTyped, MarkedFits
    <3> QED
      BY <3>2, <3>3
  <2>6. /\ Len(rounds') = m /\ m \in 1..m /\ rounds' # <<>>
        /\ Same(rounds[m], rounds'[m])
    BY <2>1, <2>5 DEF Marked
  <2> QED
    BY <2>1, <2>6, RoundsTyped DEF CurrentRound, Last
<1>10. Same(CurrentRound', q[k]) /\ InRound(CurrentRound', blk.slot)
  <2>1. Same(CurrentRound', q[k])
    BY <1>8, <1>9 DEF Same
  <2> QED
    BY <1>5, <1>9, <2>1, SameRound
<1>11. /\ Len(chain') = n + 1 /\ \A i \in 1..n : chain'[i] = chain[i]
       /\ chain'[n + 1] = blk
  BY <1>3, <1>4, <1>7, PushProperties DEF Settled, IInv, BaseInv
<1>12. n + 1 <= o /\ \A i \in 1..n + 1 : chain'[i] = w[i]
  <2>1. \A i \in 1..n + 1 : i \in 1..n \/ i = n + 1
    OBVIOUS
  <2>2. n + 1 <= o
    BY <1>4
  <2> QED
    BY <1>4, <1>5, <1>11, <2>1, <2>2
<1>13. LastBlock' = blk
  BY <1>11 DEF LastBlock, Last
<1>14. Stage' = "warmUp" /\ ~Loading'
  BY <1>7 DEF Stage, Loading
<1>15. Stores(w, q)'
  BY <1>2, <1>7 DEF Loads, Stores
<1>16. Loads(w, q)'
  <2>1. ~(n + 1 <= 1)
    OBVIOUS
  <2> QED
    BY <1>3, <1>7, <1>9, <1>10, <1>11, <1>12, <1>13, <1>14, <1>15, <2>1 DEF Loads
<1> QED
  BY <1>2, <1>7, <1>16 DEF LoaderInv

\* What is stored can be loaded, whatever the node does.
LEMMA LoaderNext ==
  ASSUME Settled, ObserverInv, [Next]_vars PROVE LoaderInv' /\ pc' # "dead"
<1>a. ASSUME ~WarmingUp', pc' # "dead" PROVE LoaderInv' /\ pc' # "dead"
  BY <1>a DEF LoaderInv
<1>b. ASSUME AtAwait, UNCHANGED pc PROVE LoaderInv' /\ pc' # "dead"
  BY <1>a, <1>b DEF AtAwait, AwaitPoints, WarmingUp, Stage, BootPoints
<1>c. /\ pc = "restore" => then \notin AwaitPoints \cup {"dead", "warmUp"}
      /\ pc # "dead" /\ pc \in Points /\ then \in Points /\ then # "restore"
  BY DEF Settled, DispatchInv, Continues, ObserverInv, IInv, BaseInv, StoreTypeOK
<1> USE DEF Stage, WarmingUp, BootPoints, AwaitPoints, queueVars, taskVars
<1>1. CASE RestoreStep
  <2>1. pc' # "dead"
    BY <1>1, <1>c DEF RestoreStep, LeaveRestore
  <2>2. CASE WarmingUp
    <3> HIDE DEF WarmingUp
    <3> QED
      BY <1>1, <2>1, <2>2, LoaderRestores
  <2>3. CASE ~WarmingUp
    BY <1>1, <1>a, <1>c, <2>1, <2>3 DEF RestoreStep, LeaveRestore
  <2> QED
    BY <2>2, <2>3
<1>2. CASE RoundFinish \/ WarmUpFinished
  BY <1>2, <1>b DEF RoundFinish, WarmUpFinished, RunCallback
<1>3. CASE RefuseBlock \/ SkipForging \/ ForgeFails \/ ForgeThrows
           \/ AcceptNext \/ Forge \/ StartSync
  BY <1>3, <1>a
  DEF RefuseBlock, SkipForging, ForgeFails, ForgeThrows, AcceptNext, Forge,
      StartSync,
      TaskBegins, FinishTask, NextTask, Await
<1>4. CASE AcceptReplacement \/ SyncBegins \/ AfterRollback \/ RestoreReceived
           \/ SyncExit
  BY <1>4, <1>a
  DEF AcceptReplacement, SyncBegins, AfterRollback, RestoreReceived, SyncExit,
      TaskBegins, Restore
<1>5. CASE SendDelete \/ DeleteAnswered
  BY <1>5, <1>a DEF SendDelete, DeleteAnswered, AfterFailedDelete, Await, Restore
<1>6. CASE DbDelete \/ DbInsert
  BY <1>6, <1>b DEF DbDelete, DbInsert, AtAwait
<1>7. CASE Undo
  BY <1>7, <1>a DEF Undo, Pop, AbortTask, FinishTask, NextTask
<1>8. CASE ReceiveFails \/ ReceiveSaves \/ InsertFailed
  BY <1>8, <1>a
  DEF ReceiveFails, ReceiveSaves, InsertFailed, ProcessFailed, FinishTask, NextTask,
      Await
<1>9. CASE ApplyBlock \/ ApplyThrows
  BY <1>9, <1>a DEF ApplyBlock, ApplyThrows, AbortTask, FinishTask, NextTask
<1>10. CASE SyncWaitEnds \/ SyncNotNeeded \/ SyncLoop \/ PeerAnswers
            \/ SaveRequestedBlock \/ RequestedBlocksEnd \/ SyncDone
  BY <1>10, <1>a
  DEF SyncWaitEnds, SyncNotNeeded, SyncLoop, PeerAnswers, SaveRequestedBlock,
      RequestedBlocksEnd, SyncDone, FinishTask, NextTask
<1>11. CASE \/ GenTimerFires \/ FinTimerFires \/ SyncTimerFires \/ BlockArrives
            \/ Tick
  BY <1>11, <1>b
  DEF GenTimerFires, FinTimerFires, SyncTimerFires, BlockArrives, Tick
<1>12. CASE UNCHANGED vars
  <2>1. UNCHANGED <<chain, db, rounds, pc, blk, goal, then>>
    BY <1>12 DEF vars, chainVars, roundVars
  <2>2. LoaderInv
    BY DEF ObserverInv
  <2>3. \A w, q : Loads(w, q) => Loads(w, q)'
    BY <2>1 DEF Loads, Stores, Loading, CurrentRound, LastBlock
  <2> QED
    BY <1>c, <2>1, <2>2, <2>3 DEF LoaderInv
<1>13. CASE Crash
  <2>1. AtAwait
    BY <1>13 DEF Crash
  <2>2. PICK w \in Seq(Blocks), q \in Seq(RoundType) : Stores(w, q)
    BY <2>1, StoredFits
  <2>3. /\ chain' = <<>> /\ rounds' = <<>> /\ UNCHANGED db /\ pc' = "warmUp"
        /\ Len(chain') = 0
    <3>1. Len(<<>>) = 0
      OBVIOUS
    <3> QED
      BY <1>13, <3>1 DEF Crash
  <2>4. Stores(w, q)'
    BY <2>2, <2>3 DEF Stores
  <2>5. Len(w) \in Nat
    BY <2>2, LenProperties
  <2>6. Loads(w, q)'
    BY <2>3, <2>4, <2>5 DEF Loads, Loading
  <2> QED
    BY <2>2, <2>3, <2>6 DEF LoaderInv
<1>14. CASE WarmUp
  <2>1. LoaderInv'
    BY <1>14, LoaderTakes
  <2> QED
    BY <1>14, <2>1 DEF WarmUp
<1>15. CASE WarmRestore
  <2>1. LoaderInv'
    BY <1>15, LoaderSeeks
  <2> QED
    BY <1>15, <2>1 DEF WarmRestore, Restore
<1>16. CASE WarmPush
  BY <1>16, LoaderPushes
<1>17. CASE WarmUpDone
  BY <1>17, <1>a DEF WarmUpDone
<1> QED
  BY <1>1, <1>2, <1>3, <1>4, <1>5, <1>6, <1>7, <1>8, <1>9, <1>10, <1>11,
     <1>12, <1>13, <1>14, <1>15, <1>16, <1>17, Zenon
  DEF Next, Handler, Database, Timers, Environment

-----------------------------------------------------------------------------
(* The inductive invariant holds.                                          *)

LEMMA ObserverInit == Init => ObserverInv
<1> SUFFICES ASSUME Init PROVE ObserverInv
  OBVIOUS
<1>1. /\ chain = <<>> /\ db = {} /\ rounds = <<>> /\ imm = <<>> /\ pc = "warmUp"
      /\ Len(<<>>) = 0
  BY DEF Init
<1>2. Stage = "warmUp" /\ ~Loading
  BY <1>1 DEF Stage, Loading
<1>3. Stores(<<>>, <<>>)
  BY <1>1 DEF Stores
<1>4. Loads(<<>>, <<>>)
  BY <1>1, <1>2, <1>3 DEF Loads
<1>5. LoaderInv
  <2>1. <<>> \in Seq(Blocks) /\ <<>> \in Seq(RoundType)
    BY EmptySeq
  <2> QED
    BY <1>4, <2>1 DEF LoaderInv
<1>6. RoundsInv /\ RowsInv
  BY <1>1 DEF RoundsInv, RowsInv
<1>7. TaskInv
  BY <1>2 DEF TaskInv
<1> QED
  BY <1>1, <1>5, <1>6, <1>7 DEF ObserverInv

LEMMA ObserverNext ==
  ASSUME Settled, ObserverInv, [Next]_vars, [Raceless]_vars PROVE ObserverInv'
<1>1. RoundsInv'
  BY RoundsNext
<1>2. RowsInv'
  BY RowsNext
<1>3. TaskInv'
  BY TaskNext
<1>4. LoaderInv' /\ pc' # "dead"
  BY LoaderNext
<1> QED
  BY <1>1, <1>2, <1>3, <1>4 DEF ObserverInv

-----------------------------------------------------------------------------
(* What follows from the invariant.                                        *)

LEMMA ChainLinkedInv == ASSUME IInv, RowsInv PROVE ChainLinked
<1>1. PICK n \in Nat : n = Len(chain) /\ DOMAIN chain = 1..n
  BY LenProperties DEF IInv, BaseInv, StoreTypeOK
<1>2. \A i \in 1..n : chain[i].height = i
  BY <1>1 DEF RowsInv
<1>3. ASSUME NEW i \in 2..n
      PROVE  chain[i].previousBlockId = chain[i - 1].id
  <2>1. PICK j \in 1..n : j = i - 1 /\ j # i /\ i \in 1..n
    BY <1>1
  <2>2. Follows(chain[j], chain[i])
    BY <1>1, <2>1 DEF IInv, LinearInv, ChainInv, ChainFollows
  <2>3. chain[i].height # chain[j].height
    BY <1>2, <2>1
  <2> QED
    BY <2>1, <2>2, <2>3 DEF Follows, IsNext
<1> QED
  BY <1>1, <1>2, <1>3 DEF ChainLinked

LEMMA SlotsIncreaseInv == ASSUME IInv, RoundsInv PROVE SlotsIncrease
<1>1. PICK n \in Nat : n = Len(chain)
  BY LenProperties DEF IInv, BaseInv, StoreTypeOK
<1>2. ASSUME NEW i \in 2..n PROVE chain[i].slot > chain[i - 1].slot
  <2>1. n > 1 /\ i \in 1..n /\ i - 1 \in 1..n /\ i - 1 < i
    BY <1>1
  <2>2. chain \in Seq(Blocks) /\ Fits(chain, rounds)
    BY <1>1, <2>1 DEF RoundsInv, IInv, BaseInv, StoreTypeOK
  <2>3. chain[i - 1].slot < chain[i].slot
    BY <1>1, <2>1, <2>2 DEF Fits, Rising
  <2>4. chain[i] \in Blocks /\ chain[i - 1] \in Blocks
    BY <1>1, <2>1, <2>2, ElementOfSeq
  <2>5. chain[i].slot \in Nat /\ chain[i - 1].slot \in Nat
    BY <2>4, BlockFields
  <2> QED
    BY <2>3, <2>5
<1> QED
  BY <1>1, <1>2 DEF SlotsIncrease

LEMMA FlagsMatchInv == ASSUME Settled, RoundsInv, RowsInv PROVE FlagsMatchChain
<1>1. PICK n \in Nat, m \in Nat :
        /\ n = Len(chain) /\ DOMAIN chain = 1..n
        /\ m = Len(rounds) /\ DOMAIN rounds = 1..m
  BY LenProperties, RoundsTyped DEF Settled, IInv, BaseInv, StoreTypeOK
<1>2. ASSUME NEW k \in 1..m
      PROVE  rounds[k].forged = {b.generator : b \in BlocksOf(rounds[k])}
  <2>1. rounds # <<>>
    BY <1>1
  <2>2. \A d : d \in rounds[k].forged <=>
          \E i \in 2..n : InRound(rounds[k], chain[i].slot) /\ chain[i].generator = d
    BY <1>1, <2>1 DEF RoundsInv, Flagged
  <2>3. \A i \in 1..n : chain[i].height > 1 <=> i \in 2..n
    BY <1>1 DEF RowsInv
  <2>4. \A b : b \in BlocksOf(rounds[k]) <=>
          \E i \in 1..n : b = chain[i] /\ chain[i].height > 1
                          /\ InRound(rounds[k], chain[i].slot)
    BY <1>1 DEF BlocksOf, ToSet
  <2>5. \A b : b \in BlocksOf(rounds[k]) <=>
          \E i \in 2..n : b = chain[i] /\ InRound(rounds[k], chain[i].slot)
    <3>1. \A i \in 2..n : i \in 1..n
      OBVIOUS
    <3> QED
      BY <2>3, <2>4, <3>1
  <2>6. \A d : d \in {b.generator : b \in BlocksOf(rounds[k])} <=>
          \E i \in 2..n : InRound(rounds[k], chain[i].slot) /\ chain[i].generator = d
    BY <2>5, ZenonT(30)
  <2> QED
    BY <2>2, <2>6
<1> QED
  BY <1>1, <1>2 DEF FlagsMatchChain

LEMMA ReproducibleInv ==
  ASSUME Settled, RoundsInv, RowsInv PROVE RoundsReproducible
<1>1. PICK n \in Nat, m \in Nat :
        /\ n = Len(chain) /\ DOMAIN chain = 1..n
        /\ m = Len(rounds) /\ DOMAIN rounds = 1..m
  BY LenProperties, RoundsTyped DEF Settled, IInv, BaseInv, StoreTypeOK
<1>2. ASSUME NEW k \in 1..m
      PROVE  rounds[k].order = Schedule[BlockBefore(rounds[k].first).id]
  <2>1. PICK s : s = rounds[k].first
    OBVIOUS
  <2>2. rounds # <<>>
    BY <1>1
  <2>3. chain \in Seq(Blocks) /\ rounds \in Seq(RoundType) /\ Fits(chain, rounds)
    BY <2>2, RoundsTyped DEF RoundsInv, Settled, IInv, BaseInv, StoreTypeOK
  <2>4. PICK j \in 1..n : /\ IsBefore(chain, j, s)
                          /\ rounds[k].order = Schedule[chain[j].id]
    BY <1>1, <2>1, <2>3 DEF Fits, BasedOn
  <2>5. /\ s \in Int /\ \A i \in 1..n : chain[i].slot \in Nat
    BY <1>1, <2>1, <2>3, FitsTypes DEF Proper
  <2>6. \A i \in 1..n : chain[i].height = i
    BY <1>1 DEF RowsInv
  <2>7. PICK J : J = {i \in 1..n : chain[i].height = 1 \/ chain[i].slot < s}
    OBVIOUS
  <2>8. j \in J
    BY <2>4, <2>6, <2>7 DEF IsBefore
  <2>9. ASSUME NEW i \in J PROVE i <= j
    <3>1. i \in 1..n /\ (i = 1 \/ chain[i].slot < s)
      BY <2>6, <2>7
    <3>2. j < i => s <= chain[i].slot
      BY <1>1, <2>4, <3>1 DEF IsBefore
    <3> QED
      BY <2>5, <3>1, <3>2
  <2>10. Max(J) = j
    <3>1. J \subseteq Nat
      BY <2>7
    <3>2. \A x \in J : (\A y \in J : x >= y) <=> x = j
      BY <2>8, <2>9, <3>1
    <3> QED
      BY <2>8, <3>2 DEF Max
  <2>11. BlockBefore(s) = chain[j]
    BY <1>1, <2>7, <2>10 DEF BlockBefore
  <2> QED
    BY <2>1, <2>4, <2>11
<1>3. ASSUME NEW k \in 2..m
      PROVE  rounds[k].first = LastSlot(rounds[k - 1]) + 1
  <2>1. rounds # <<>>
    BY <1>1
  <2> QED
    BY <1>1, <2>1 DEF RoundsInv, Fits, Gapless
<1> QED
  BY <1>1, <1>2, <1>3 DEF RoundsReproducible

-----------------------------------------------------------------------------
(* The theorems.                                                           *)

\* The invariant that the properties below follow from: rounds, flags, rows,
\* the running task and the loader agree with the chain up to the first race.
THEOREM ObserverInvariant == RacelessSpec => [](Settled /\ ObserverInv)
<1>1. RacelessSpec => Spec /\ [][Raceless]_vars /\ [][~DeleteLost]_vars
  <2>1. [Next /\ Raceless]_vars => [Next]_vars /\ [Raceless]_vars /\ [~DeleteLost]_vars
    BY DEF Raceless
  <2> QED
    BY <2>1, PTL DEF RacelessSpec, Spec
<1>2. Settled /\ ObserverInv /\ [Next]_vars /\ [Raceless]_vars => ObserverInv'
  BY ObserverNext
<1>3. RacelessSpec => []Settled
  <2>1. IInv /\ DispatchInv /\ ScheduleInv => Settled
    BY DEF Settled
  <2> QED
    BY <1>1, <2>1, IInvariant, DispatcherInvariant, PTL
<1> QED
  BY <1>1, <1>2, <1>3, ObserverInit, PTL DEF Spec

\* Until a stored block's deletion fails, a block is forged late or a round
\* ends under a block being saved, the blocks in memory form one chain: their
\* heights count up and each names the one before it, through forks,
\* rollbacks, failing insertions and restarts.
THEOREM ChainLinkedHolds == RacelessSpec => []ChainLinked
<1>1. Settled /\ ObserverInv => ChainLinked
  BY ChainLinkedInv DEF Settled, ObserverInv
<1> QED
  BY <1>1, ObserverInvariant, PTL

\* Until the first race the blocks lie in later and later slots: nobody forges
\* twice in one.
THEOREM SlotsIncreaseHolds == RacelessSpec => []SlotsIncrease
<1>1. Settled /\ ObserverInv => SlotsIncrease
  BY SlotsIncreaseInv DEF Settled, ObserverInv
<1> QED
  BY <1>1, ObserverInvariant, PTL

\* Until the first race a slot counts as forged exactly when the chain has its
\* block, however often blocks are deleted and rounds go back and forth, also
\* when a round ends while a block is being deleted or peers are asked.
THEOREM FlagsMatchChainHolds == RacelessSpec => []FlagsMatchChain
<1>1. Settled /\ ObserverInv => FlagsMatchChain
  BY FlagsMatchInv DEF ObserverInv
<1> QED
  BY <1>1, ObserverInvariant, PTL

\* Until the first race nodes with the same chain give the slots to the same
\* delegates, whatever they went through.
THEOREM RoundsReproducibleHolds == RacelessSpec => []RoundsReproducible
<1>1. Settled /\ ObserverInv => RoundsReproducible
  BY ReproducibleInv DEF ObserverInv
<1> QED
  BY <1>1, ObserverInvariant, PTL

\* Until the first race what the database holds can be loaded again after a
\* crash at any moment.
THEOREM LoadableHolds == RacelessSpec => []Loadable
<1>1. Settled /\ ObserverInv => Loadable
  BY DEF ObserverInv, Loadable
<1> QED
  BY <1>1, ObserverInvariant, PTL

\* Until the first race deleteLastBlock finds the slot of the generator of the
\* block it deletes, so that memory follows the database.
THEOREM UndoFindsSlotHolds == RacelessSpec => []UndoFindsSlot
<1>1. Settled /\ ObserverInv => UndoFindsSlot
  BY UndoneForged DEF ObserverInv, UndoFindsSlot
<1> QED
  BY <1>1, ObserverInvariant, PTL

-----------------------------------------------------------------------------
(* What rounds pay.                                                        *)

\* The places in c of the blocks of round r, and the blocks.
PlacesIn(c, r) == {i \in 2..Len(c) : InRound(r, c[i].slot)}
BlocksIn(c, r) == {c[i] : i \in PlacesIn(c, r)}

\* Who has forged the blocks B.
Generators(B) == {b.generator : b \in B}

\* What d gets when r pays for the blocks B.
Reward(B, r, d) ==
  [balance      |-> FeeShare(B) * ForgedBy(B, d),
   forgedBlocks |-> ForgedBy(B, d),
   missedBlocks |-> IF B # {} /\ d \in Active(r) /\ ForgedBy(B, d) = 0
                    THEN 1 ELSE 0]

\* The rewards of all rounds q but the last one, for the blocks of chain c.
Rewards(c, q, d, field) ==
  [k \in 1..Len(q) - 1 |-> Reward(BlocksIn(c, q[k]), q[k], d)[field]]

\* Ledger l holds exactly those.
Paid(l, c, q) ==
  /\ LedgerType(l)
  /\ \A d \in Delegates, field \in DOMAIN NoReward :
       l[d][field] = SumFunction(Rewards(c, q, d, field))

\* A chain has finitely many blocks of a round.
LEMMA BlocksFinite ==
  ASSUME NEW c \in Seq(Blocks), NEW r
  PROVE  IsFiniteSet(BlocksIn(c, r)) /\ BlocksIn(c, r) \subseteq Blocks
<1>1. Len(c) \in Nat /\ \A i \in 1..Len(c) : c[i] \in Blocks
  BY LenProperties, ElementOfSeq
<1>2. IsFiniteSet(2..Len(c))
  BY <1>1, FS_Interval
<1>3. IsFiniteSet(PlacesIn(c, r))
  BY <1>2, FS_Subset DEF PlacesIn
<1>4. IsFiniteSet(BlocksIn(c, r))
  <2>1. PICK f : f = [i \in PlacesIn(c, r) |-> c[i]]
    OBVIOUS
  <2>2. BlocksIn(c, r) = {f[i] : i \in PlacesIn(c, r)}
    BY <2>1 DEF BlocksIn
  <2> QED
    BY <1>3, <2>1, <2>2, ValuesFinite
<1>5. BlocksIn(c, r) \subseteq Blocks
  BY <1>1 DEF BlocksIn, PlacesIn
<1> QED
  BY <1>4, <1>5

\* The share of the fees is a number.
LEMMA FeeShareType ==
  ASSUME NEW B \in SUBSET Blocks, IsFiniteSet(B)
  PROVE  FeeShare(B) \in Int
<1>1. CASE B = {}
  BY <1>1 DEF FeeShare
<1>2. CASE B # {}
  <2>1. PICK n \in Nat \ {0} : n = Cardinality(B)
    BY <1>2, FS_CardinalityType, FS_EmptySet
  <2>2. PICK f : f = [b \in B |-> b.fee]
    OBVIOUS
  <2>3. \A b \in B : f[b] \in Int
    BY <2>2, NodeAssumption
  <2>4. SumFunctionOnSet(f, B) \in Int
    BY <2>3, SumType
  <2>5. PICK m \in Int : m = SumFunction(f)
    BY <2>2, <2>4 DEF SumFunction
  <2>6. FeeShare(B) = (m + n - 1) \div n
    BY <1>2, <2>1, <2>2, <2>5 DEF FeeShare, CeilDiv
  <2> QED
    BY <2>6
<1> QED
  BY <1>1, <1>2

\* So is the number of blocks that somebody has forged.
LEMMA ForgedByType ==
  ASSUME NEW B, IsFiniteSet(B), NEW d
  PROVE  /\ ForgedBy(B, d) \in Nat
         /\ ForgedBy(B, d) = 0 <=> \A b \in B : b.generator # d
<1>1. PICK A : A = {b \in B : b.generator = d}
  OBVIOUS
<1>2. IsFiniteSet(A)
  BY <1>1, FS_Subset
<1>3. Cardinality(A) \in Nat /\ (Cardinality(A) = 0 <=> A = {})
  BY <1>2, FS_CardinalityType, FS_EmptySet
<1>4. ForgedBy(B, d) = Cardinality(A)
  BY <1>1 DEF ForgedBy
<1> QED
  BY <1>1, <1>3, <1>4

\* And each part of a reward.
LEMMA RewardInt ==
  ASSUME NEW B \in SUBSET Blocks, IsFiniteSet(B), NEW r, NEW d,
         NEW field \in DOMAIN NoReward
  PROVE  Reward(B, r, d)[field] \in Int
<1>1. PICK m \in Int, n \in Nat : m = FeeShare(B) /\ n = ForgedBy(B, d)
  BY FeeShareType, ForgedByType
<1>2. m * n \in Int
  OBVIOUS
<1>3. field \in {"balance", "forgedBlocks", "missedBlocks"}
  BY DEF NoReward
<1> QED
  BY <1>1, <1>2, <1>3 DEF Reward

\* processReward adds the reward or takes it away again.
LEMMA Processed ==
  ASSUME NEW B \in SUBSET Blocks, IsFiniteSet(B), NEW r,
         r.forged = Generators(B),
         NEW l, LedgerType(l), NEW sign \in {1, -1},
         NEW d \in Delegates, NEW field \in DOMAIN NoReward,
         l[d][field] \in Int
  PROVE  ProcessReward(l, r, B, sign)[d][field]
           = l[d][field] + sign * Reward(B, r, d)[field]
<1>0. field \in {"balance", "forgedBlocks", "missedBlocks"}
  BY DEF NoReward
<1>1. PICK m \in Int, n \in Nat : m = FeeShare(B) /\ n = ForgedBy(B, d)
  BY FeeShareType, ForgedByType
<1>2. n = 0 <=> d \notin r.forged
  BY <1>1, ForgedByType DEF Generators
<1>3. PICK w : w = Reward(B, r, d)
  OBVIOUS
<1>4. /\ w.balance = m * n /\ w.forgedBlocks = n
      /\ w.missedBlocks = IF B # {} /\ d \in Active(r) /\ n = 0 THEN 1 ELSE 0
  BY <1>1, <1>3 DEF Reward
<1>5. CASE B = {}
  <2>1. r.forged = {} /\ m = 0 /\ n = 0
    BY <1>1, <1>2, <1>5 DEF FeeShare, Generators
  <2>2. ProcessReward(l, r, B, sign) = l
    BY <2>1 DEF ProcessReward
  <2>3. w[field] = 0
    BY <1>0, <1>4, <1>5, <2>1
  <2> QED
    BY <1>3, <2>2, <2>3
<1>6. CASE B # {}
  <2>1. r.forged # {}
    BY <1>6 DEF Generators
  <2>2. PICK p : p = ProcessReward(l, r, B, sign)[d]
    OBVIOUS
  <2>3. p = [balance      |-> l[d].balance + sign * (m * n),
             forgedBlocks |-> l[d].forgedBlocks + sign * n,
             missedBlocks |-> l[d].missedBlocks
                              + (IF d \in Active(r) \ r.forged
                                 THEN sign ELSE 0)]
    BY <1>1, <2>1, <2>2 DEF ProcessReward
  <2>4. CASE field = "balance"
    BY <1>3, <1>4, <2>2, <2>3, <2>4
  <2>5. CASE field = "forgedBlocks"
    BY <1>3, <1>4, <2>2, <2>3, <2>5
  <2>6. CASE field = "missedBlocks"
    <3>1. w.missedBlocks = IF d \in Active(r) \ r.forged THEN 1 ELSE 0
      BY <1>2, <1>4, <1>6
    <3> QED
      BY <1>3, <2>2, <2>3, <2>6, <3>1
  <2> QED
    BY <1>0, <2>4, <2>5, <2>6
<1> QED
  BY <1>5, <1>6

\* Rounds before the last one decide what has been paid.
LEMMA PaidSame ==
  ASSUME NEW l, NEW c, NEW q, NEW e, NEW p, Paid(l, c, q),
         Len(p) = Len(q),
         \A k \in 1..Len(q) - 1 :
           Same(q[k], p[k]) /\ BlocksIn(e, p[k]) = BlocksIn(c, q[k])
  PROVE  Paid(l, e, p)
<1>1. ASSUME NEW d, NEW field
      PROVE  Rewards(e, p, d, field) = Rewards(c, q, d, field)
  <2>1. ASSUME NEW k \in 1..Len(q) - 1
        PROVE  Reward(BlocksIn(e, p[k]), p[k], d) = Reward(BlocksIn(c, q[k]), q[k], d)
    BY DEF Reward, Same, Active
  <2> QED
    BY <2>1 DEF Rewards
<1> QED
  BY <1>1 DEF Paid

\* The pay of the round that is finished comes on top.
LEMMA PaidForward ==
  ASSUME NEW c \in Seq(Blocks), NEW q \in Seq(RoundType), q # <<>>, NEW l,
         Paid(l, c, q), NEW r, r = q[Len(q)],
         r.forged = Generators(BlocksIn(c, r)),
         NEW new, NEW p, p = Append(q, new),
         LedgerType(ProcessReward(l, r, BlocksIn(c, r), 1))
  PROVE  Paid(ProcessReward(l, r, BlocksIn(c, r), 1), c, p)
<1>1. PICK n \in Nat : Len(q) = n + 1
  <2>1. Len(q) \in Nat \ {0}
    BY EmptySeq
  <2>2. Len(q) - 1 \in Nat /\ Len(q) = Len(q) - 1 + 1
    BY <2>1
  <2> QED
    BY <2>2
<1>2. Len(p) = n + 2 /\ \A k \in 1..n + 1 : p[k] = q[k]
  BY <1>1, AppendProperties
<1>3. ASSUME NEW d \in Delegates, NEW field \in DOMAIN NoReward
      PROVE  ProcessReward(l, r, BlocksIn(c, r), 1)[d][field]
               = SumFunction(Rewards(c, p, d, field))
  <2>1. PICK f, g : f = Rewards(c, q, d, field) /\ g = Rewards(c, p, d, field)
    OBVIOUS
  <2>2. DOMAIN f = 1..n /\ DOMAIN g = 1..n + 1
    <3>1. n + 1 - 1 = n /\ n + 2 - 1 = n + 1
      OBVIOUS
    <3> QED
      BY <1>1, <1>2, <2>1, <3>1 DEF Rewards
  <2>3. \A k \in 1..n + 1 : g[k] = Reward(BlocksIn(c, q[k]), q[k], d)[field]
    BY <1>2, <2>1, <2>2 DEF Rewards
  <2>4. \A k \in 1..n : f[k] = Reward(BlocksIn(c, q[k]), q[k], d)[field]
    BY <1>1, <2>1, <2>2 DEF Rewards
  <2>5. \A k \in 1..n + 1 : Reward(BlocksIn(c, q[k]), q[k], d)[field] \in Int
    BY BlocksFinite, RewardInt
  <2>6. \A k \in 1..n : k \in 1..n + 1
    OBVIOUS
  <2>7. (\A k \in 1..n : f[k] = g[k] /\ f[k] \in Int) /\ g[n + 1] \in Int
    <3>1. n + 1 \in 1..n + 1
      OBVIOUS
    <3> QED
      BY <2>3, <2>4, <2>5, <2>6, <3>1
  <2>8. SumFunction(g) = SumFunction(f) + g[n + 1]
    BY <2>2, <2>7, SumNext
  <2>9. SumFunction(f) = l[d][field] /\ SumFunction(f) \in Int
    <3>1. IsFiniteSet(1..n)
      BY FS_Interval
    <3>2. SumFunction(f) \in Int
      BY <2>2, <2>7, <3>1, SumType DEF SumFunction
    <3> QED
      BY <2>1, <3>2 DEF Paid
  <2>10. g[n + 1] = Reward(BlocksIn(c, r), r, d)[field]
    <3>1. n + 1 \in 1..n + 1
      OBVIOUS
    <3> QED
      BY <1>1, <2>3, <3>1
  <2>11. ProcessReward(l, r, BlocksIn(c, r), 1)[d][field]
           = l[d][field] + 1 * Reward(BlocksIn(c, r), r, d)[field]
    <3>1. PICK B : B = BlocksIn(c, r) /\ B \in SUBSET Blocks /\ IsFiniteSet(B)
      BY BlocksFinite
    <3>2. l[d][field] \in Int /\ LedgerType(l) /\ 1 \in {1, -1}
      BY <2>9 DEF Paid
    <3>3. r.forged = Generators(B)
      BY <3>1
    <3>4. ProcessReward(l, r, B, 1)[d][field]
            = l[d][field] + 1 * Reward(B, r, d)[field]
      BY <3>1, <3>2, <3>3, Processed
    <3> QED
      BY <3>1, <3>4
  <2> QED
    BY <2>1, <2>7, <2>8, <2>9, <2>10, <2>11
<1> QED
  BY <1>3 DEF Paid

\* The pay of the round that is gone back to is taken back.
LEMMA PaidBackward ==
  ASSUME NEW c \in Seq(Blocks), NEW q \in Seq(RoundType), Len(q) > 1, NEW l,
         Paid(l, c, q), NEW r, r = q[Len(q) - 1],
         r.forged = Generators(BlocksIn(c, r)),
         NEW p, p = Front(q),
         LedgerType(ProcessReward(l, r, BlocksIn(c, r), -1))
  PROVE  Paid(ProcessReward(l, r, BlocksIn(c, r), -1), c, p)
<1>1. PICK n \in Nat : Len(q) = n + 2
  <2>1. Len(q) \in Nat
    BY LenProperties
  <2>2. Len(q) - 2 \in Nat /\ Len(q) = Len(q) - 2 + 2
    BY <2>1
  <2> QED
    BY <2>2
<1>2. Len(p) = n + 1 /\ \A k \in 1..n + 1 : p[k] = q[k]
  <2>1. q # <<>>
    BY <1>1, EmptySeq
  <2> QED
    BY <1>1, <2>1, FrontElements
<1>3. ASSUME NEW d \in Delegates, NEW field \in DOMAIN NoReward
      PROVE  ProcessReward(l, r, BlocksIn(c, r), -1)[d][field]
               = SumFunction(Rewards(c, p, d, field))
  <2>1. PICK f, g : f = Rewards(c, p, d, field) /\ g = Rewards(c, q, d, field)
    OBVIOUS
  <2>2. DOMAIN f = 1..n /\ DOMAIN g = 1..n + 1
    <3>1. n + 1 - 1 = n /\ n + 2 - 1 = n + 1
      OBVIOUS
    <3> QED
      BY <1>1, <1>2, <2>1, <3>1 DEF Rewards
  <2>3. \A k \in 1..n + 1 : g[k] = Reward(BlocksIn(c, q[k]), q[k], d)[field]
    BY <2>1, <2>2 DEF Rewards
  <2>4. \A k \in 1..n : f[k] = Reward(BlocksIn(c, q[k]), q[k], d)[field]
    <3>1. \A k \in 1..n : k \in 1..n + 1
      OBVIOUS
    <3> QED
      BY <1>2, <2>1, <2>2, <3>1 DEF Rewards
  <2>5. \A k \in 1..n + 1 : Reward(BlocksIn(c, q[k]), q[k], d)[field] \in Int
    BY BlocksFinite, RewardInt
  <2>6. \A k \in 1..n : k \in 1..n + 1
    OBVIOUS
  <2>7. (\A k \in 1..n : f[k] = g[k] /\ f[k] \in Int) /\ g[n + 1] \in Int
    <3>1. n + 1 \in 1..n + 1
      OBVIOUS
    <3> QED
      BY <2>3, <2>4, <2>5, <2>6, <3>1
  <2>8. SumFunction(g) = SumFunction(f) + g[n + 1]
    BY <2>2, <2>7, SumNext
  <2>9. SumFunction(g) = l[d][field] /\ SumFunction(f) \in Int
    <3>1. IsFiniteSet(1..n)
      BY FS_Interval
    <3>2. SumFunction(f) \in Int
      BY <2>2, <2>7, <3>1, SumType DEF SumFunction
    <3> QED
      BY <2>1, <3>2 DEF Paid
  <2>10. g[n + 1] = Reward(BlocksIn(c, r), r, d)[field]
    <3>1. n + 1 \in 1..n + 1 /\ n + 2 - 1 = n + 1
      OBVIOUS
    <3> QED
      BY <1>1, <2>3, <3>1
  <2>11. l[d][field] \in Int
    BY <2>7, <2>8, <2>9
  <2>12. ProcessReward(l, r, BlocksIn(c, r), -1)[d][field]
           = l[d][field] + (-1) * Reward(BlocksIn(c, r), r, d)[field]
    <3>1. PICK B : B = BlocksIn(c, r) /\ B \in SUBSET Blocks /\ IsFiniteSet(B)
      BY BlocksFinite
    <3>2. LedgerType(l) /\ -1 \in {1, -1}
      BY DEF Paid
    <3>3. r.forged = Generators(B)
      BY <3>1
    <3>4. ProcessReward(l, r, B, -1)[d][field]
            = l[d][field] + (-1) * Reward(B, r, d)[field]
      BY <2>11, <3>1, <3>2, <3>3, Processed
    <3> QED
      BY <3>1, <3>4
  <2> QED
    BY <2>1, <2>7, <2>8, <2>9, <2>10, <2>12
<1> QED
  BY <1>3 DEF Paid

-----------------------------------------------------------------------------
(* The blocks that a round pays for.                                       *)

\* The blocks of a round above which there are no others are the last ones.
LEMMA PlacesLast ==
  ASSUME NEW c \in Seq(Blocks), c # <<>>, Rising(c), NEW r, Proper(r),
         \A i \in 2..Len(c) : c[i].slot <= LastSlot(r)
  PROVE  \E m \in 1..Len(c) : PlacesIn(c, r) = m + 1..Len(c)
<1>1. /\ Len(c) \in Nat \ {0}
      /\ \A i \in 1..Len(c) : c[i].slot \in Int
  BY EmptySeq, ElementOfSeq, BlockFields
<1>2. r.first \in Int /\ LastSlot(r) \in Int
  BY DEF Proper
<1>3. CASE PlacesIn(c, r) = {}
  <2>1. Len(c) \in 1..Len(c) /\ Len(c) + 1..Len(c) = {}
    BY <1>1
  <2> QED
    BY <1>3, <2>1
<1>4. CASE PlacesIn(c, r) # {}
  <2>1. PlacesIn(c, r) \in SUBSET Nat
    BY DEF PlacesIn
  <2>2. PICK a \in PlacesIn(c, r) : \A k \in PlacesIn(c, r) : a <= k
    BY <1>4, <2>1, Smallest
  <2>3. a \in 2..Len(c) /\ r.first <= c[a].slot
    BY <2>2 DEF PlacesIn, InRound
  <2>4. PICK m : m = a - 1
    OBVIOUS
  <2>5. m \in 1..Len(c) /\ m + 1 = a
    BY <1>1, <2>3, <2>4
  <2>6. \A i \in PlacesIn(c, r) : i \in a..Len(c)
    BY <1>1, <2>2 DEF PlacesIn
  <2>7. ASSUME NEW i \in a..Len(c) PROVE i \in PlacesIn(c, r)
    <3>1. i \in 2..Len(c) /\ i \in 1..Len(c) /\ a \in 1..Len(c)
      BY <1>1, <2>3
    <3>2. c[a].slot <= c[i].slot
      BY <1>1, <3>1 DEF Rising
    <3>3. c[i].slot <= LastSlot(r)
      BY <3>1
    <3>4. r.first <= c[i].slot
      BY <1>1, <1>2, <2>3, <3>1, <3>2
    <3> QED
      BY <3>1, <3>3, <3>4 DEF PlacesIn, InRound
  <2>8. PlacesIn(c, r) = a..Len(c)
    BY <2>6, <2>7
  <2> QED
    BY <2>5, <2>8
<1> QED
  BY <1>3, <1>4

\* getMany finds them, because each of them has another slot of the round.
LEMMA PaidBlocks ==
  ASSUME NEW c \in Seq(Blocks), c # <<>>, Rising(c), NEW r, Proper(r),
         \A i \in 2..Len(c) :
           /\ c[i].slot <= LastSlot(r)
           /\ InRound(r, c[i].slot) => Forges(r, c[i]),
         NEW h, DOMAIN h = 1..Len(c), \A i \in 1..Len(c) : h[i] = c[i],
         NEW F, F = Generators(BlocksIn(c, r))
  PROVE  ToSet(GetMany(h, Cardinality(F), Len(c) - Cardinality(F)))
           = BlocksIn(c, r)
<1>1. PICK m \in 1..Len(c) : PlacesIn(c, r) = m + 1..Len(c)
  BY PlacesLast
<1>2. PICK n : n = Len(c) - m
  OBVIOUS
<1>3. /\ Len(c) \in Nat \ {0} /\ m \in Nat \ {0} /\ n \in Nat
      /\ Len(c) = m + n
      /\ \A i \in 1..Len(c) : c[i].slot \in Int
  BY <1>1, <1>2, EmptySeq, ElementOfSeq, BlockFields
<1>4. Cardinality(F) = n
  <2>1. PICK g : g = [i \in PlacesIn(c, r) |-> c[i].generator]
    OBVIOUS
  <2>2. F = {g[i] : i \in PlacesIn(c, r)}
    BY <2>1 DEF Generators, BlocksIn
  <2>3. IsFiniteSet(PlacesIn(c, r)) /\ Cardinality(PlacesIn(c, r)) = n
    BY <1>1, <1>3, FS_Interval
  <2>4. ASSUME NEW i \in PlacesIn(c, r), NEW j \in PlacesIn(c, r), g[i] = g[j]
        PROVE  i = j
    <3>1. i \in 2..Len(c) /\ j \in 2..Len(c) /\ i \in 1..Len(c) /\ j \in 1..Len(c)
      BY <1>3 DEF PlacesIn
    <3>2. Forges(r, c[i]) /\ Forges(r, c[j])
      BY DEF PlacesIn
    <3>3. c[i].generator = c[j].generator
      BY <2>1, <2>4
    <3>4. c[i].slot = c[j].slot
      BY <3>2, <3>3 DEF Forges
    <3>5. ~(i < j) /\ ~(j < i)
      BY <1>3, <3>1, <3>4 DEF Rising
    <3> QED
      BY <3>1, <3>5
  <2>5. Cardinality(F) = Cardinality(PlacesIn(c, r))
    BY <2>1, <2>2, <2>3, <2>4, ValuesFinite
  <2> QED
    BY <2>3, <2>5
<1>5. Len(c) - n = m
  BY <1>3
<1>6. GetMany(h, n, m) = [i \in 1..n |-> h[m + i]]
  <2>1. {k \in 0..n : \A x \in m + 1..m + k : x \in DOMAIN h} = 0..n
    <3>1. ASSUME NEW k \in 0..n, NEW x \in m + 1..m + k PROVE x \in DOMAIN h
      BY <1>3
    <3> QED
      BY <3>1
  <2>2. PICK x : x = Max(0..n)
    OBVIOUS
  <2>3. x = n
    <3>1. n \in 0..n /\ \A y \in 0..n : n >= y
      BY <1>3
    <3>2. x \in 0..n /\ \A y \in 0..n : x >= y
      BY <2>2, <3>1 DEF Max
    <3> QED
      BY <1>3, <3>1, <3>2
  <2> QED
    BY <2>1, <2>2, <2>3 DEF GetMany
<1>7. PICK f : f = [i \in 1..n |-> h[m + i]]
  OBVIOUS
<1>8. ASSUME NEW b PROVE b \in ToSet(f) <=> b \in BlocksIn(c, r)
  <2>1. b \in ToSet(f) <=> \E i \in 1..n : b = h[m + i]
    BY <1>7 DEF ToSet
  <2>2. b \in BlocksIn(c, r) <=> \E j \in m + 1..Len(c) : b = c[j]
    BY <1>1 DEF BlocksIn
  <2>3. ASSUME NEW i \in 1..n PROVE m + i \in m + 1..Len(c) /\ h[m + i] = c[m + i]
    BY <1>3
  <2>4. ASSUME NEW j \in m + 1..Len(c)
        PROVE  \E i \in 1..n : h[m + i] = c[j]
    <3>1. j - m \in 1..n /\ m + (j - m) = j /\ j \in 1..Len(c)
      BY <1>3
    <3> QED
      BY <3>1
  <2> QED
    BY <2>1, <2>2, <2>3, <2>4
<1>9. ToSet(f) = BlocksIn(c, r)
  BY <1>8
<1> QED
  BY <1>4, <1>5, <1>6, <1>7, <1>9

\* A block of the last round does not belong to an earlier one.
LEMMA OtherPlaces ==
  ASSUME NEW c \in Seq(Blocks), NEW q \in Seq(RoundType), Ascending(q),
         \A k \in 1..Len(q) : Proper(q[k]),
         NEW b \in Blocks, InRound(q[Len(q)], b.slot),
         NEW k \in 1..Len(q) - 1
  PROVE  ~InRound(q[k], b.slot)
<1>1. PICK n \in Nat : n = Len(q)
  BY LenProperties
<1>2. k \in 1..n /\ n \in 1..n /\ k < n
  BY <1>1
<1>3. LastSlot(q[k]) < q[n].first
  BY <1>1, <1>2 DEF Ascending
<1>4. LastSlot(q[k]) \in Int /\ q[n].first \in Int
  BY <1>1, <1>2 DEF Proper
<1>5. q[n].first <= b.slot /\ b.slot \in Int
  BY <1>1, BlockFields DEF InRound
<1> QED
  BY <1>3, <1>4, <1>5 DEF InRound

\* Blocks of another round do not matter to a round when they come ...
LEMMA BlocksPushed ==
  ASSUME NEW c \in Seq(Blocks), c # <<>>, NEW b \in Blocks,
         NEW r, ~InRound(r, b.slot)
  PROVE  BlocksIn(Append(c, b), r) = BlocksIn(c, r)
<1>0. PICK e : e = Append(c, b)
  OBVIOUS
<1>1. PICK n \in Nat \ {0} : e = Append(c, b) /\ n = Len(c)
  BY <1>0, EmptySeq
<1>2. Len(e) = n + 1 /\ e[n + 1] = b /\ \A i \in 1..n : e[i] = c[i]
  BY <1>1, AppendProperties
<1>3. \A i \in 2..n : i \in 1..n
  OBVIOUS
<1>4. \A i \in 2..n + 1 : i \in 2..n \/ i = n + 1
  OBVIOUS
<1>5. \A i \in 2..n : i \in 2..n + 1
  OBVIOUS
<1>6. PlacesIn(e, r) = PlacesIn(c, r)
  BY <1>1, <1>2, <1>3, <1>4, <1>5 DEF PlacesIn
<1>7. \A i \in PlacesIn(c, r) : e[i] = c[i]
  BY <1>1, <1>2, <1>3 DEF PlacesIn
<1> QED
  BY <1>1, <1>6, <1>7 DEF BlocksIn

\* ... nor when they go.
LEMMA BlocksPopped ==
  ASSUME NEW c \in Seq(Blocks), c # <<>>, NEW r,
         ~InRound(r, c[Len(c)].slot)
  PROVE  BlocksIn(Front(c), r) = BlocksIn(c, r)
<1>0. PICK e : e = Front(c)
  OBVIOUS
<1>1. PICK n \in Nat \ {0} : e = Front(c) /\ n = Len(c)
  BY <1>0, EmptySeq
<1>2. Len(e) = n - 1 /\ \A i \in 1..n - 1 : e[i] = c[i]
  BY <1>1, FrontElements
<1>3. \A i \in 2..n - 1 : i \in 1..n - 1
  OBVIOUS
<1>4. \A i \in 2..n : i \in 2..n - 1 \/ i = n
  OBVIOUS
<1>5. \A i \in 2..n - 1 : i \in 2..n
  OBVIOUS
<1>6. PlacesIn(e, r) = PlacesIn(c, r)
  BY <1>1, <1>2, <1>3, <1>4, <1>5 DEF PlacesIn
<1>7. \A i \in PlacesIn(c, r) : e[i] = c[i]
  BY <1>1, <1>2, <1>3, <1>6 DEF PlacesIn
<1> QED
  BY <1>1, <1>6, <1>7 DEF BlocksIn

-----------------------------------------------------------------------------
(* The invariant.                                                          *)

\* memoryBlocksByHeight is the chain once more.
HeightsInv ==
  /\ DOMAIN byHeight = 1..Len(chain)
  /\ \A i \in 1..Len(chain) : byHeight[i] = chain[i]

LedgerInv == Paid(ledger, chain, rounds)

\* push keeps both forms of the chain the same.
LEMMA HeightsPushed ==
  ASSUME Settled, HeightsInv, NEW b, Push(b), RowsInv'
  PROVE  HeightsInv'
<1>1. PICK n \in Nat : n = Len(chain)
  BY LenProperties DEF Settled, IInv, BaseInv, StoreTypeOK
<1>2. /\ chain' = Append(chain, b)
      /\ byHeight' = [h \in DOMAIN byHeight \cup {b.height} |->
                        IF h = b.height THEN b ELSE byHeight[h]]
  BY DEF Push
<1>3. /\ Len(chain') = n + 1 /\ chain'[n + 1] = b
      /\ \A i \in 1..n : chain'[i] = chain[i]
  <2>1. chain \in Seq(Blocks \cup {b}) /\ b \in Blocks \cup {b}
    <3>1. chain \in Seq(Blocks)
      BY DEF Settled, IInv, BaseInv, StoreTypeOK
    <3>2. \A i \in 1..n : chain[i] \in Blocks \cup {b}
      BY <1>1, <3>1, ElementOfSeq
    <3>3. chain \in [1..n -> Blocks \cup {b}]
      BY <1>1, <3>1, <3>2, LenProperties
    <3> QED
      BY <3>3, FunctionIsSeq
  <2> QED
    BY <1>1, <1>2, <2>1, AppendProperties
<1>4. b.height = n + 1
  BY <1>1, <1>3 DEF RowsInv
<1>5. /\ \A i \in 1..n : i # n + 1
      /\ 1..n + 1 = (1..n) \cup {n + 1}
      /\ DOMAIN byHeight = 1..n /\ \A i \in 1..n : byHeight[i] = chain[i]
  BY <1>1 DEF HeightsInv
<1>6. DOMAIN byHeight' = 1..n + 1
  BY <1>2, <1>4, <1>5
<1>7. \A i \in 1..n + 1 : byHeight'[i] = IF i = n + 1 THEN b ELSE byHeight[i]
  BY <1>2, <1>4, <1>5
<1>8. \A i \in 1..n + 1 : byHeight'[i] = chain'[i]
  BY <1>3, <1>5, <1>7
<1> QED
  BY <1>3, <1>6, <1>8 DEF HeightsInv

\* Both forms of the chain stay the same, whatever the node does.
LEMMA HeightsNext ==
  ASSUME Settled, RowsInv, RowsInv', HeightsInv, [Next]_vars
  PROVE  HeightsInv'
<1>a. ASSUME UNCHANGED <<chain, byHeight>> PROVE HeightsInv'
  BY <1>a DEF HeightsInv
<1>1. CASE ApplyBlock \/ ApplyThrows \/ WarmPush
  BY <1>1, HeightsPushed DEF ApplyBlock, ApplyThrows, WarmPush
<1>2. CASE WarmUp \/ WarmUpDone
  BY <1>2, <1>a, HeightsPushed DEF WarmUp, WarmUpDone
<1>3. CASE Undo
  <2>1. CASE UNCHANGED <<chain, byHeight>>
    BY <1>a, <2>1
  <2>2. CASE /\ chain' = Front(chain)
             /\ byHeight' = [h \in DOMAIN byHeight \ {LastBlock.height} |->
                               byHeight[h]]
    <3>1. chain # <<>> /\ chain \in Seq(Blocks)
      BY <1>3, ChainThere DEF Undo, Pop, Stage, Settled, IInv, BaseInv, StoreTypeOK
    <3>2. PICK n \in Nat \ {0} : n = Len(chain)
      BY <3>1, InMemory
    <3>3. Len(chain') = n - 1 /\ \A i \in 1..n - 1 : chain'[i] = chain[i]
      BY <2>2, <3>1, <3>2, FrontElements
    <3>4. LastBlock.height = n
      BY <3>1, <3>2, InMemory DEF LastBlock, RowsInv
    <3>5. (1..n) \ {n} = 1..n - 1
      OBVIOUS
    <3>6. DOMAIN byHeight = 1..n /\ \A i \in 1..n : byHeight[i] = chain[i]
      BY <3>2 DEF HeightsInv
    <3>7. \A i \in 1..n - 1 : i \in 1..n
      OBVIOUS
    <3>8. DOMAIN byHeight' = 1..n - 1 /\ \A i \in 1..n - 1 : byHeight'[i] = byHeight[i]
      BY <2>2, <3>4, <3>5, <3>6
    <3> QED
      BY <3>3, <3>6, <3>7, <3>8 DEF HeightsInv
  <2> QED
    BY <1>3, <2>1, <2>2 DEF Undo, Pop
<1>4. CASE Crash
  <2>1. DOMAIN <<>> = 1..0 /\ Len(<<>>) = 0 /\ 1..0 = {}
    OBVIOUS
  <2> QED
    BY <1>4, <2>1 DEF Crash, HeightsInv
<1>5. CASE \/ RestoreStep \/ RoundFinish \/ WarmUpFinished
           \/ RefuseBlock \/ SkipForging \/ ForgeFails \/ ForgeThrows \/ Forge
            \/ StartSync
           \/ AcceptNext \/ AcceptReplacement \/ DeleteAnswered \/ AfterRollback
           \/ SendDelete \/ DbDelete \/ DbInsert \/ InsertFailed
  BY <1>5, <1>a
  DEF RestoreStep, RoundFinish, WarmUpFinished,
      RefuseBlock, SkipForging, ForgeFails, ForgeThrows, Forge, StartSync,
      AcceptNext,
      AcceptReplacement, DeleteAnswered, AfterRollback, SendDelete, DbDelete,
      DbInsert, InsertFailed, chainVars
<1>6. CASE \/ ReceiveFails \/ ReceiveSaves
           \/ RestoreReceived \/ WarmRestore \/ SyncWaitEnds \/ SyncBegins
           \/ SyncNotNeeded \/ SyncLoop \/ PeerAnswers \/ SaveRequestedBlock
           \/ RequestedBlocksEnd \/ SyncExit \/ SyncDone
           \/ GenTimerFires \/ FinTimerFires \/ SyncTimerFires \/ BlockArrives
           \/ Tick \/ UNCHANGED vars
  BY <1>6, <1>a
  DEF ReceiveFails, ReceiveSaves, RestoreReceived, WarmRestore, SyncWaitEnds,
      SyncBegins, SyncNotNeeded, SyncLoop, PeerAnswers, SaveRequestedBlock,
      RequestedBlocksEnd, SyncExit, SyncDone, GenTimerFires, FinTimerFires,
      SyncTimerFires, BlockArrives, Tick, vars, chainVars
<1> QED
  BY <1>1, <1>2, <1>3, <1>4, <1>5, <1>6, Zenon
  DEF Next, Handler, Database, Timers, Environment

\* The blocks that processReward finds are those of the round.
LEMMA RewardedInRound ==
  ASSUME Settled, RoundsInv, RowsInv, HeightsInv, chain # <<>>,
         NEW k \in 1..Len(rounds),
         \A i \in 2..Len(chain) : chain[i].slot <= LastSlot(rounds[k])
  PROVE  /\ RewardedBlocks(rounds[k]) = BlocksIn(chain, rounds[k])
         /\ rounds[k].forged = Generators(BlocksIn(chain, rounds[k]))
<1>1. /\ chain \in Seq(Blocks) /\ rounds \in Seq(RoundType)
      /\ Len(chain) \in Nat \ {0} /\ LastBlock = chain[Len(chain)]
  BY InMemory, RoundsTyped DEF LastBlock
<1>2. rounds # <<>> /\ rounds[k] \in RoundType
  BY <1>1, EmptySeq, ElementOfSeq
<1>3. Fits(chain, rounds) /\ Flagged(chain, rounds)
  BY <1>2 DEF RoundsInv
<1>4. Proper(rounds[k]) /\ Rising(chain)
  BY <1>1, <1>3, FitsTypes DEF Fits
<1>5. \A i \in 2..Len(chain) :
        InRound(rounds[k], chain[i].slot) => Forges(rounds[k], chain[i])
  BY <1>1, <1>2, <1>3, BlockInRounds
<1>6. PICK F : F = Generators(BlocksIn(chain, rounds[k]))
  OBVIOUS
<1>7. ASSUME NEW d PROVE d \in rounds[k].forged <=> d \in F
  <2>1. d \in rounds[k].forged <=>
          \E i \in 2..Len(chain) : /\ InRound(rounds[k], chain[i].slot)
                                   /\ chain[i].generator = d
    BY <1>3 DEF Flagged
  <2>2. d \in F <=> \E i \in PlacesIn(chain, rounds[k]) : chain[i].generator = d
    BY <1>6 DEF Generators, BlocksIn
  <2> QED
    BY <2>1, <2>2 DEF PlacesIn
<1>8. rounds[k].forged = F
  <2>1. rounds[k].forged \in SUBSET Delegates
    BY <1>2 DEF RoundType
  <2>2. F = {d \in F : TRUE}
    OBVIOUS
  <2> QED
    BY <1>7, <2>1, <2>2
<1>9. DOMAIN byHeight = 1..Len(chain) /\ \A i \in 1..Len(chain) : byHeight[i] = chain[i]
  BY DEF HeightsInv
<1>10. ToSet(GetMany(byHeight, Cardinality(F), Len(chain) - Cardinality(F)))
         = BlocksIn(chain, rounds[k])
  BY <1>1, <1>4, <1>5, <1>6, <1>9, PaidBlocks
<1>11. LastBlock.height = Len(chain)
  <2>1. Len(chain) \in 1..Len(chain)
    BY <1>1
  <2> QED
    BY <1>1, <2>1 DEF RowsInv
<1> QED
  BY <1>6, <1>8, <1>10, <1>11 DEF RewardedBlocks

\* forwardProcess pays what the current round has earned.
LEMMA LedgerForward ==
  ASSUME Settled, RoundsInv, RowsInv, HeightsInv, LedgerInv,
         rounds # <<>>, chain # <<>>, ForwardProcess, UNCHANGED chain
  PROVE  LedgerInv'
<1>1. /\ chain \in Seq(Blocks) /\ rounds \in Seq(RoundType)
      /\ CurrentRound = rounds[Len(rounds)] /\ Len(rounds) \in 1..Len(rounds)
  <2>1. Len(rounds) \in Nat \ {0}
    BY RoundsTyped, EmptySeq
  <2> QED
    BY <2>1, InMemory, RoundsTyped DEF CurrentRound
<1>2. Fits(chain, rounds)
  BY DEF RoundsInv
<1>3. \A i \in 2..Len(chain) : chain[i].slot <= LastSlot(CurrentRound)
  BY <1>1, <1>2, BlockInRounds
<1>4. PICK r, B : r = CurrentRound /\ B = BlocksIn(chain, r)
  OBVIOUS
<1>5. RewardedBlocks(r) = B /\ r.forged = Generators(B)
  BY <1>1, <1>3, <1>4, RewardedInRound
<1>6. PICK new : new = NewRound(LastSlot(CurrentRound) + 1, LastBlock.id)
  OBVIOUS
<1>7. ledger' = ProcessReward(ledger, r, B, 1) /\ rounds' = Append(rounds, new)
  BY <1>4, <1>5, <1>6 DEF ForwardProcess
<1>8. LedgerType(ledger')
  BY <1>7, RewardType DEF LedgerInv, Paid
<1>9. PICK l, p : l = ledger' /\ p = rounds'
  OBVIOUS
<1>10. Paid(l, chain, p)
  <2>1. Paid(ledger, chain, rounds)
    BY DEF LedgerInv
  <2>2. /\ l = ProcessReward(ledger, r, BlocksIn(chain, r), 1)
        /\ p = Append(rounds, new) /\ LedgerType(l)
        /\ r.forged = Generators(BlocksIn(chain, r))
        /\ r = rounds[Len(rounds)]
    BY <1>1, <1>4, <1>5, <1>7, <1>8, <1>9
  <2> QED
    BY <1>1, <2>1, <2>2, PaidForward
<1> QED
  BY <1>9, <1>10 DEF LedgerInv

\* backwardProcess takes back exactly what the round before has earned.
LEMMA LedgerBackward ==
  ASSUME Settled, RoundsInv, RowsInv, HeightsInv, LedgerInv,
         rounds # <<>>, chain # <<>>, ~InRound(CurrentRound, LastBlock.slot),
         BackwardProcess, UNCHANGED chain
  PROVE  LedgerInv'
<1>1. CASE ~(Len(rounds) > 1)
  BY <1>1 DEF BackwardProcess, LedgerInv
<1>2. CASE Len(rounds) > 1
  <2>1. /\ chain \in Seq(Blocks) /\ rounds \in Seq(RoundType)
        /\ CurrentRound = rounds[Len(rounds)] /\ LastBlock = chain[Len(chain)]
        /\ Len(chain) \in Nat \ {0}
    BY InMemory, RoundsTyped DEF CurrentRound, LastBlock
  <2>2. PICK n \in Nat \ {0} : Len(rounds) = n + 1 /\ Len(rounds) - 1 = n
    <3>1. Len(rounds) \in Nat
      BY RoundsTyped
    <3>2. Len(rounds) - 1 \in Nat \ {0} /\ Len(rounds) = Len(rounds) - 1 + 1
      BY <1>2, <3>1
    <3> QED
      BY <3>2
  <2>3. Fits(chain, rounds)
    BY DEF RoundsInv
  <2>4. /\ \A k \in 1..n + 1 : Proper(rounds[k])
        /\ \A i \in 1..Len(chain) : chain[i].slot \in Int
    BY <2>1, <2>2, <2>3, FitsTypes
  <2>5. /\ rounds[n + 1].first = LastSlot(rounds[n]) + 1
        /\ n \in 1..n + 1 /\ n + 1 \in 1..n + 1 /\ n \in 1..Len(rounds)
    <3>1. n + 1 \in 2..Len(rounds) /\ n + 1 - 1 = n
      BY <2>2
    <3> QED
      BY <2>2, <2>3, <3>1 DEF Fits, Gapless
  <2>6. /\ rounds[n + 1].first \in Int /\ LastSlot(rounds[n + 1]) \in Int
        /\ LastSlot(rounds[n]) \in Int
    BY <2>4, <2>5 DEF Proper
  <2>7. ASSUME NEW i \in 2..Len(chain)
        PROVE  chain[i].slot <= LastSlot(rounds[n])
    <3>1. i \in 1..Len(chain) /\ Len(chain) \in 2..Len(chain)
          /\ Len(chain) \in 1..Len(chain)
      BY <2>1
    <3>2. chain[Len(chain)].slot <= LastSlot(rounds[n + 1])
      BY <2>1, <2>2, <2>3, <3>1, BlockInRounds
    <3>3. chain[Len(chain)].slot < rounds[n + 1].first
      BY <2>1, <2>2, <2>4, <2>6, <3>1, <3>2 DEF InRound
    <3>4. chain[i].slot <= chain[Len(chain)].slot
      <4>1. CASE i = Len(chain)
        BY <2>4, <3>1, <4>1
      <4>2. CASE i # Len(chain)
        <5>1. i < Len(chain)
          BY <2>1, <4>2
        <5> QED
          BY <2>3, <2>4, <3>1, <5>1 DEF Fits, Rising
      <4> QED
        BY <4>1, <4>2
    <3> QED
      BY <2>4, <2>5, <2>6, <3>1, <3>3, <3>4
  <2>8. PICK r, B : r = rounds[n] /\ B = BlocksIn(chain, r)
    OBVIOUS
  <2>9. RewardedBlocks(r) = B /\ r.forged = Generators(B)
    BY <2>5, <2>7, <2>8, RewardedInRound
  <2>10. ledger' = ProcessReward(ledger, r, B, -1) /\ rounds' = Front(rounds)
    BY <1>2, <2>2, <2>8, <2>9 DEF BackwardProcess
  <2>11. LedgerType(ledger')
    BY <2>10, RewardType DEF LedgerInv, Paid
  <2>12. PICK l, p : l = ledger' /\ p = rounds'
    OBVIOUS
  <2>13. Paid(l, chain, p)
    <3>1. Paid(ledger, chain, rounds)
      BY DEF LedgerInv
    <3>2. /\ l = ProcessReward(ledger, r, BlocksIn(chain, r), -1)
          /\ p = Front(rounds) /\ LedgerType(l)
          /\ r.forged = Generators(BlocksIn(chain, r))
          /\ r = rounds[Len(rounds) - 1]
      BY <2>2, <2>8, <2>9, <2>10, <2>11, <2>12
    <3> QED
      BY <1>2, <2>1, <3>1, <3>2, PaidBackward
  <2> QED
    BY <2>12, <2>13 DEF LedgerInv
<1> QED
  BY <1>1, <1>2

-----------------------------------------------------------------------------
(* LedgerInv.                                                              *)

\* Before a round is finished nothing has been paid.
LEMMA PaidNothing ==
  ASSUME NEW l, NEW c, NEW q, Len(q) \in Nat, Len(q) <= 1
  PROVE  Paid(l, c, q) <=>
           /\ LedgerType(l)
           /\ \A d \in Delegates, field \in DOMAIN NoReward : l[d][field] = 0
<1>1. ASSUME NEW d, NEW field PROVE SumFunction(Rewards(c, q, d, field)) = 0
  <2>1. 1..Len(q) - 1 = {}
    OBVIOUS
  <2>2. PICK f : f = Rewards(c, q, d, field)
    OBVIOUS
  <2>3. DOMAIN f = {}
    BY <2>1, <2>2 DEF Rewards
  <2> QED
    BY <2>2, <2>3, SumEmpty DEF SumFunction
<1> QED
  BY <1>1 DEF Paid

\* A process that starts has paid nothing.
LEMMA LedgerReset ==
  ASSUME NEW l, l = [d \in Delegates |-> NoReward], NEW c
  PROVE  Paid(l, c, <<>>)
<1>1. Len(<<>>) \in Nat /\ Len(<<>>) <= 1
  OBVIOUS
<1>2. LedgerType(l)
  BY DEF LedgerType
<1>3. \A d \in Delegates, field \in DOMAIN NoReward : l[d][field] = 0
  BY DEF NoReward
<1> QED
  BY <1>1, <1>2, <1>3, PaidNothing

\* The first round begins.
LEMMA LedgerBegin ==
  ASSUME LedgerInv, UNCHANGED ledger, rounds = <<>>, NEW r,
         rounds' = <<r>> \/ rounds' = <<>>
  PROVE  LedgerInv'
<1>1. PICK p, e : p = rounds' /\ e = chain'
  OBVIOUS
<1>2. Len(p) \in Nat /\ Len(p) <= 1 /\ Len(rounds) \in Nat /\ Len(rounds) <= 1
  <2>1. Len(<<>>) = 0 /\ Len(<<r>>) = 1
    OBVIOUS
  <2> QED
    BY <1>1, <2>1
<1>3. Paid(ledger, chain, rounds)
  BY DEF LedgerInv
<1>4. Paid(ledger, e, p)
  BY <1>2, <1>3, PaidNothing
<1> QED
  BY <1>1, <1>4 DEF LedgerInv

\* Marking or unmarking a slot of the last round leaves the others alone.
LEMMA Remarked ==
  ASSUME NEW q \in Seq(RoundType), q # <<>>, NEW F,
         NEW p, p = [q EXCEPT ![Len(q)].forged = F]
  PROVE  Len(p) = Len(q) /\ \A k \in 1..Len(q) - 1 : p[k] = q[k]
<1>1. PICK n \in Nat \ {0} : n = Len(q)
  BY EmptySeq
<1>2. DOMAIN q = 1..n /\ DOMAIN p = 1..n
  BY <1>1, LenProperties
<1>3. \A k \in 1..n - 1 : k \in 1..n /\ k # n
  BY <1>1
<1>4. \A k \in 1..n - 1 : p[k] = q[k]
  BY <1>1, <1>2, <1>3
<1>5. p \in [1..n -> {p[k] : k \in 1..n}]
  BY <1>2
<1>6. Len(p) = n
  BY <1>5, FunctionIsSeq
<1> QED
  BY <1>1, <1>4, <1>6

\* A block of the current round comes or goes.
LEMMA LedgerPush ==
  ASSUME Settled, RoundsInv, LedgerInv, UNCHANGED ledger,
         rounds # <<>>, chain # <<>>, NEW b \in Blocks,
         InRound(CurrentRound, b.slot), Push(b), SetForged(b)
  PROVE  LedgerInv'
<1>1. /\ chain \in Seq(Blocks) /\ rounds \in Seq(RoundType)
      /\ CurrentRound = rounds[Len(rounds)]
  BY InMemory, RoundsTyped DEF CurrentRound
<1>2. Ascending(rounds) /\ \A k \in 1..Len(rounds) : Proper(rounds[k])
  BY <1>1, FitsTypes DEF RoundsInv, Fits
<1>3. PICK F : F = rounds[Len(rounds)].forged \cup {b.generator}
  OBVIOUS
<1>4. PICK p, e : p = rounds' /\ e = chain'
  OBVIOUS
<1>5. e = Append(chain, b) /\ p = [rounds EXCEPT ![Len(rounds)].forged = F]
  BY <1>3, <1>4 DEF Push, SetForged
<1>6. Len(p) = Len(rounds) /\ \A k \in 1..Len(rounds) - 1 : p[k] = rounds[k]
  BY <1>1, <1>5, Remarked
<1>7. ASSUME NEW k \in 1..Len(rounds) - 1
      PROVE  Same(rounds[k], p[k]) /\ BlocksIn(e, p[k]) = BlocksIn(chain, rounds[k])
  <2>1. ~InRound(rounds[k], b.slot)
    BY <1>1, <1>2, OtherPlaces
  <2>2. BlocksIn(e, rounds[k]) = BlocksIn(chain, rounds[k])
    BY <1>1, <1>5, <2>1, BlocksPushed
  <2> QED
    BY <1>6, <2>2 DEF Same
<1>8. Paid(ledger, chain, rounds)
  BY DEF LedgerInv
<1>9. Paid(ledger, e, p)
  BY <1>6, <1>7, <1>8, PaidSame
<1> QED
  BY <1>4, <1>9 DEF LedgerInv

LEMMA LedgerPop ==
  ASSUME Settled, RoundsInv, LedgerInv, UNCHANGED ledger,
         rounds # <<>>, chain # <<>>, InRound(CurrentRound, LastBlock.slot),
         chain' = Front(chain),
         rounds' = [rounds EXCEPT ![Len(rounds)].forged = @ \ {LastBlock.generator}]
  PROVE  LedgerInv'
<1>1. /\ chain \in Seq(Blocks) /\ rounds \in Seq(RoundType)
      /\ CurrentRound = rounds[Len(rounds)] /\ LastBlock = chain[Len(chain)]
      /\ LastBlock \in Blocks
  BY InMemory, RoundsTyped DEF CurrentRound, LastBlock
<1>2. Ascending(rounds) /\ \A k \in 1..Len(rounds) : Proper(rounds[k])
  BY <1>1, FitsTypes DEF RoundsInv, Fits
<1>3. PICK F : F = rounds[Len(rounds)].forged \ {LastBlock.generator}
  OBVIOUS
<1>4. PICK p, e : p = rounds' /\ e = chain'
  OBVIOUS
<1>5. e = Front(chain) /\ p = [rounds EXCEPT ![Len(rounds)].forged = F]
  BY <1>3, <1>4
<1>6. Len(p) = Len(rounds) /\ \A k \in 1..Len(rounds) - 1 : p[k] = rounds[k]
  BY <1>1, <1>5, Remarked
<1>7. ASSUME NEW k \in 1..Len(rounds) - 1
      PROVE  Same(rounds[k], p[k]) /\ BlocksIn(e, p[k]) = BlocksIn(chain, rounds[k])
  <2>1. ~InRound(rounds[k], LastBlock.slot)
    BY <1>1, <1>2, OtherPlaces
  <2>2. BlocksIn(e, rounds[k]) = BlocksIn(chain, rounds[k])
    BY <1>1, <1>5, <2>1, BlocksPopped
  <2> QED
    BY <1>6, <2>2 DEF Same
<1>8. Paid(ledger, chain, rounds)
  BY DEF LedgerInv
<1>9. Paid(ledger, e, p)
  BY <1>6, <1>7, <1>8, PaidSame
<1> QED
  BY <1>4, <1>9 DEF LedgerInv

\* What has been paid is what the finished rounds have earned, whatever the
\* node does.
LEMMA LedgerNext ==
  ASSUME Settled, ObserverInv, HeightsInv, LedgerInv, [Next]_vars
  PROVE  LedgerInv'
<1>a. RoundsInv /\ RowsInv /\ TaskInv /\ LoaderInv
  BY DEF ObserverInv
<1>b. ASSUME UNCHANGED <<chain, rounds, ledger>> PROVE LedgerInv'
  BY <1>b DEF LedgerInv
<1>c. ASSUME AtAwait PROVE chain # <<>>
  <2>1. pc # "restore" /\ pc # "warmUp"
    BY <1>c DEF AtAwait, AwaitPoints
  <2> QED
    BY <2>1, ChainThere DEF Stage
<1>1. CASE RestoreStep
  <2>1. /\ pc = "restore" /\ then \notin {"warmUp"} /\ rounds # <<>>
        /\ UNCHANGED chain
    BY <1>1 DEF RestoreStep, Settled, DispatchInv, Continues, ScheduleInv,
                RoundsKnown, chainVars
  <2>2. chain # <<>>
    BY <2>1, ChainThere DEF Stage
  <2>3. \/ UNCHANGED <<rounds, ledger>>
        \/ ForwardProcess
        \/ BackwardProcess /\ ~InRound(CurrentRound, LastBlock.slot)
    BY <1>1 DEF RestoreStep, roundVars
  <2> QED
    BY <1>a, <1>b, <2>1, <2>2, <2>3, LedgerForward, LedgerBackward
<1>2. CASE RoundFinish
  <2>1. /\ AtAwait /\ ForwardProcess /\ UNCHANGED chain
        /\ imm # <<>> /\ Head(imm) = "ROUND_FINISH"
    BY <1>2 DEF RoundFinish, RunCallback, chainVars
  <2>2. rounds # <<>>
    <3>1. imm \in Seq(Callbacks) /\ Len(imm) \in Nat \ {0}
      BY <2>1, EmptySeq DEF Settled, DispatchInv, DispatcherTypeOK, Callbacks
    <3>2. Head(imm) = imm[1] /\ 1 \in DOMAIN imm
      BY <3>1, LenProperties
    <3>3. "ROUND_FINISH" \in ToSet(imm)
      BY <2>1, <3>2 DEF ToSet
    <3> QED
      BY <3>3 DEF Settled, ScheduleInv, RoundsKnown
  <2> QED
    BY <1>a, <1>c, <2>1, <2>2, LedgerForward
<1>3. CASE WarmUpFinished
  <2>1. UNCHANGED <<chain, ledger>>
    BY <1>3 DEF WarmUpFinished, chainVars
  <2>2. CASE rounds = <<>>
    BY <1>3, <2>1, <2>2, LedgerBegin DEF WarmUpFinished
  <2>3. CASE rounds # <<>>
    BY <1>3, <1>b, <2>1, <2>3 DEF WarmUpFinished
  <2> QED
    BY <2>2, <2>3
<1>4. CASE ReceiveFails \/ ReceiveSaves
  <2>1. rounds' = RoundsForBlock /\ UNCHANGED <<chain, ledger>>
    BY <1>4 DEF ReceiveFails, ReceiveSaves, chainVars
  <2>2. CASE rounds = <<>>
    BY <2>1, <2>2, LedgerBegin DEF RoundsForBlock
  <2>3. CASE rounds # <<>>
    BY <1>b, <2>1, <2>3 DEF RoundsForBlock
  <2> QED
    BY <2>2, <2>3
<1>5. CASE ApplyBlock
  <2>1. pc = "saving" /\ Push(blk) /\ SetForged(blk) /\ UNCHANGED ledger
    BY <1>5 DEF ApplyBlock
  <2>2. chain # <<>> /\ blk \in Blocks
    BY <2>1, ChainThere
    DEF Stage, Settled, IInv, BaseInv, TaskBlock, StoreTypeOK, Receiving
  <2>3. rounds # <<>> /\ Forges(CurrentRound, blk)
    BY <1>a, <2>1 DEF TaskInv, Stage
  <2>4. Proper(CurrentRound)
    <3>1. /\ chain \in Seq(Blocks) /\ rounds \in Seq(RoundType)
          /\ CurrentRound = rounds[Len(rounds)] /\ Len(rounds) \in 1..Len(rounds)
      <4>1. Len(rounds) \in Nat \ {0}
        BY <2>3, RoundsTyped, EmptySeq
      <4> QED
        BY <2>2, <4>1, InMemory, RoundsTyped DEF CurrentRound
    <3> QED
      BY <1>a, <2>3, <3>1, FitsTypes DEF RoundsInv
  <2>5. InRound(CurrentRound, blk.slot)
    BY <2>3, <2>4, ForgedInRound
  <2> QED
    BY <1>a, <2>1, <2>2, <2>3, <2>5, LedgerPush
<1>6. CASE ApplyThrows
  <2>1. pc = "saving" /\ blk.generator \notin Active(CurrentRound)
    BY <1>6 DEF ApplyThrows
  <2> QED
    BY <1>a, <2>1 DEF TaskInv, Stage, Forges
<1>7. CASE Undo
  <2>1. pc = "undo" /\ UNCHANGED ledger
    BY <1>7 DEF Undo, Pop
  <2>2. /\ chain # <<>> /\ LastBlock.height # 1
        /\ InRound(CurrentRound, LastBlock.slot)
    BY <1>a, <2>1, ChainThere
    DEF Stage, Settled, IInv, BaseInv, TaskBlock, TaskInv
  <2>3. CASE UNCHANGED <<chain, rounds>>
    BY <1>b, <2>1, <2>3
  <2>4. CASE /\ chain' = Front(chain)
             /\ rounds' = [rounds EXCEPT ![Len(rounds)].forged =
                                           @ \ {LastBlock.generator}]
    <3>1. rounds # <<>>
      <4>1. Len(chain) > 1
        <5>1. Len(chain) # 1
          <6>1. Len(chain) = 1 => LastBlock = Genesis
            BY <2>2, InMemory DEF LastBlock
          <6>2. Genesis.height = 1
            BY NodeAssumption
          <6> QED
            BY <2>2, <6>1, <6>2
        <5>2. PICK n \in Nat \ {0} : n = Len(chain)
          BY <2>2, InMemory
        <5> QED
          BY <5>1, <5>2
      <4> QED
        BY <1>a, <4>1 DEF RoundsInv
    <3> QED
      BY <1>a, <2>1, <2>2, <2>4, <3>1, LedgerPop
  <2> QED
    BY <1>7, <2>3, <2>4 DEF Undo, Pop
<1>8. CASE Crash
  <2>1. PICK l, e : l = ledger' /\ e = chain'
    OBVIOUS
  <2>2. rounds' = <<>> /\ l = [d \in Delegates |-> NoReward]
    BY <1>8, <2>1 DEF Crash
  <2>3. Paid(l, e, <<>>)
    BY <2>2, LedgerReset
  <2> QED
    BY <2>1, <2>2, <2>3 DEF LedgerInv
<1>9. CASE WarmUp
  <2>1. pc = "warmUp" /\ Stage = "warmUp" /\ WarmingUp /\ UNCHANGED ledger
    BY <1>9 DEF WarmUp, Stage, WarmingUp, BootPoints
  <2>2. PICK w \in Seq(Blocks), q \in Seq(RoundType) : Loads(w, q)
    BY <1>a, <2>1 DEF LoaderInv
  <2>3. PICK b \in NextRows :
          IF b.height = 1
          THEN Push(b) /\ UNCHANGED rounds
          ELSE /\ UNCHANGED chain
               /\ rounds' = IF b.height = 2
                            THEN Append(rounds,
                                   NewRound(FirstSlotInRound(b.slot,
                                              ActiveCount(LastBlock)),
                                            LastBlock.id))
                            ELSE rounds
    BY <1>9 DEF WarmUp
  <2>4. b.height = Len(chain) + 1 /\ Len(chain) \in Nat
    BY <2>2, NextLoaded, LenProperties DEF Settled, IInv, BaseInv, StoreTypeOK
  <2>5. b.height \in {1, 2} => rounds = <<>>
    BY <2>1, <2>2, <2>4 DEF Loads
  <2>6. CASE b.height = 1
    BY <2>1, <2>3, <2>5, <2>6, LedgerBegin
  <2>7. CASE b.height = 2
    <3>1. PICK r : r = NewRound(FirstSlotInRound(b.slot, ActiveCount(LastBlock)),
                                LastBlock.id)
      OBVIOUS
    <3>2. rounds' = Append(<<>>, r)
      BY <2>3, <2>5, <2>7, <3>1
    <3>3. rounds' = <<r>>
      BY <3>2
    <3> QED
      BY <2>1, <2>5, <2>7, <3>3, LedgerBegin
  <2>8. CASE b.height # 1 /\ b.height # 2
    BY <1>b, <2>1, <2>3, <2>8
  <2> QED
    BY <2>6, <2>7, <2>8
<1>10. CASE WarmPush
  <2>1. /\ pc = "warmPush" /\ Stage = "warmPush" /\ WarmingUp /\ Loading
        /\ Push(blk) /\ UNCHANGED ledger
    BY <1>10 DEF WarmPush, Stage, WarmingUp, BootPoints, Loading
  <2>2. PICK w \in Seq(Blocks), q \in Seq(RoundType) : Loads(w, q)
    BY <1>a, <2>1 DEF LoaderInv
  <2>3. /\ chain # <<>> /\ rounds # <<>> /\ blk \in Blocks
        /\ InRound(CurrentRound, blk.slot) => Forges(CurrentRound, blk)
    BY <1>a, <2>1, <2>2, LoadedBlock
  <2>4. InRound(CurrentRound, blk.slot)
    BY <2>1, <2>2 DEF Loads
  <2>5. SetForged(blk)
    BY <1>10, <2>3, <2>4 DEF WarmPush, Forges
  <2> QED
    BY <1>a, <2>1, <2>3, <2>4, <2>5, LedgerPush
<1>11. CASE WarmUpDone
  <2>1. pc = "warmUp" /\ Stage = "warmUp" /\ WarmingUp /\ UNCHANGED <<rounds, ledger>>
    BY <1>11 DEF WarmUpDone, Stage, WarmingUp, BootPoints, roundVars
  <2>2. PICK w \in Seq(Blocks), q \in Seq(RoundType) : Loads(w, q)
    BY <1>a, <2>1 DEF LoaderInv
  <2>3. CASE chain = <<>>
    <3>1. Len(chain) = 0
      BY <2>3
    <3>2. rounds = <<>>
      BY <2>1, <2>2, <3>1 DEF Loads
    <3> QED
      BY <2>1, <3>2, LedgerBegin
  <2>4. CASE chain # <<>>
    BY <1>11, <1>b, <2>1, <2>4 DEF WarmUpDone
  <2> QED
    BY <2>3, <2>4
<1>12. CASE \/ RefuseBlock \/ SkipForging \/ ForgeFails \/ ForgeThrows \/ Forge
            \/ StartSync
            \/ AcceptNext \/ AcceptReplacement \/ DeleteAnswered \/ AfterRollback
            \/ SendDelete \/ DbDelete \/ DbInsert \/ InsertFailed
            \/ RestoreReceived \/ WarmRestore \/ SyncWaitEnds \/ SyncBegins
            \/ SyncNotNeeded \/ SyncLoop \/ PeerAnswers \/ SaveRequestedBlock
            \/ RequestedBlocksEnd \/ SyncExit \/ SyncDone
  BY <1>12, <1>b
  DEF RefuseBlock, SkipForging, ForgeFails, ForgeThrows, Forge, StartSync,
      AcceptNext,
      AcceptReplacement, DeleteAnswered, AfterRollback, SendDelete, DbDelete,
      DbInsert, InsertFailed, RestoreReceived, WarmRestore, SyncWaitEnds,
      SyncBegins, SyncNotNeeded, SyncLoop, PeerAnswers, SaveRequestedBlock,
      RequestedBlocksEnd, SyncExit, SyncDone, roundVars, chainVars
<1>13. CASE \/ GenTimerFires \/ FinTimerFires \/ SyncTimerFires \/ BlockArrives
            \/ Tick \/ UNCHANGED vars
  BY <1>13, <1>b
  DEF GenTimerFires, FinTimerFires, SyncTimerFires, BlockArrives, Tick, vars,
      roundVars, chainVars
<1> QED
  BY <1>1, <1>2, <1>3, <1>4, <1>5, <1>6, <1>7, <1>8, <1>9, <1>10, <1>11,
     <1>12, <1>13, Zenon
  DEF Next, Handler, Database, Timers, Environment

\* At the start there is neither a chain nor a ledger.
LEMMA LedgerInit == Init => HeightsInv /\ LedgerInv
<1> SUFFICES ASSUME Init PROVE HeightsInv /\ LedgerInv
  OBVIOUS
<1>1. DOMAIN <<>> = 1..0 /\ Len(<<>>) = 0 /\ 1..0 = {}
  OBVIOUS
<1>2. HeightsInv
  BY <1>1 DEF Init, HeightsInv
<1>3. LedgerInv
  BY LedgerReset DEF Init, LedgerInv
<1> QED
  BY <1>2, <1>3

-----------------------------------------------------------------------------
(* The theorem.                                                            *)

\* The blocks of a round, as LedgerExact counts them.
LEMMA LedgerExactInv ==
  ASSUME Settled, RowsInv, LedgerInv, rounds = <<>> \/ chain # <<>>
  PROVE  LedgerExact
<1>1. ASSUME NEW d \in Delegates, NEW field \in DOMAIN NoReward
      PROVE  ledger[d][field] = EarnedSoFar(d, field)
  <2>1. ASSUME chain # <<>>, NEW r PROVE BlocksOf(r) = BlocksIn(chain, r)
    <3>1. /\ chain \in Seq(Blocks) /\ Len(chain) \in Nat \ {0}
          /\ DOMAIN chain = 1..Len(chain)
          /\ \A i \in 1..Len(chain) : chain[i].height = i
      BY <2>1, InMemory, LenProperties DEF RowsInv
    <3>2. \A i \in 1..Len(chain) : i > 1 <=> i \in 2..Len(chain)
      BY <3>1
    <3>3. \A i \in 2..Len(chain) : i \in 1..Len(chain)
      BY <3>1
    <3>4. ASSUME NEW b PROVE b \in BlocksOf(r) <=> b \in BlocksIn(chain, r)
      <4>1. b \in BlocksOf(r) <=>
              \E i \in 1..Len(chain) :
                b = chain[i] /\ b.height > 1 /\ InRound(r, b.slot)
        BY <3>1 DEF BlocksOf, ToSet
      <4>2. b \in BlocksIn(chain, r) <=>
              \E i \in 2..Len(chain) : b = chain[i] /\ InRound(r, chain[i].slot)
        BY DEF BlocksIn, PlacesIn
      <4> QED
        BY <3>1, <3>2, <3>3, <4>1, <4>2
    <3> QED
      BY <3>4
  <2>2. CASE chain # <<>>
    <3>1. \A r : Earned(d, r) = Reward(BlocksIn(chain, r), r, d)
      BY <2>1, <2>2 DEF Earned, Reward
    <3>2. EarnedSoFar(d, field) = SumFunction(Rewards(chain, rounds, d, field))
      BY <3>1 DEF EarnedSoFar, Rewards
    <3> QED
      BY <3>2 DEF LedgerInv, Paid
  <2>3. CASE rounds = <<>>
    <3>1. 1..Len(rounds) - 1 = {}
      <4>1. Len(<<>>) = 0 /\ 1..0 - 1 = {}
        OBVIOUS
      <4> QED
        BY <2>3, <4>1
    <3>2. PICK f : f = [k \in 1..Len(rounds) - 1 |-> Earned(d, rounds[k])[field]]
      OBVIOUS
    <3>3. DOMAIN f = {}
      BY <3>1, <3>2
    <3>4. EarnedSoFar(d, field) = 0
      BY <3>2, <3>3, SumEmpty DEF EarnedSoFar, SumFunction
    <3>5. Len(rounds) \in Nat /\ Len(rounds) <= 1
      <4>1. Len(<<>>) = 0
        OBVIOUS
      <4> QED
        BY <2>3, <4>1
    <3> QED
      BY <3>4, <3>5, PaidNothing DEF LedgerInv
  <2> QED
    BY <2>2, <2>3
<1> QED
  BY <1>1 DEF LedgerExact

\* Until a stored block's deletion fails, a block is forged late or a round
\* ends under a block being saved, delegates have been paid exactly for the
\* finished rounds as they are in the chain, however often rounds were gone
\* back and forth.
THEOREM LedgerExactHolds == RacelessSpec => []LedgerExact
<1>1. Init => HeightsInv /\ LedgerInv
  BY LedgerInit
<1>2. Settled /\ ObserverInv /\ (Settled /\ ObserverInv)'
        /\ HeightsInv /\ LedgerInv /\ [Next]_vars
        => (HeightsInv /\ LedgerInv)'
  <2> SUFFICES ASSUME Settled, ObserverInv, ObserverInv', HeightsInv, LedgerInv,
                      [Next]_vars
               PROVE  HeightsInv' /\ LedgerInv'
    OBVIOUS
  <2>1. HeightsInv'
    BY HeightsNext DEF ObserverInv
  <2>2. LedgerInv'
    BY LedgerNext
  <2> QED
    BY <2>1, <2>2
<1>3. Settled /\ ObserverInv /\ HeightsInv /\ LedgerInv => LedgerExact
  <2> SUFFICES ASSUME Settled, ObserverInv, LedgerInv PROVE LedgerExact
    OBVIOUS
  <2>1. ASSUME AtAwait PROVE chain # <<>>
    <3>1. pc # "restore" /\ pc # "warmUp"
      BY <2>1 DEF AtAwait, AwaitPoints
    <3> QED
      BY <3>1, ChainThere DEF Stage
  <2>2. CASE AtAwait
    BY <2>1, <2>2, LedgerExactInv DEF ObserverInv
  <2>3. CASE ~AtAwait
    BY <2>3 DEF LedgerExact
  <2> QED
    BY <2>2, <2>3
<1>4. [Next /\ Raceless]_vars => [Next]_vars
  OBVIOUS
<1> QED
  BY <1>1, <1>2, <1>3, <1>4, ObserverInvariant, PTL DEF RacelessSpec
=============================================================================
