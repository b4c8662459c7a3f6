---------------------------- MODULE StorageProofs ----------------------------
(***************************************************************************)
(* Proofs about Storage, for every value of the constants.                 *)
(***************************************************************************)
EXTENDS StorageProps, SequenceFacts, SequenceTheorems, TLAPS

-----------------------------------------------------------------------------
(* The inductive invariant: the table, the task and memory.                *)

Block == [id : Nat, height : Nat, previous : Nat, trs : SUBSET Transactions]

\* The table is a chain of blocks, one for every height, with an id of its own.
TableOK ==
    /\ table \in Seq(Block) /\ table # <<>>
    /\ \A h \in 1..Len(table) : table[h].height = h /\ table[h].id <= ids
    /\ \A h, k \in 1..Len(table) : table[h].id = table[k].id => h = k

\* A block that would be the next one of the table.
FitsTable(b) ==
    /\ b.height = Len(table) + 1 /\ b.id <= ids
    /\ \A h \in 1..Len(table) : table[h].id # b.id

\* What the task has put into the table, or taken out of it, is what it is
\* about, and memory has not been emptied since it began.
TaskOK ==
    /\ task \in [op : {"none", "save", "delete"}, done : BOOLEAN, block : Block]
    /\ task.op # "none" => running /\ memory # <<>>
    /\ task.op = "save" /\ ~task.done => FitsTable(task.block)
    /\ task.op = "save" /\ task.done => Len(table) >= 2 /\ table[Len(table)] = task.block
    /\ task.op = "delete" /\ ~task.done => Len(table) >= 2 /\ table[Len(table)] = task.block
    /\ task.op = "delete" /\ task.done => FitsTable(task.block)

CountersOK ==
    /\ running \in BOOLEAN /\ loaded \in Nat /\ ids \in Nat /\ peak \in Nat
    /\ ~running => task = NoTask /\ loaded <= Len(table) /\ peak = loaded
    /\ Len(Known) <= peak

Base == TableOK /\ TaskOK /\ CountersOK

IInv == Base /\ WindowIsTail

-----------------------------------------------------------------------------
(* Lemmas about memory.                                                    *)

\* A chain of blocks: every height once, every id once.
IsChain(s) ==
    /\ s \in Seq(Block)
    /\ \A h \in 1..Len(s) : s[h].height = h
    /\ \A h, k \in 1..Len(s) : s[h].id = s[k].id => h = k

\* The ids of a set of blocks.
LEMMA IdsOf ==
  ASSUME NEW s, NEW A, NEW B, B = {s[h] : h \in A}
  PROVE  {c.id : c \in B} = {s[h].id : h \in A}
OBVIOUS

\* Every block takes away its own id only.
LEMMA IdsWithout ==
  ASSUME NEW s, NEW A, NEW B, B \subseteq A,
         \A h, k \in A : s[h].id = s[k].id => h = k
  PROVE  {s[h].id : h \in A} \ {s[h].id : h \in B} = {s[h].id : h \in A \ B}
OBVIOUS

\* The heights from low on, to n and to n + 1, and those before lo.
LEMMA Heights ==
  \A low \in Nat \ {0}, lo \in Nat, n \in Nat : low <= lo /\ lo <= n + 1 =>
     /\ low..n + 1 = (low..n) \cup {n + 1}
     /\ low..lo - 1 \subseteq low..n + 1
     /\ lo..n + 1 = (low..n + 1) \ (low..lo - 1)
OBVIOUS

\* The lowest block in memory is a height, and follows from the highest block.
LEMMA LowProperties ==
  ASSUME peak \in Nat
  PROVE  /\ Low \in Nat \ {0}
         /\ Low <= peak + 1
         /\ peak - Low + 1 <= MemoryLimit
BY LimitsAssumption DEF Low

\* push evicts a block exactly when memory is full, and then the chain has
\* never been longer.
LEMMA PushLow ==
  ASSUME peak \in Nat, NEW n \in Nat, n <= peak, Low <= n + 1,
         peak' = IF n + 1 > peak THEN n + 1 ELSE peak
  PROVE  /\ n - Low + 1 <= MemoryLimit
         /\ Low' = IF n - Low + 2 > MemoryLimit THEN Low + 1 ELSE Low
BY LimitsAssumption DEF Low

\* Memory is the end of the chain s.
Window(s) ==
    /\ memory = SubSeq(s, Low, Len(s))
    /\ byHeight = [h \in Low..Len(s) |-> s[h]]
    /\ byId = {b.id : b \in ToSet(memory)}

\* What cleanup takes away is the beginning of what was in memory.
CleansUp(t, b) ==
    /\ Low' \in Low..Len(t)
    /\ ToSet(Evicted(b)) = {t[h] : h \in Low..Low' - 1}

\* A block on top of the chain s makes t, and push makes memory the end of t.
LEMMA PushWindow ==
  ASSUME NEW s, IsChain(s), NEW t, IsChain(t), NEW b \in Block,
         b.height = Len(s) + 1, Len(t) = Len(s) + 1, t[Len(s) + 1] = b,
         \A h \in 1..Len(s) : t[h] = s[h],
         peak \in Nat, Len(s) <= peak, Low <= Len(s) + 1,
         Window(s), Push(b)
  PROVE  /\ Window(t)'
         /\ peak' \in Nat /\ Len(t) <= peak'
         /\ CleansUp(t, b)
<1>0. /\ memory = SubSeq(s, Low, Len(s))
      /\ byHeight = [h \in Low..Len(s) |-> s[h]]
      /\ byId = {c.id : c \in ToSet(memory)}
  BY DEF Window
<1>1. PICK n \in Nat : n = Len(s)
  BY LenProperties DEF IsChain
<1>2. PICK low \in Nat \ {0} : low = Low
  BY LowProperties
<1>3. PICK m \in Nat : m = n + 1 - low
  <2>1. low <= n + 1
    BY <1>1, <1>2
  <2>2. n + 1 - low \in Nat
    BY <2>1
  <2> QED
    BY <2>2
<1>4. PICK g \in {0, 1} : g = IF m + 1 > MemoryLimit THEN 1 ELSE 0
  OBVIOUS
<1>5. peak' = IF n + 1 > peak THEN n + 1 ELSE peak
  BY <1>1 DEF Push
<1>6. m <= MemoryLimit /\ Low' = low + g
  BY <1>1, <1>2, <1>3, <1>4, <1>5, PushLow
<1>7. g <= m
  BY <1>3, <1>4, <1>6, LimitsAssumption
<1>8. /\ memory \in Seq(Block) /\ Len(memory) = m
      /\ \A i \in 1..m : memory[i] = s[low + i - 1]
      /\ ToSet(memory) = {s[h] : h \in low..n}
  <2>1. s \in Seq(Block) /\ memory = SubSeq(s, low, Len(s))
    BY <1>0, <1>2 DEF IsChain
  <2>2. /\ memory \in Seq(Block)
        /\ Len(memory) = IF low <= Len(s) THEN Len(s) - low + 1 ELSE 0
        /\ \A i \in 1..Len(memory) : memory[i] = s[low + i - 1]
    BY <2>1, EndElements
  <2>4. ToSet(memory) = {s[h] : h \in low..Len(s)}
    BY <2>1, EndSet
  <2>3. Len(memory) = m
    BY <1>1, <1>3, <2>2
  <2> QED
    BY <1>1, <2>2, <2>3, <2>4
<1>9. PICK app : app = Append(memory, b)
  OBVIOUS
<1>10. /\ app \in Seq(Block) /\ Len(app) = m + 1
       /\ \A i \in 1..m : app[i] = memory[i]
       /\ app[m + 1] = b
  BY <1>8, <1>9, AppendProperties
<1>11. \A i \in 1..m + 1 : app[i] = t[low + i - 1]
  <2> TAKE i \in 1..m + 1
  <2>1. CASE i = m + 1
    BY <1>1, <1>3, <1>10, <2>1
  <2>2. CASE i # m + 1
    <3>1. i \in 1..m /\ low + i - 1 \in 1..n
      BY <1>3, <2>2
    <3> QED
      BY <1>1, <1>8, <1>10, <3>1
  <2> QED
    BY <2>1, <2>2
<1>12. ToSet(Evicted(b)) = {t[h] : h \in low..low + g - 1} /\ Len(Evicted(b)) = g
  <2>1. CASE g = 1
    <3>1. Evicted(b) = SubSeq(app, 1, 1)
      BY <1>4, <1>6, <1>8, <1>9, <1>10, <2>1, LimitsAssumption DEF Evicted
    <3>2. /\ SubSeq(app, 1, 1) \in Seq(Block) /\ Len(SubSeq(app, 1, 1)) = 1
          /\ SubSeq(app, 1, 1)[1] = app[1]
      BY <1>10, Slice
    <3>3. ToSet(Evicted(b)) = {app[1]}
      BY <3>1, <3>2, LenProperties DEF ToSet
    <3>4. app[1] = t[low]
      BY <1>11
    <3> QED
      BY <2>1, <3>1, <3>2, <3>3, <3>4
  <2>2. CASE g = 0
    <3>1. Evicted(b) = <<>>
      BY <1>4, <1>9, <1>10, <2>2, LimitsAssumption DEF Evicted
    <3> QED
      BY <2>2, <3>1, EmptySeq DEF ToSet
  <2> QED
    BY <2>1, <2>2
<1>13. memory' = SubSeq(app, g + 1, m + 1)
  BY <1>8, <1>9, <1>12 DEF Push
<1>14. PICK u : u = SubSeq(app, g + 1, m + 1)
  OBVIOUS
<1>15. /\ u \in Seq(Block) /\ Len(u) = m + 1 - g
       /\ \A i \in 1..m + 1 - g : u[i] = app[g + i]
  <2>1. PICK k \in Nat \ {0}, l \in Nat : k = g + 1 /\ l = m + 1
    OBVIOUS
  <2>2. u = SubSeq(app, k, l) /\ k <= l /\ l <= Len(app)
    BY <1>7, <1>10, <1>14, <2>1
  <2>3. /\ u \in Seq(Block) /\ Len(u) = l - k + 1
        /\ \A i \in 1..l - k + 1 : u[i] = app[k + i - 1]
    BY <1>10, <2>2, Slice
  <2> QED
    BY <2>1, <2>3
<1>16. PICK v : v = SubSeq(t, low + g, n + 1)
  OBVIOUS
<1>17. /\ v \in Seq(Block) /\ Len(v) = m + 1 - g
       /\ \A i \in 1..m + 1 - g : v[i] = t[low + g + i - 1]
       /\ ToSet(v) = {t[h] : h \in low + g..n + 1}
  <2>0. PICK k \in Nat \ {0} : k = low + g
    OBVIOUS
  <2>1. t \in Seq(Block) /\ n + 1 = Len(t)
    BY <1>1 DEF IsChain
  <2>2. v = SubSeq(t, k, Len(t))
    BY <1>16, <2>0, <2>1
  <2>3. /\ v \in Seq(Block)
        /\ Len(v) = IF k <= Len(t) THEN Len(t) - k + 1 ELSE 0
        /\ \A i \in 1..Len(v) : v[i] = t[k + i - 1]
    BY <2>1, <2>2, EndElements
  <2>5. ToSet(v) = {t[h] : h \in k..Len(t)}
    BY <2>1, <2>2, EndSet
  <2>4. Len(v) = m + 1 - g
    BY <1>3, <1>7, <2>0, <2>1, <2>3
  <2> QED
    BY <2>0, <2>1, <2>3, <2>4, <2>5
<1>18. u = v
  <2>1. ASSUME NEW i \in 1..m + 1 - g PROVE u[i] = v[i]
    <3>1. g + i \in 1..m + 1
      BY <1>7
    <3>2. low + (g + i) - 1 = low + g + i - 1
      OBVIOUS
    <3> QED
      BY <1>11, <1>15, <1>17, <3>1, <3>2, ZenonT(30)
  <2> QED
    BY <1>15, <1>17, <2>1, SeqEqual
<1>19. memory' = SubSeq(t, Low', Len(t))
  BY <1>1, <1>6, <1>13, <1>14, <1>16, <1>18
<1>20. byHeight' = [h \in Low'..Len(t) |-> t[h]]
  <2>1. \A h \in low..n + 1 : t[h].height = h
    BY <1>1 DEF IsChain
  <2>2. {c.height : c \in ToSet(Evicted(b))} = low..low + g - 1
    <3>1. PICK A, B : A = ToSet(Evicted(b)) /\ B = low..low + g - 1
      OBVIOUS
    <3>2. A = {t[h] : h \in B}
      BY <1>12, <3>1
    <3>3. \A h \in B : h \in low..n + 1
      BY <1>3, <1>7, <3>1
    <3>4. \A h \in B : t[h].height = h
      BY <2>1, <3>3
    <3>5. {c.height : c \in A} = B
      BY <3>2, <3>4
    <3> QED
      BY <3>1, <3>5
  <2>3. (DOMAIN byHeight \cup {b.height}) \ {c.height : c \in ToSet(Evicted(b))}
          = low + g..n + 1
    BY <1>0, <1>1, <1>2, <1>3, <1>7, <2>2
  <2>4. \A h \in low + g..n + 1 :
           (IF h = b.height THEN b ELSE byHeight[h]) = t[h]
    BY <1>0, <1>1, <1>2
  <2> QED
    BY <1>1, <1>6, <2>3, <2>4 DEF Push
<1>21. byId' = {c.id : c \in ToSet(memory')}
  <2>2. {c.id : c \in ToSet(memory)} = {s[h].id : h \in low..n}
    <3>1. PICK A : A = low..n
      OBVIOUS
    <3>2. PICK B : B = ToSet(memory)
      OBVIOUS
    <3>3. {c.id : c \in B} = {s[h].id : h \in A}
      <4>1. B = {s[h] : h \in A}
        BY <1>8, <3>1, <3>2
      <4> QED
        BY <4>1, IdsOf
    <3> QED
      BY <3>1, <3>2, <3>3
  <2>3. byId \cup {b.id} = {t[h].id : h \in low..n + 1}
    <3>1. low..n + 1 = (low..n) \cup {n + 1} /\ \A h \in low..n : h \in 1..n
      BY <1>3
    <3>2. t[n + 1].id = b.id /\ \A h \in low..n : t[h].id = s[h].id
      BY <1>1, <3>1
    <3>3. byId = {s[h].id : h \in low..n}
      BY <1>0, <2>2
    <3>4. PICK A : A = low..n
      OBVIOUS
    <3>5. PICK C, k : C = A \cup {k} /\ k = n + 1
      OBVIOUS
    <3>6. \A h \in A : t[h].id = s[h].id
      BY <3>2, <3>4
    <3>7. {t[h].id : h \in C} = {s[h].id : h \in A} \cup {t[k].id}
      BY <3>5, <3>6
    <3> QED
      BY <3>1, <3>2, <3>3, <3>4, <3>5, <3>7
  <2>4. {c.id : c \in ToSet(Evicted(b))} = {t[h].id : h \in low..low + g - 1}
    <3>1. PICK A : A = low..low + g - 1
      OBVIOUS
    <3>2. PICK B : B = ToSet(Evicted(b))
      OBVIOUS
    <3>3. {c.id : c \in B} = {t[h].id : h \in A}
      <4>1. B = {t[h] : h \in A}
        BY <1>12, <3>1, <3>2
      <4> QED
        BY <4>1, IdsOf
    <3> QED
      BY <3>1, <3>2, <3>3
  <2>5. byId' = (byId \cup {b.id}) \ {c.id : c \in ToSet(Evicted(b))}
    BY DEF Push
  <2>6. low..low + g - 1 \subseteq low..n + 1
    BY <1>3, <1>7
  <2>7. \A h, k \in low..n + 1 : t[h].id = t[k].id => h = k
    BY <1>1 DEF IsChain
  <2>8. byId' = {t[h].id : h \in (low..n + 1) \ (low..low + g - 1)}
    <3>1. PICK A : A = low..n + 1
      OBVIOUS
    <3>2. PICK B : B = low..low + g - 1
      OBVIOUS
    <3>3. B \subseteq A /\ \A h, k \in A : t[h].id = t[k].id => h = k
      BY <2>6, <2>7, <3>1, <3>2
    <3>4. {t[h].id : h \in A} \ {t[h].id : h \in B} = {t[h].id : h \in A \ B}
      BY <3>3, IdsWithout
    <3> QED
      BY <2>3, <2>4, <2>5, <3>1, <3>2, <3>4
  <2>9. (low..n + 1) \ (low..low + g - 1) = low + g..n + 1
    BY <1>3, <1>7
  <2>10. byId' = {t[h].id : h \in low + g..n + 1}
    BY <2>8, <2>9
  <2>11. ToSet(memory') = {t[h] : h \in low + g..n + 1}
    BY <1>13, <1>14, <1>17, <1>18
  <2> QED
    BY <2>10, <2>11, IdsOf
<1>22. CleansUp(t, b)
  BY <1>1, <1>2, <1>3, <1>6, <1>7, <1>12 DEF CleansUp
<1> QED
  BY <1>1, <1>5, <1>19, <1>20, <1>21, <1>22 DEF Window

\* getLast, the block that a new one follows and that deletion begins with, is
\* the last one of the chain, when memory has any.
LEMMA LastInMemory ==
  ASSUME NEW s \in Seq(Block), NEW low \in Nat \ {0},
         memory = SubSeq(s, low, Len(s)), memory # <<>>
  PROVE  low <= Len(s) /\ Len(s) \in Nat \ {0} /\ Last(memory) = s[Len(s)]
<1>1. /\ memory \in Seq(Block)
      /\ Len(memory) = IF low <= Len(s) THEN Len(s) - low + 1 ELSE 0
      /\ \A i \in 1..Len(memory) : memory[i] = s[low + i - 1]
  BY EndElements
<1>2. Len(memory) \in Nat \ {0} /\ Len(s) \in Nat
  BY <1>1, EmptySeq, LenProperties
<1>3. low <= Len(s) /\ Len(memory) = Len(s) - low + 1
  BY <1>1, <1>2
<1>4. Len(memory) \in 1..Len(memory) /\ low + Len(memory) - 1 = Len(s)
  BY <1>2, <1>3
<1> QED
  BY <1>1, <1>2, <1>3, <1>4 DEF Last

\* The chain s without its last block is t, and popLast makes memory the end of t.
LEMMA PopWindow ==
  ASSUME NEW s, IsChain(s), NEW t, IsChain(t), Len(s) = Len(t) + 1,
         \A h \in 1..Len(t) : t[h] = s[h],
         peak \in Nat, Len(s) <= peak, memory # <<>>,
         Window(s), Pop
  PROVE  /\ Window(t)'
         /\ peak' \in Nat /\ Len(t) <= peak'
<1>0. /\ memory = SubSeq(s, Low, Len(s))
      /\ byHeight = [h \in Low..Len(s) |-> s[h]]
      /\ byId = {c.id : c \in ToSet(memory)}
  BY DEF Window
<1>1. PICK n \in Nat : n = Len(t)
  BY LenProperties DEF IsChain
<1>2. PICK low \in Nat \ {0} : low = Low
  BY LowProperties
<1>3. peak' = peak /\ Low' = low
  BY <1>2 DEF Pop, Low
<1>4. s \in Seq(Block) /\ t \in Seq(Block) /\ memory = SubSeq(s, low, Len(s))
  BY <1>0, <1>2 DEF IsChain
<1>5. low <= n + 1 /\ Last(memory) = s[n + 1] /\ s[n + 1].height = n + 1
  <2>1. low <= Len(s) /\ Len(s) \in Nat \ {0} /\ Last(memory) = s[Len(s)]
    BY <1>4, LastInMemory
  <2> QED
    BY <1>1, <2>1 DEF IsChain
<1>6. /\ memory \in Seq(Block) /\ Len(memory) = n - low + 2
      /\ \A i \in 1..n - low + 2 : memory[i] = s[low + i - 1]
  <2>1. /\ memory \in Seq(Block)
        /\ Len(memory) = IF low <= Len(s) THEN Len(s) - low + 1 ELSE 0
        /\ \A i \in 1..Len(memory) : memory[i] = s[low + i - 1]
    <3>1. PICK m : m = memory
      OBVIOUS
    <3>2. m = SubSeq(s, low, Len(s))
      BY <1>4, <3>1
    <3>3. /\ m \in Seq(Block)
          /\ Len(m) = IF low <= Len(s) THEN Len(s) - low + 1 ELSE 0
          /\ \A i \in 1..Len(m) : m[i] = s[low + i - 1]
      BY <1>4, <3>2, EndElements
    <3> QED
      BY <3>1, <3>3
  <2>2. Len(memory) = n - low + 2
    BY <1>1, <1>5, <2>1
  <2> QED
    BY <2>1, <2>2
<1>7. PICK u : u = Front(memory)
  OBVIOUS
<1>8. /\ u \in Seq(Block) /\ Len(u) = n - low + 1
      /\ \A i \in 1..n - low + 1 : u[i] = s[low + i - 1]
  <2>1. /\ u \in Seq(Block) /\ Len(u) = Len(memory) - 1
        /\ \A i \in 1..Len(memory) - 1 : u[i] = memory[i]
    <3>1. memory \in Seq(Block) /\ memory # <<>>
      BY <1>6
    <3> QED
      BY <1>7, <3>1, FrontElements
  <2>2. Len(u) = n - low + 1
    BY <1>5, <1>6, <2>1
  <2>3. ASSUME NEW i \in 1..n - low + 1 PROVE u[i] = s[low + i - 1]
    <3>1. i \in 1..Len(memory) - 1 /\ i \in 1..n - low + 2
      BY <1>5, <1>6
    <3> QED
      BY <1>6, <2>1, <3>1
  <2> QED
    BY <2>1, <2>2, <2>3
<1>9. PICK v : v = SubSeq(t, low, n)
  OBVIOUS
<1>10. /\ v \in Seq(Block) /\ Len(v) = n - low + 1
       /\ \A i \in 1..n - low + 1 : v[i] = t[low + i - 1]
  <2>1. /\ v \in Seq(Block)
        /\ Len(v) = IF low <= Len(t) THEN Len(t) - low + 1 ELSE 0
        /\ \A i \in 1..Len(v) : v[i] = t[low + i - 1]
    BY <1>1, <1>4, <1>9, EndElements
  <2>2. Len(v) = n - low + 1
    BY <1>1, <1>5, <2>1
  <2> QED
    BY <2>1, <2>2
<1>11. u = v
  <2>1. ASSUME NEW i \in 1..n - low + 1 PROVE u[i] = v[i]
    <3>1. low + i - 1 \in 1..n
      BY <1>5
    <3> QED
      BY <1>1, <1>8, <1>10, <3>1
  <2> QED
    BY <1>8, <1>10, <2>1, SeqEqual
<1>12. memory' = SubSeq(t, Low', Len(t))
  BY <1>1, <1>3, <1>7, <1>9, <1>11 DEF Pop
<1>13. byHeight' = [h \in Low'..Len(t) |-> t[h]]
  <2>1. DOMAIN byHeight \ {Last(memory).height} = low..n
    BY <1>0, <1>1, <1>2, <1>5
  <2>2. \A h \in low..n : byHeight[h] = t[h]
    BY <1>0, <1>1, <1>2, <1>5
  <2> QED
    BY <1>1, <1>3, <2>1, <2>2 DEF Pop, Without
<1>14. byId' = {c.id : c \in ToSet(memory')}
  <2>1. ToSet(memory) = {s[h] : h \in low..n + 1}
    BY <1>1, <1>4, EndSet
  <2>2. byId = {s[h].id : h \in low..n + 1}
    BY <1>0, <2>1, IdsOf
  <2>3. PICK A : A = low..n + 1
    OBVIOUS
  <2>4. PICK B : B = {n + 1}
    OBVIOUS
  <2>5. B \subseteq A /\ \A h, k \in A : s[h].id = s[k].id => h = k
    BY <1>1, <1>5, <2>3, <2>4 DEF IsChain
  <2>6. {s[h].id : h \in A} \ {s[h].id : h \in B} = {s[h].id : h \in A \ B}
    BY <2>5, IdsWithout
  <2>7. A \ B = low..n /\ {s[h].id : h \in B} = {Last(memory).id}
    BY <1>5, <2>3, <2>4
  <2>8. byId' = {s[h].id : h \in low..n}
    BY <2>2, <2>3, <2>6, <2>7 DEF Pop
  <2>9. ToSet(memory') = {t[h] : h \in low..n}
    BY <1>1, <1>3, <1>4, <1>12, EndSet
  <2>10. {c.id : c \in ToSet(memory')} = {t[h].id : h \in low..n}
    BY <2>9, IdsOf
  <2>11. \A h \in low..n : t[h].id = s[h].id
    BY <1>1
  <2> QED
    BY <2>8, <2>10, <2>11
<1> QED
  BY <1>1, <1>3, <1>12, <1>13, <1>14 DEF Window

-----------------------------------------------------------------------------
(* The chain the code knows, and the steps.                                *)

\* The table without its last block, and the table again.
LEMMA TableWithoutLast ==
  ASSUME TableOK, NEW b \in Block, Len(table) >= 2, table[Len(table)] = b,
         NEW t, t = Without(table, {h \in DOMAIN table : table[h].id = b.id})
  PROVE  /\ t \in Seq(Block) /\ t # <<>> /\ Len(t) = Len(table) - 1
         /\ \A h \in 1..Len(t) : t[h] = table[h]
         /\ Append(t, b) = table
<1>1. table \in Seq(Block) /\ DOMAIN table = 1..Len(table)
  BY LenProperties DEF TableOK
<1>2. PICK n \in Nat \ {0} : Len(table) = n + 1
  <2>1. Len(table) \in Nat /\ Len(table) - 1 \in Nat \ {0}
    BY <1>1, LenProperties
  <2> QED
    BY <2>1
<1>3. {h \in DOMAIN table : table[h].id = b.id} = {n + 1}
  BY <1>1, <1>2 DEF TableOK
<1>4. t = [h \in 1..n |-> table[h]]
  <2>1. (1..n + 1) \ {n + 1} = 1..n
    OBVIOUS
  <2> QED
    BY <1>1, <1>2, <1>3, <2>1 DEF Without
<1>5. \A h \in 1..n : table[h] \in Block
  BY <1>1, <1>2, ElementOfSeq
<1>6. t \in [1..n -> Block]
  BY <1>4, <1>5
<1>7. t \in Seq(Block) /\ Len(t) = n
  BY <1>6, FunctionIsSeq
<1>8. t # <<>>
  BY <1>7, EmptySeq
<1>9. PICK u : u = Append(t, b)
  OBVIOUS
<1>10. /\ u \in Seq(Block) /\ Len(u) = n + 1
       /\ \A i \in 1..n : u[i] = t[i]
       /\ u[n + 1] = b
  <2>1. /\ Append(t, b) \in Seq(Block) /\ Len(Append(t, b)) = Len(t) + 1
        /\ \A i \in 1..Len(t) : Append(t, b)[i] = t[i]
        /\ Append(t, b)[Len(t) + 1] = b
    BY <1>7, AppendProperties
  <2> QED
    BY <1>7, <1>9, <2>1
<1>11. \A i \in 1..n + 1 : u[i] = table[i]
  <2> TAKE i \in 1..n + 1
  <2>1. CASE i = n + 1
    BY <1>2, <1>10, <2>1
  <2>2. CASE i # n + 1
    BY <1>4, <1>10, <2>2
  <2> QED
    BY <2>1, <2>2
<1>12. u = table
  BY <1>1, <1>2, <1>10, <1>11, SeqEqual
<1> QED
  <2>1. Len(table) - 1 = n
    BY <1>2
  <2>2. \A h \in 1..n : t[h] = table[h]
    BY <1>4
  <2> QED
    BY <1>7, <1>8, <1>9, <1>12, <2>1, <2>2

\* A chain with one more block is a chain.
LEMMA LongerChain ==
  ASSUME TableOK, NEW b \in Block, FitsTable(b), NEW t, t = Append(table, b)
  PROVE  /\ IsChain(t) /\ Len(t) = Len(table) + 1 /\ Len(table) \in Nat \ {0}
         /\ t # <<>> /\ t[Len(table) + 1] = b
         /\ \A h \in 1..Len(table) : t[h] = table[h]
<1>1. PICK n \in Nat \ {0} : n = Len(table)
  BY EmptySeq DEF TableOK
<1>2. /\ t \in Seq(Block) /\ Len(t) = n + 1 /\ t # <<>> /\ t[n + 1] = b
      /\ \A h \in 1..n : t[h] = table[h]
  BY <1>1, AppendProperties DEF TableOK
<1>3. 1..n + 1 = (1..n) \cup {n + 1}
  OBVIOUS
<1>4. \A h \in 1..n + 1 : t[h].height = h
  BY <1>1, <1>2, <1>3 DEF TableOK, FitsTable
<1>5. \A h, k \in 1..n + 1 : t[h].id = t[k].id => h = k
  BY <1>1, <1>2, <1>3 DEF TableOK, FitsTable
<1> QED
  BY <1>1, <1>2, <1>4, <1>5 DEF IsChain

\* The beginning of the table is a chain.
LEMMA ShorterChain ==
  ASSUME TableOK, NEW n \in Nat, n <= Len(table), NEW t, t = SubSeq(table, 1, n)
  PROVE  /\ IsChain(t) /\ Len(t) = n
         /\ \A h \in 1..n : t[h] = table[h]
<1>1. table \in Seq(Block) /\ Len(table) \in Nat
  BY LenProperties DEF TableOK
<1>2. /\ t \in Seq(Block) /\ Len(t) = IF 1 <= n THEN n - 1 + 1 ELSE 0
      /\ \A h \in 1..n - 1 + 1 : t[h] = table[1 + h - 1]
  BY <1>1, Slice
<1>3. Len(t) = n
  BY <1>2
<1>4. ASSUME NEW h \in 1..n PROVE t[h] = table[h] /\ h \in 1..Len(table)
  <2>1. h \in 1..n - 1 + 1 /\ 1 + h - 1 = h
    OBVIOUS
  <2> QED
    BY <1>1, <1>2, <2>1
<1> QED
  BY <1>2, <1>3, <1>4 DEF IsChain, TableOK

\* What Known is, in the states of the main task.
LEMMA KnownCases ==
  ASSUME Base
  PROVE  /\ running /\ ~(task.op # "none" /\ task.done) => Known = table
         /\ task.op = "save" /\ task.done => Known = SubSeq(table, 1, Len(table) - 1)
         /\ task.op = "delete" /\ task.done => Known = Append(table, task.block)
         /\ ~running => Known = SubSeq(table, 1, loaded)
BY DEF Base, TaskOK, CountersOK, Known, Front

\* It is a chain.
LEMMA KnownChain == Base => IsChain(Known)
<1> SUFFICES ASSUME Base PROVE IsChain(Known)
  OBVIOUS
<1>1. TableOK /\ TaskOK /\ CountersOK /\ Len(table) \in Nat \ {0}
  BY EmptySeq DEF Base, TableOK
<1>2. CASE ~running
  <2>1. loaded \in Nat /\ loaded <= Len(table) /\ Known = SubSeq(table, 1, loaded)
    BY <1>1, <1>2, KnownCases DEF CountersOK
  <2> QED
    BY <1>1, <2>1, ShorterChain
<1>3. CASE task.op = "save" /\ task.done
  <2>1. PICK n \in Nat : n = Len(table) - 1
    BY <1>1
  <2>2. n <= Len(table) /\ Known = SubSeq(table, 1, n)
    BY <1>1, <1>3, <2>1, KnownCases
  <2> QED
    BY <1>1, <2>2, ShorterChain
<1>4. CASE task.op = "delete" /\ task.done
  <2>1. Known = Append(table, task.block) /\ FitsTable(task.block) /\ task.block \in Block
    BY <1>1, <1>4, KnownCases DEF TaskOK
  <2> QED
    BY <1>1, <2>1, LongerChain
<1>5. CASE running /\ ~(task.op # "none" /\ task.done)
  <2>1. Known = table
    BY <1>5, KnownCases
  <2> QED
    BY <1>1, <2>1 DEF TableOK, IsChain
<1> QED
  BY <1>1, <1>2, <1>3, <1>4, <1>5 DEF TaskOK

\* The chain t is the chain s and the block b.
OneMore(s, t, b) ==
    /\ IsChain(s) /\ IsChain(t)
    /\ b \in Block /\ b.height = Len(s) + 1
    /\ Len(t) = Len(s) + 1 /\ t[Len(s) + 1] = b
    /\ \A h \in 1..Len(s) : t[h] = s[h]

\* The code learns of a saved or deleted block when its task goes on.
LEMMA ContinueMoves ==
  ASSUME Base, Continue
  PROVE  /\ Known' = table
         /\ task.op \in {"save", "delete"}
         /\ task.op = "save" => Push(task.block) /\ OneMore(Known, table, task.block)
         /\ task.op = "delete" => Pop /\ OneMore(table, Known, task.block)
<1>1. TableOK /\ TaskOK /\ table \in Seq(Block) /\ Len(table) \in Nat \ {0}
  BY EmptySeq DEF Base, TableOK
<1>2. /\ task.op \in {"save", "delete"} /\ task.done /\ task.block \in Block
      /\ running /\ task' = NoTask /\ UNCHANGED <<table, running, loaded>>
  BY <1>1 DEF Continue, TaskOK
<1>3. Known' = table
  BY <1>2 DEF Known, NoTask
<1>4. IsChain(table) /\ IsChain(Known)
  BY <1>1, KnownChain DEF TableOK, IsChain
<1>5. PICK s : s = Known
  OBVIOUS
<1>6. PICK b \in Block : b = task.block
  BY <1>2
<1>7. ASSUME task.op = "save" PROVE Push(b) /\ OneMore(s, table, b)
  <2>1. Push(b)
    BY <1>6, <1>7 DEF Continue
  <2>2. PICK n \in Nat : n = Len(table) - 1
    BY <1>1
  <2>3. s = SubSeq(table, 1, n) /\ n <= Len(table) /\ Len(table) = n + 1
    BY <1>1, <1>2, <1>5, <1>7, <2>2, KnownCases
  <2>4. Len(s) = n /\ \A h \in 1..n : s[h] = table[h]
    BY <1>1, <2>3, ShorterChain
  <2>5. table[n + 1] = b /\ b.height = n + 1
    BY <1>1, <1>2, <1>6, <1>7, <2>3 DEF TaskOK, TableOK
  <2> QED
    BY <1>4, <1>5, <2>1, <2>3, <2>4, <2>5 DEF OneMore
<1>8. ASSUME task.op = "delete" PROVE Pop /\ OneMore(table, s, b)
  <2>1. Pop
    BY <1>2, <1>8 DEF Continue
  <2>2. FitsTable(b) /\ s = Append(table, b)
    BY <1>1, <1>2, <1>5, <1>6, <1>8, KnownCases DEF TaskOK
  <2>3. /\ Len(s) = Len(table) + 1 /\ s[Len(table) + 1] = b
        /\ \A h \in 1..Len(table) : s[h] = table[h]
    BY <1>1, <2>2, LongerChain
  <2> QED
    BY <1>4, <1>5, <2>1, <2>2, <2>3 DEF OneMore, FitsTable
<1> QED
  BY <1>2, <1>3, <1>5, <1>6, <1>7, <1>8

\* A starting node learns of the blocks one by one.
LEMMA LoadMoves ==
  ASSUME Base, Load
  PROVE  Push(table[loaded + 1]) /\ OneMore(Known, Known', table[loaded + 1])
<1>1. TableOK /\ TaskOK /\ CountersOK /\ table \in Seq(Block) /\ Len(table) \in Nat \ {0}
  BY EmptySeq DEF Base, TableOK
<1>2. /\ ~running /\ loaded \in Nat /\ loaded + 1 <= Len(table)
      /\ Push(table[loaded + 1]) /\ loaded' = loaded + 1 /\ UNCHANGED <<table, running>>
  BY <1>1 DEF Load, CountersOK
<1>3. PICK n \in Nat, k \in Nat : n = loaded /\ k = n + 1
  BY <1>2
<1>4. n <= Len(table) /\ k <= Len(table) /\ k \in 1..Len(table)
  BY <1>1, <1>2, <1>3
<1>5. PICK s, t : s = SubSeq(table, 1, n) /\ t = SubSeq(table, 1, k)
  OBVIOUS
<1>6. IsChain(s) /\ Len(s) = n /\ \A h \in 1..n : s[h] = table[h]
  BY <1>1, <1>4, <1>5, ShorterChain
<1>7. IsChain(t) /\ Len(t) = k /\ \A h \in 1..k : t[h] = table[h]
  BY <1>1, <1>4, <1>5, ShorterChain
<1>8. Known = s /\ Known' = t
  BY <1>2, <1>3, <1>5 DEF Known
<1>9. PICK b \in Block : b = table[k]
  BY <1>1, <1>4, ElementOfSeq
<1>10. b.height = k
  BY <1>1, <1>4, <1>9 DEF TableOK
<1>11. OneMore(s, t, b)
  BY <1>3, <1>6, <1>7, <1>9, <1>10 DEF OneMore
<1> QED
  BY <1>2, <1>3, <1>8, <1>9, <1>11

\* A step that neither touches memory nor changes the known chain.
LEMMA WindowStays ==
  ASSUME WindowIsTail, Known' = Known, UNCHANGED <<mem, peak>>
  PROVE  WindowIsTail'
BY DEF WindowIsTail, mem, Low

\* A node with the genesis block.
LEMMA IInvInit == Init => IInv
<1> SUFFICES ASSUME Init PROVE IInv
  OBVIOUS
<1>1. Genesis \in Block
  BY DEF Genesis, Block
<1>2. /\ table = <<Genesis>> /\ table \in Seq(Block) /\ Len(table) = 1
      /\ table[1] = Genesis /\ table # <<>>
  BY <1>1 DEF Init
<1>3. TableOK
  BY <1>2 DEF Init, TableOK, Genesis
<1>4. TaskOK
  BY <1>1 DEF Init, TaskOK, NoTask
<1>5. Known = table
  BY DEF Init, Known, NoTask
<1>6. CountersOK
  BY <1>2, <1>5 DEF Init, CountersOK
<1>7. Low = 1
  BY LimitsAssumption DEF Init, Low
<1>8. memory = SubSeq(Known, Low, Len(Known))
  BY <1>2, <1>5, <1>7, SubSeqFull DEF Init
<1>9. byHeight = [h \in Low..Len(Known) |-> Known[h]]
  BY <1>2, <1>5, <1>7 DEF Init
<1>10. byId = {b.id : b \in ToSet(memory)}
  <2>1. ToSet(memory) = {Genesis}
    BY <1>2 DEF Init, ToSet
  <2> QED
    BY <2>1 DEF Init, Genesis
<1> QED
  BY <1>3, <1>4, <1>6, <1>8, <1>9, <1>10 DEF IInv, Base, WindowIsTail

\* The code knows the same chain as before, and memory is as it was.
KnownStays == Known' = Known /\ UNCHANGED <<mem, peak>>

\* No step breaks the invariant, and what the code knows changes in three steps
\* only.
LEMMA EveryStep ==
  IInv /\ [Next]_vars => IInv' /\ (KnownStays \/ Continue \/ Load \/ Crash)
<1> SUFFICES ASSUME IInv, [Next]_vars
             PROVE  IInv' /\ (KnownStays \/ Continue \/ Load \/ Crash)
  OBVIOUS
<1>1. TableOK /\ TaskOK /\ CountersOK /\ WindowIsTail /\ Base
  BY DEF IInv, Base
<1>2. table \in Seq(Block) /\ Len(table) \in Nat \ {0}
  BY <1>1, EmptySeq DEF TableOK
<1>3. IsChain(Known) /\ Len(Known) \in Nat /\ Low \in Nat \ {0}
  BY <1>1, KnownChain, LowProperties, LenProperties DEF IsChain, CountersOK
<1>4. memory # <<>> => Low <= Len(Known) /\ Last(memory) = Known[Len(Known)]
  <2>1. Known \in Seq(Block) /\ memory = SubSeq(Known, Low, Len(Known))
    BY <1>1, <1>3 DEF IsChain, WindowIsTail
  <2> QED
    BY <1>3, <2>1, LastInMemory
<1>5. running /\ task = NoTask => Known = table
  BY <1>1, KnownCases DEF NoTask
<1>6. ASSUME Known' = Known, UNCHANGED <<mem, peak>>, TableOK', TaskOK',
             running' \in BOOLEAN, loaded' \in Nat, ids' \in Nat,
             ~running' => task' = NoTask /\ loaded' <= Len(table') /\ peak' = loaded'
      PROVE  IInv' /\ KnownStays
  BY <1>1, <1>6, WindowStays DEF IInv, Base, CountersOK, KnownStays
<1>7. ASSUME NEW trs \in SUBSET Transactions, Save(trs) PROVE IInv' /\ KnownStays
  <2>1. PICK b : b = [id |-> ids + 1, height |-> Last(memory).height + 1,
                      previous |-> Last(memory).id, trs |-> trs]
    OBVIOUS
  <2>2. Known = table /\ memory # <<>> /\ Last(memory) = table[Len(table)]
    BY <1>4, <1>5, <1>7 DEF Save
  <2>3. Last(memory) \in Block /\ Last(memory).height = Len(table)
    BY <1>1, <1>2, <2>2, ElementOfSeq DEF TableOK
  <2>4. b \in Block /\ b.height = Len(table) + 1 /\ b.id = ids + 1
    BY <1>1, <2>1, <2>3 DEF Block, CountersOK
  <2>5. task' = [op |-> "save", done |-> FALSE, block |-> b] /\ ids' = ids + 1
    BY <1>7, <2>1 DEF Save
  <2>6. UNCHANGED <<table, mem, running, loaded, peak>> /\ running
    BY <1>7 DEF Save
  <2>7. Known' = Known
    BY <2>2, <2>5, <2>6 DEF Known
  <2>8. \A h \in 1..Len(table) : table[h].id <= ids /\ table[h].id <= ids + 1
                                 /\ table[h].id # ids + 1
    <3>1. \A h \in 1..Len(table) : table[h] \in Block
      BY <1>2, ElementOfSeq
    <3>2. \A h \in 1..Len(table) : table[h].id \in Nat /\ table[h].id <= ids
      BY <1>1, <3>1 DEF TableOK, Block
    <3> QED
      BY <1>1, <3>2 DEF CountersOK
  <2>9. TableOK'
    BY <1>1, <2>5, <2>6, <2>8 DEF TableOK
  <2>10. FitsTable(b)'
    BY <1>1, <2>4, <2>5, <2>6, <2>8 DEF FitsTable, CountersOK
  <2>11. TaskOK'
    BY <2>2, <2>4, <2>5, <2>6, <2>10 DEF TaskOK, mem
  <2> QED
    BY <1>1, <1>6, <2>5, <2>6, <2>7, <2>9, <2>11 DEF CountersOK
<1>8. CASE Delete
  <2>1. Known = table /\ memory # <<>> /\ Last(memory) = table[Len(table)]
    BY <1>4, <1>5, <1>8 DEF Delete
  <2>2. Last(memory) \in Block /\ Last(memory).height = Len(table)
    BY <1>1, <1>2, <2>1, ElementOfSeq DEF TableOK
  <2>3. task' = [op |-> "delete", done |-> FALSE, block |-> Last(memory)]
    BY <1>8 DEF Delete
  <2>4. UNCHANGED <<table, mem, running, loaded, ids, peak>> /\ running
    BY <1>8 DEF Delete
  <2>5. Len(table) >= 2
    BY <1>2, <1>8, <2>2 DEF Delete
  <2>6. Known' = Known
    BY <2>1, <2>3, <2>4 DEF Known
  <2>7. TableOK'
    BY <1>1, <2>4 DEF TableOK
  <2>8. TaskOK'
    BY <1>1, <2>1, <2>2, <2>3, <2>4, <2>5 DEF TaskOK, mem
  <2> QED
    BY <1>1, <1>6, <2>3, <2>4, <2>6, <2>7, <2>8 DEF CountersOK
<1>9. CASE Commit
  <2>1. /\ task' = [task EXCEPT !.done = TRUE] /\ task.op \in {"save", "delete"}
        /\ ~task.done /\ task.block \in Block /\ running /\ memory # <<>>
        /\ UNCHANGED <<mem, running, loaded, ids, peak>>
        /\ task' \in [op : {"none", "save", "delete"}, done : BOOLEAN, block : Block]
        /\ task'.op = task.op /\ task'.done /\ task'.block = task.block
    BY <1>1, <1>9 DEF Commit, TaskOK
  <2>2. Known = table
    BY <1>1, <2>1, KnownCases
  <2>3. CASE task.op = "save"
    <3>1. FitsTable(task.block) /\ table' = Append(table, task.block)
      BY <1>1, <1>9, <2>1, <2>3 DEF Commit, TaskOK
    <3>2. PICK t : t = table'
      OBVIOUS
    <3>3. /\ IsChain(t) /\ Len(t) = Len(table) + 1 /\ t # <<>>
          /\ t[Len(table) + 1] = task.block
          /\ \A h \in 1..Len(table) : t[h] = table[h]
      <4>1. PICK b \in Block : b = task.block
        BY <2>1
      <4>2. TableOK /\ FitsTable(b) /\ t = Append(table, b)
        BY <1>1, <3>1, <3>2, <4>1
      <4>3. /\ IsChain(t) /\ Len(t) = Len(table) + 1 /\ t # <<>>
            /\ t[Len(table) + 1] = b
            /\ \A h \in 1..Len(table) : t[h] = table[h]
        BY <4>2, LongerChain, ZenonT(30)
      <4> QED
        BY <4>1, <4>3
    <3>4. Known' = Known
      BY <1>2, <2>1, <2>2, <2>3, <3>1, FrontOfAppend DEF Known
    <3>5. \A h \in 1..Len(t) : t[h].id <= ids
      BY <1>1, <1>2, <3>1, <3>3 DEF TableOK, FitsTable
    <3>6. TableOK'
      BY <2>1, <3>2, <3>3, <3>5 DEF TableOK, IsChain
    <3>7. Len(table') >= 2 /\ table'[Len(table')] = task'.block
      BY <1>2, <2>1, <3>2, <3>3
    <3>8. TaskOK'
      BY <2>1, <2>3, <3>7 DEF TaskOK, mem
    <3> QED
      BY <1>1, <1>6, <2>1, <3>4, <3>6, <3>8 DEF CountersOK
  <2>4. CASE task.op = "delete"
    <3>1. /\ Len(table) >= 2 /\ table[Len(table)] = task.block
          /\ table' = Without(table, {h \in DOMAIN table : table[h].id = task.block.id})
      BY <1>1, <1>9, <2>1, <2>4 DEF Commit, TaskOK
    <3>2. /\ table' \in Seq(Block) /\ table' # <<>> /\ Len(table') = Len(table) - 1
          /\ \A h \in 1..Len(table') : table'[h] = table[h]
          /\ Append(table', task.block) = table
      BY <1>1, <2>1, <3>1, TableWithoutLast
    <3>3. Known' = Known
      BY <2>1, <2>2, <2>4, <3>2 DEF Known
    <3>4. \A h \in 1..Len(table') : h \in 1..Len(table) /\ h # Len(table)
      BY <1>2, <3>2
    <3>5. TableOK'
      BY <1>1, <2>1, <3>2, <3>4 DEF TableOK
    <3>6. /\ task.block.height = Len(table') + 1 /\ task.block.id <= ids
          /\ \A h \in 1..Len(table') : table'[h].id # task.block.id
      <4>1. PICK n \in Nat, b \in Block : n = Len(table) /\ b = task.block
        BY <1>2, <2>1
      <4>2. /\ n \in 1..n /\ table[n] = b /\ Len(table') = n - 1
            /\ \A h \in 1..Len(table') : h \in 1..n /\ h # n /\ table'[h] = table[h]
        BY <3>1, <3>2, <3>4, <4>1
      <4>3. /\ \A h \in 1..n : table[h].height = h /\ table[h].id <= ids
            /\ \A h, k \in 1..n : table[h].id = table[k].id => h = k
        BY <1>1, <4>1 DEF TableOK
      <4>4. b.height = n /\ b.id <= ids /\ Len(table') + 1 = n
        BY <4>2, <4>3
      <4>5. \A h \in 1..Len(table') : table'[h].id # b.id
        BY <4>2, <4>3
      <4> QED
        BY <4>1, <4>4, <4>5
    <3>7. FitsTable(task.block)'
      BY <2>1, <3>6 DEF FitsTable
    <3>8. TaskOK'
      BY <2>1, <2>4, <3>6 DEF TaskOK, FitsTable, mem
    <3> QED
      BY <1>1, <1>6, <2>1, <3>3, <3>5, <3>8 DEF CountersOK
  <2> QED
    BY <2>1, <2>3, <2>4
<1>10. CASE CommitFails
  <2>1. /\ task.op # "none" /\ ~task.done /\ task' = NoTask /\ running
        /\ UNCHANGED <<table, mem, running, loaded, ids, peak>>
    BY <1>1, <1>10 DEF CommitFails, TaskOK
  <2>2. Known' = Known
    BY <1>1, <2>1, KnownCases DEF Known, NoTask
  <2>3. TableOK'
    BY <1>1, <2>1 DEF TableOK
  <2>4. TaskOK'
    BY <2>1 DEF TaskOK, NoTask, Genesis, Block
  <2> QED
    BY <1>1, <1>6, <2>1, <2>2, <2>3, <2>4 DEF CountersOK
<1>11. CASE Continue
  <2>1. /\ task.op \in {"save", "delete"} /\ task.done /\ task.block \in Block
        /\ running /\ memory # <<>> /\ task' = NoTask
        /\ UNCHANGED <<table, running, loaded, ids>>
    BY <1>1, <1>11 DEF Continue, TaskOK
  <2>2. Known' = table
    BY <2>1 DEF Known, NoTask
  <2>3. TableOK'
    BY <1>1, <2>1 DEF TableOK
  <2>4. TaskOK'
    BY <2>1 DEF TaskOK, NoTask, Genesis, Block
  <2>5. PICK s : s = Known
    OBVIOUS
  <2>6. PICK b \in Block : b = task.block
    BY <2>1
  <2>7. /\ Len(s) <= peak /\ peak \in Nat /\ Low <= Len(s) /\ Low <= Len(s) + 1
        /\ Window(s)
    BY <1>1, <1>3, <1>4, <2>1, <2>5 DEF CountersOK, WindowIsTail, Window
  <2>8. PICK t : t = table
    OBVIOUS
  <2>9. /\ Window(t)'
        /\ peak' \in Nat /\ Len(t) <= peak'
    <3>1. CASE task.op = "save"
      <4>1. Push(b) /\ OneMore(s, t, b)
        BY <1>1, <1>11, <2>5, <2>6, <2>8, <3>1, ContinueMoves
      <4> QED
        BY <2>6, <2>7, <4>1, PushWindow DEF OneMore
    <3>2. CASE task.op = "delete"
      <4>1. Pop /\ OneMore(t, s, b)
        BY <1>1, <1>11, <2>5, <2>6, <2>8, <3>2, ContinueMoves
      <4> QED
        BY <2>1, <2>7, <4>1, PopWindow DEF OneMore
    <3> QED
      BY <2>1, <3>1, <3>2
  <2>10. WindowIsTail' /\ Len(Known') <= peak'
    BY <2>1, <2>2, <2>8, <2>9 DEF WindowIsTail, Window
  <2> QED
    BY <1>1, <1>11, <2>1, <2>3, <2>4, <2>9, <2>10 DEF IInv, Base, CountersOK
<1>12. CASE Crash
  <2>1. /\ memory' = <<>> /\ byHeight' = <<>> /\ byId' = {} /\ peak' = 0
        /\ task' = NoTask /\ running' = FALSE /\ loaded' = 0
        /\ UNCHANGED <<table, ids>>
    BY <1>12 DEF Crash
  <2>2. TableOK'
    BY <1>1, <2>1 DEF TableOK
  <2>3. TaskOK'
    BY <2>1 DEF TaskOK, NoTask, Genesis, Block
  <2>4. Known' = SubSeq(table, 1, 0)
    BY <2>1 DEF Known
  <2>5. Known' \in Seq(Block) /\ Len(Known') = 0
    BY <1>2, <2>4, Slice
  <2>6. Known' = <<>>
    BY <2>5, EmptySeq
  <2>7. Low' = 1
    BY <2>1, LimitsAssumption DEF Low
  <2>8. SubSeq(Known', Low', Len(Known')) = <<>>
    BY <2>4, <2>5, <2>6, <2>7
  <2>9. byHeight' = [h \in Low'..Len(Known') |-> Known'[h]]
    BY <2>1, <2>5, <2>7
  <2>10. byId' = {b.id : b \in ToSet(memory')}
    BY <2>1, EmptySeq DEF ToSet
  <2>11. CountersOK'
    <3>1. ids' \in Nat /\ Len(table') \in Nat /\ 0 <= Len(table')
      BY <1>1, <1>2, <2>1 DEF CountersOK
    <3>2. Len(Known') <= peak'
      BY <2>1, <2>5
    <3> QED
      BY <2>1, <3>1, <3>2 DEF CountersOK
  <2> QED
    BY <1>12, <2>1, <2>2, <2>3, <2>8, <2>9, <2>10, <2>11 DEF IInv, Base, WindowIsTail
<1>13. CASE Load
  <2>1. /\ ~running /\ loaded \in Nat /\ loaded + 1 <= Len(table) /\ peak = loaded
        /\ task = NoTask /\ Push(table[loaded + 1]) /\ loaded' = loaded + 1
        /\ UNCHANGED <<table, running, task, ids>>
    BY <1>1, <1>2, <1>13 DEF Load, CountersOK
  <2>2. PICK n \in Nat : n = loaded
    BY <2>1
  <2>3. PICK s, t, b : s = Known /\ t = Known' /\ b = table[loaded + 1]
    OBVIOUS
  <2>4. Push(b) /\ OneMore(s, t, b)
    BY <1>1, <1>13, <2>3, LoadMoves
  <2>5. s = SubSeq(table, 1, n) /\ n <= Len(table)
    BY <1>2, <2>1, <2>2, <2>3 DEF Known
  <2>6. Len(s) = n
    BY <1>1, <2>5, ShorterChain
  <2>7. Window(s)
    BY <1>1, <2>3 DEF WindowIsTail, Window
  <2>8. peak \in Nat /\ Len(s) <= peak /\ Low <= Len(s) + 1
    BY <2>1, <2>2, <2>6, LowProperties
  <2>13. /\ Window(t)'
         /\ peak' \in Nat /\ Len(t) <= peak'
    BY <2>4, <2>7, <2>8, PushWindow DEF OneMore
  <2>14. WindowIsTail'
    BY <2>3, <2>13 DEF WindowIsTail, Window
  <2>15. peak' = n + 1
    BY <2>1, <2>2, <2>4, <2>6 DEF Push, OneMore
  <2>16. CountersOK'
    BY <1>1, <2>1, <2>2, <2>3, <2>13, <2>15 DEF CountersOK
  <2>17. TableOK' /\ TaskOK'
    BY <1>1, <2>1 DEF TableOK, TaskOK, NoTask
  <2> QED
    BY <1>13, <2>14, <2>16, <2>17 DEF IInv, Base
<1>14. CASE Loaded
  <2>1. /\ ~running /\ loaded = Len(table) /\ task = NoTask /\ running' = TRUE
        /\ UNCHANGED <<table, mem, loaded, task, ids, peak>>
    BY <1>1, <1>14 DEF Loaded, CountersOK
  <2>2. Known' = Known
    BY <1>1, <1>2, <2>1, KnownCases, SubSeqFull DEF Known, NoTask
  <2>3. TableOK' /\ TaskOK'
    BY <1>1, <2>1 DEF TableOK, TaskOK, NoTask
  <2> QED
    BY <1>1, <1>6, <2>1, <2>2, <2>3 DEF CountersOK
<1>15. ASSUME UNCHANGED <<table, mem, task, running, loaded, ids, peak>> PROVE IInv' /\ KnownStays /\ KnownStays
  <2>1. Known' = Known
    BY <1>15 DEF Known
  <2>2. TableOK' /\ TaskOK'
    BY <1>1, <1>15 DEF TableOK, TaskOK, FitsTable, mem
  <2> QED
    BY <1>1, <1>6, <1>15, <2>1, <2>2 DEF CountersOK
<1>16. ASSUME NEW offset \in 0..MaxIds, SendBlocks(offset) PROVE IInv' /\ KnownStays
  BY <1>15, <1>16 DEF SendBlocks
<1>17. CASE Select
  BY <1>15, <1>17 DEF Select
<1>18. CASE Assign
  BY <1>15, <1>18 DEF Assign
<1>19. CASE ReadFails
  BY <1>15, <1>19 DEF ReadFails
<1>20. CASE UNCHANGED vars
  BY <1>15, <1>20 DEF vars
<1> QED
  BY <1>7, <1>8, <1>9, <1>10, <1>11, <1>12, <1>13, <1>14, <1>16, <1>17, <1>18, <1>19,
     <1>20 DEF Next

LEMMA IInvNext == IInv /\ [Next]_vars => IInv'
BY EveryStep

-----------------------------------------------------------------------------
(* What the code knows of the chain: ids and transactions.                 *)

\* Every block names the one before it, and no transaction is in two of them.
Joined(s) ==
    /\ \A h \in 1..Len(s) - 1 : s[h + 1].previous = s[h].id
    /\ \A h, k \in 1..Len(s) : h # k => s[h].trs \cap s[k].trs = {}

\* The table with the block that is saved or was deleted.
Longest ==
    IF (task.op = "save" /\ ~task.done) \/ (task.op = "delete" /\ task.done)
    THEN Append(table, task.block) ELSE table

TrsOf(s, A) == UNION {s[h].trs : h \in A}

\* The index f has the heights of the blocks of s under their ids.
Indexed(f, s) ==
    /\ f = [i \in DOMAIN f |-> f[i]]
    /\ DOMAIN f = {s[h].id : h \in 1..Len(s)}
    /\ \A h \in 1..Len(s) : f[s[h].id] = s[h].height

IdsKnown ==
    /\ Indexed(headers, Known)
    /\ confirmed = TrsOf(Known, 1..Len(Known))
    /\ memoryTrs = TrsOf(Known, Low..Len(Known))

IdsInv == Joined(Longest) /\ IdsKnown

\* The blocks of s and t at A are the same; no transaction is in two of those of s.
Same(s, t, A) == \A h \in A : t[h] = s[h]
Apart(s, A) == \A h, k \in A : h # k => s[h].trs \cap s[k].trs = {}

\* Taking blocks away takes away their transactions only.
LEMMA TrsWithout ==
  ASSUME NEW s, NEW A, NEW B, NEW C, C = A \ B, B \subseteq A, Apart(s, A)
  PROVE  TrsOf(s, A) \ TrsOf(s, B) = TrsOf(s, C)
BY DEF TrsOf, Apart

LEMMA TrsWith ==
  ASSUME NEW s, NEW t, NEW A, NEW B, NEW C, C = A \cup B, Same(s, t, A)
  PROVE  TrsOf(t, C) = TrsOf(s, A) \cup TrsOf(t, B)
BY DEF TrsOf, Same

LEMMA TrsSame ==
  ASSUME NEW s, NEW t, NEW A, Same(s, t, A)
  PROVE  TrsOf(t, A) = TrsOf(s, A)
BY DEF TrsOf, Same

LEMMA TrsOfSet ==
  ASSUME NEW s, NEW A, NEW B, B = {s[h] : h \in A}
  PROVE  UNION {c.trs : c \in B} = TrsOf(s, A)
BY DEF TrsOf

\* The beginning of a joined chain is joined.
LEMMA JoinedBeginning ==
  ASSUME NEW s, NEW n \in Nat, Len(s) = n, NEW t, NEW m \in Nat, Len(t) = m, n <= m,
         \A h \in 1..n : s[h] = t[h], Joined(t)
  PROVE  Joined(s)
<1>1. \A h \in 1..n - 1 : h \in 1..m - 1 /\ h \in 1..n /\ h + 1 \in 1..n
  OBVIOUS
<1>2. \A h \in 1..n : h \in 1..m
  OBVIOUS
<1> QED
  BY <1>1, <1>2 DEF Joined

\* A block that follows the last one and has new transactions keeps it joined.
LEMMA JoinedLonger ==
  ASSUME NEW s, NEW n \in Nat \ {0}, Len(s) = n, NEW t, Len(t) = n + 1,
         \A h \in 1..n : t[h] = s[h], Joined(s),
         t[n + 1].previous = s[n].id, t[n + 1].trs \cap TrsOf(s, 1..n) = {}
  PROVE  Joined(t)
<1>1. \A h \in 1..n : h \in 1..n - 1 \/ h = n
  OBVIOUS
<1>2. ASSUME NEW h \in 1..(n + 1) - 1 PROVE t[h + 1].previous = t[h].id
  <2>1. CASE h = n
    BY <2>1
  <2>2. CASE h # n
    <3>1. h \in 1..n - 1 /\ h \in 1..n /\ h + 1 \in 1..n
      BY <2>2
    <3> QED
      BY <3>1 DEF Joined
  <2> QED
    BY <2>1, <2>2
<1>3. \A h \in 1..n : t[h].trs \cap t[n + 1].trs = {}
  BY DEF TrsOf
<1>4. 1..n + 1 = (1..n) \cup {n + 1}
  OBVIOUS
<1>5. \A h, k \in 1..n + 1 : h # k => t[h].trs \cap t[k].trs = {}
  BY <1>3, <1>4 DEF Joined
<1> QED
  BY <1>2, <1>5 DEF Joined

\* The index and the ids after push.
LEMMA PushIds ==
  ASSUME NEW s, NEW t, NEW b, OneMore(s, t, b), Joined(t), Push(b),
         Low \in Nat \ {0}, Low <= Len(s) + 1, CleansUp(t, b),
         Indexed(headers, s), confirmed = TrsOf(s, 1..Len(s)),
         memoryTrs = TrsOf(s, Low..Len(s))
  PROVE  /\ Indexed(headers', t) /\ confirmed' = TrsOf(t, 1..Len(t))
         /\ memoryTrs' = TrsOf(t, Low'..Len(t))
<1>1. PICK n \in Nat, low \in Nat \ {0}, lo \in Nat :
        /\ n = Len(s) /\ low = Low /\ lo = Low' /\ low <= lo /\ lo <= n + 1
  BY LenProperties DEF OneMore, IsChain, CleansUp
<1>2. /\ Len(t) = n + 1 /\ t[n + 1] = b /\ \A h \in 1..n : t[h] = s[h]
      /\ t[n + 1].height = n + 1
      /\ \A h, k \in 1..n + 1 : t[h].id = t[k].id => h = k
  BY <1>1 DEF OneMore, IsChain
<1>3. 1..n + 1 = (1..n) \cup {n + 1} /\ low..n + 1 = (low..n) \cup {n + 1}
  BY <1>1
<1>4. \A h \in low..n : h \in 1..n
  BY <1>1
<1>5. confirmed' = TrsOf(t, 1..n + 1)
  <2>1. confirmed' = TrsOf(s, 1..n) \cup t[n + 1].trs
    BY <1>1, <1>2 DEF Push, ConfirmedAfter
  <2>2. PICK A, B, C : A = 1..n /\ B = {n + 1} /\ C = 1..n + 1
    OBVIOUS
  <2>3. C = A \cup B /\ Same(s, t, A)
    BY <1>2, <1>3, <2>2 DEF Same
  <2>4. TrsOf(t, C) = TrsOf(s, A) \cup TrsOf(t, B)
    BY <2>3, TrsWith
  <2>5. TrsOf(t, B) = t[n + 1].trs
    BY <2>2 DEF TrsOf
  <2> QED
    BY <2>1, <2>2, <2>4, <2>5
<1>6. memoryTrs' = TrsOf(t, lo..n + 1)
  <2>1. PICK gone, A, B, C, D, E :
          /\ E = {n + 1} /\ gone = ToSet(Evicted(b)) /\ A = low..n + 1 /\ B = low..lo - 1
          /\ C = lo..n + 1 /\ D = low..n
    OBVIOUS
  <2>2. gone = {t[h] : h \in B}
    BY <1>1, <2>1 DEF CleansUp
  <2>3. \A h \in low..n + 1 : h \in 1..n + 1
    OBVIOUS
  <2>4. Same(s, t, D) /\ Apart(t, A)
    <3>1. Same(s, t, D)
      BY <1>2, <2>1 DEF Same
    <3>2. \A h, k \in 1..n + 1 : h # k => t[h].trs \cap t[k].trs = {}
      BY <1>2 DEF Joined
    <3>3. A \subseteq 1..n + 1
      BY <2>1, <2>3
    <3>4. Apart(t, A)
      BY <3>2, <3>3 DEF Apart
    <3> QED
      BY <3>1, <3>4
  <2>5. A = D \cup E /\ B \subseteq A /\ C = A \ B
    BY <1>1, <2>1, Heights, ZenonT(30)
  <2>6. /\ TrsOf(t, A) = TrsOf(s, D) \cup TrsOf(t, E)
        /\ TrsOf(t, A) \ TrsOf(t, B) = TrsOf(t, C)
    <3>1. TrsOf(t, A) = TrsOf(s, D) \cup TrsOf(t, E)
      BY <2>4, <2>5, TrsWith
    <3>2. TrsOf(t, A) \ TrsOf(t, B) = TrsOf(t, C)
      BY <2>4, <2>5, TrsWithout
    <3> QED
      BY <3>1, <3>2
  <2>7. memoryTrs' = (memoryTrs \cup b.trs) \ UNION {c.trs : c \in gone}
    BY <2>1 DEF Push
  <2>8. TrsOf(t, E) = b.trs
    BY <1>2, <2>1 DEF TrsOf
  <2>9. UNION {c.trs : c \in gone} = TrsOf(t, B)
    BY <2>2, TrsOfSet
  <2>10. memoryTrs = TrsOf(s, D)
    BY <1>1, <2>1
  <2> QED
    BY <2>1, <2>6, <2>7, <2>8, <2>9, <2>10
<1>7. Indexed(headers', t)
  <2>1. headers' = [i \in DOMAIN headers \cup {b.id} |->
                      IF i = b.id THEN b.height ELSE headers[i]]
    BY DEF Push
  <2>2. DOMAIN headers = {s[h].id : h \in 1..n} /\ \A h \in 1..n : headers[s[h].id] = s[h].height
    BY <1>1 DEF Indexed
  <2>3. \A h \in 1..n : t[h] = s[h] /\ t[h].id # b.id /\ t[h].id \in DOMAIN headers
    <3> TAKE h \in 1..n
    <3>1. t[h] = s[h]
      BY <1>2
    <3>2. h \in 1..n + 1 /\ n + 1 \in 1..n + 1 /\ h # n + 1 /\ t[n + 1].id = b.id
      BY <1>2, <1>3
    <3>3. t[h].id # b.id
      BY <1>2, <3>2
    <3>4. t[h].id \in DOMAIN headers
      BY <2>2, <3>1
    <3> QED
      BY <3>1, <3>3, <3>4
  <2>4. \A h \in 1..n + 1 : headers'[t[h].id] = t[h].height
    BY <1>2, <1>3, <2>1, <2>2, <2>3
  <2>5. DOMAIN headers' = {t[h].id : h \in 1..n + 1}
    <3>1. DOMAIN headers' = DOMAIN headers \cup {b.id}
      BY <2>1
    <3>2. {s[h].id : h \in 1..n} \cup {t[n + 1].id} = {t[h].id : h \in (1..n) \cup {n + 1}}
      BY <1>2
    <3> QED
      BY <1>2, <1>3, <2>2, <3>1, <3>2
  <2>6. headers' = [i \in DOMAIN headers' |-> headers'[i]]
    BY <2>1
  <2> QED
    BY <1>2, <2>4, <2>5, <2>6 DEF Indexed
<1> QED
  BY <1>1, <1>2, <1>5, <1>6, <1>7

\* The index and the ids after popLast.
LEMMA PopIds ==
  ASSUME NEW s, NEW t, NEW b, OneMore(t, s, b), Joined(s), Pop, Last(memory) = b,
         Low \in Nat \ {0}, Low' = Low, Low <= Len(s),
         Indexed(headers, s), confirmed = TrsOf(s, 1..Len(s)),
         memoryTrs = TrsOf(s, Low..Len(s))
  PROVE  /\ Indexed(headers', t) /\ confirmed' = TrsOf(t, 1..Len(t))
         /\ memoryTrs' = TrsOf(t, Low'..Len(t))
<1>1. PICK n \in Nat, low \in Nat \ {0} : n = Len(t) /\ low = Low /\ low <= n + 1
  BY LenProperties DEF OneMore, IsChain
<1>2. /\ Len(s) = n + 1 /\ s[n + 1] = b /\ \A h \in 1..n : s[h] = t[h]
      /\ \A h, k \in 1..n + 1 : s[h].id = s[k].id => h = k
  BY <1>1 DEF OneMore, IsChain
<1>3. 1..n + 1 = (1..n) \cup {n + 1}
  BY <1>1
<1>4. ASSUME NEW A, NEW C, A \subseteq 1..n + 1, n + 1 \in A, C = A \ {n + 1}
      PROVE  TrsOf(s, A) \ b.trs = TrsOf(t, C)
  <2>1. PICK B : B = {n + 1}
    OBVIOUS
  <2>2. Apart(s, A) /\ B \subseteq A /\ C = A \ B /\ TrsOf(s, B) = b.trs
    BY <1>2, <1>4, <2>1 DEF Joined, Apart, TrsOf
  <2>3. TrsOf(s, A) \ TrsOf(s, B) = TrsOf(s, C)
    BY <2>2, TrsWithout
  <2>4. Same(t, s, C)
    BY <1>2, <1>3, <1>4 DEF Same
  <2>5. TrsOf(s, C) = TrsOf(t, C)
    BY <2>4, TrsSame
  <2> QED
    BY <2>2, <2>3, <2>5
<1>5. confirmed' = TrsOf(t, 1..n)
  <2>1. 1..n = (1..n + 1) \ {n + 1} /\ n + 1 \in 1..n + 1
    OBVIOUS
  <2>2. TrsOf(s, 1..n + 1) \ b.trs = TrsOf(t, 1..n)
    BY <1>4, <2>1
  <2> QED
    BY <1>2, <2>2 DEF Pop
<1>6. memoryTrs' = TrsOf(t, low..n)
  <2>1. /\ low..n = (low..n + 1) \ {n + 1} /\ n + 1 \in low..n + 1
        /\ low..n + 1 \subseteq 1..n + 1
    BY <1>1
  <2>2. TrsOf(s, low..n + 1) \ b.trs = TrsOf(t, low..n)
    BY <1>4, <2>1
  <2> QED
    BY <1>1, <1>2, <2>2 DEF Pop
<1>7. Indexed(headers', t)
  <2>1. headers' = [i \in DOMAIN headers \ {b.id} |-> headers[i]]
    BY DEF Pop, Without
  <2>2. /\ DOMAIN headers = {s[h].id : h \in 1..n + 1}
        /\ \A h \in 1..n + 1 : headers[s[h].id] = s[h].height
    BY <1>2 DEF Indexed
  <2>3. \A h \in 1..n : t[h] = s[h] /\ s[h].id # b.id /\ s[h].id \in DOMAIN headers
    BY <1>2, <1>3, <2>2
  <2>4. \A h \in 1..n : headers'[t[h].id] = t[h].height
    BY <1>3, <2>1, <2>2, <2>3
  <2>5. DOMAIN headers' = {t[h].id : h \in 1..n}
    <3>1. DOMAIN headers' = DOMAIN headers \ {b.id}
      BY <2>1
    <3>2. {s[h].id : h \in (1..n) \cup {n + 1}} \ {b.id} = {s[h].id : h \in 1..n}
      BY <1>2, <2>3
    <3>3. {s[h].id : h \in 1..n} = {t[h].id : h \in 1..n}
      BY <1>2
    <3> QED
      BY <1>3, <2>2, <3>1, <3>2, <3>3
  <2>6. headers' = [i \in DOMAIN headers' |-> headers'[i]]
    BY <2>1
  <2> QED
    BY <1>1, <2>4, <2>5, <2>6 DEF Indexed
<1> QED
  BY <1>1, <1>5, <1>6, <1>7

\* The table is the beginning of the longest chain.
LEMMA LongestChain ==
  ASSUME Base, Joined(Longest)
  PROVE  /\ IsChain(Longest) /\ IsChain(table) /\ Joined(table)
         /\ task.op = "delete" /\ task.done => Known = Longest
<1>1. TableOK /\ TaskOK /\ IsChain(table) /\ Len(table) \in Nat \ {0}
  BY EmptySeq DEF Base, TableOK, IsChain
<1>2. PICK s : s = Longest
  OBVIOUS
<1>3. CASE (task.op = "save" /\ ~task.done) \/ (task.op = "delete" /\ task.done)
  <2>1. PICK b \in Block : b = task.block
    BY <1>1 DEF TaskOK
  <2>2. FitsTable(b) /\ s = Append(table, b)
    BY <1>1, <1>2, <1>3, <2>1 DEF TaskOK, Longest
  <2>3. IsChain(s) /\ Len(s) = Len(table) + 1 /\ \A h \in 1..Len(table) : s[h] = table[h]
    <3>1. TableOK /\ FitsTable(b) /\ s = Append(table, b)
      BY <1>1, <2>2
    <3> QED
      BY <3>1, LongerChain, ZenonT(30)
  <2>4. PICK n \in Nat, m \in Nat : n = Len(table) /\ m = n + 1
    BY <1>1
  <2>5. PICK t : t = table
    OBVIOUS
  <2>6. /\ Len(t) = n /\ Len(s) = m /\ n <= m /\ Joined(s)
        /\ \A h \in 1..n : t[h] = s[h]
    BY <1>2, <2>3, <2>4, <2>5
  <2>7. Joined(t)
    BY <2>6, JoinedBeginning
  <2>8. task.op = "delete" /\ task.done => Known = s
    BY <2>1, <2>2, KnownCases
  <2> QED
    BY <1>1, <1>2, <2>3, <2>5, <2>7, <2>8
<1>4. CASE ~((task.op = "save" /\ ~task.done) \/ (task.op = "delete" /\ task.done))
  <2>1. Longest = table
    BY <1>4 DEF Longest
  <2> QED
    BY <1>1, <1>4, <2>1
<1> QED
  BY <1>3, <1>4

\* The chain with a block that is being saved is joined: it names the last block,
\* and its transactions are not confirmed yet.
LEMMA LongestJoined ==
  ASSUME IInv, IdsInv, [Next]_vars
  PROVE  Joined(Longest)'
<1>1. TableOK /\ TaskOK /\ CountersOK /\ WindowIsTail /\ Base
  BY DEF IInv, Base
<1>2. table \in Seq(Block) /\ Len(table) \in Nat \ {0}
  BY <1>1, EmptySeq DEF TableOK
<1>3. IsChain(table) /\ Joined(table) /\ Joined(Longest)
  BY <1>1, LongestChain DEF IdsInv
<1>4. ASSUME NEW trs \in SUBSET Transactions, Save(trs) PROVE Joined(Longest)'
  <2>1. PICK b : b = [id |-> ids + 1, height |-> Last(memory).height + 1,
                      previous |-> Last(memory).id, trs |-> trs]
    OBVIOUS
  <2>2. PICK n \in Nat \ {0} : n = Len(table)
    BY <1>2
  <2>3. Known = table /\ memory # <<>> /\ Low \in Nat \ {0}
    BY <1>1, <1>4, KnownCases, LowProperties DEF Save, NoTask, CountersOK
  <2>4. Last(memory) = table[n]
    BY <1>1, <1>2, <2>2, <2>3, LastInMemory DEF WindowIsTail
  <2>5. table[n] \in Block
    BY <1>2, <2>2, ElementOfSeq
  <2>6. b \in Block /\ b.previous = table[n].id /\ b.trs = trs
    BY <1>1, <2>1, <2>4, <2>5 DEF Block, CountersOK
  <2>7. trs \cap TrsOf(table, 1..n) = {}
    BY <1>4, <2>2, <2>3 DEF Save, IdsInv, IdsKnown
  <2>8. PICK t : t = Append(table, b)
    OBVIOUS
  <2>9. /\ Len(t) = n + 1 /\ t[n + 1] = b
        /\ \A h \in 1..n : t[h] = table[h]
    BY <1>2, <2>2, <2>6, <2>8, AppendProperties
  <2>10. PICK s : s = table
    OBVIOUS
  <2>11. Joined(t)
    <3>1. /\ Len(s) = n /\ Joined(s) /\ \A h \in 1..n : t[h] = s[h]
          /\ t[n + 1].previous = s[n].id /\ t[n + 1].trs \cap TrsOf(s, 1..n) = {}
      BY <1>3, <2>2, <2>6, <2>7, <2>9, <2>10
    <3> QED
      BY <2>9, <3>1, JoinedLonger
  <2>12. Longest' = t
    BY <1>4, <2>1, <2>8 DEF Save, Longest
  <2> QED
    BY <2>11, <2>12
<1>5. ASSUME Longest' = Longest PROVE Joined(Longest)'
  BY <1>3, <1>5
<1>6. ASSUME Longest' = table PROVE Joined(Longest)'
  BY <1>3, <1>6
<1>7. CASE Delete
  <2>1. Longest' = table
    BY <1>7 DEF Delete, Longest
  <2> QED
    BY <1>6, <2>1
<1>8. CASE Commit
  <2>1. /\ task' = [task EXCEPT !.done = TRUE] /\ task.op \in {"save", "delete"}
        /\ ~task.done /\ task.block \in Block
        /\ task'.op = task.op /\ task'.done /\ task'.block = task.block
    BY <1>1, <1>8 DEF Commit, TaskOK
  <2>2. CASE task.op = "save"
    <3>1. table' = Append(table, task.block)
      BY <1>8, <2>2 DEF Commit
    <3>2. Longest' = Longest
      BY <2>1, <2>2, <3>1 DEF Longest
    <3> QED
      BY <1>5, <3>2
  <2>3. CASE task.op = "delete"
    <3>1. /\ Len(table) >= 2 /\ table[Len(table)] = task.block
          /\ table' = Without(table, {h \in DOMAIN table : table[h].id = task.block.id})
      BY <1>1, <1>8, <2>1, <2>3 DEF Commit, TaskOK
    <3>2. Append(table', task.block) = table
      BY <1>1, <2>1, <3>1, TableWithoutLast
    <3>3. Longest' = table
      BY <2>1, <2>3, <3>2 DEF Longest
    <3> QED
      BY <1>6, <3>3
  <2> QED
    BY <2>1, <2>2, <2>3
<1>9. CASE CommitFails \/ Continue \/ Crash
  <2>1. task' = NoTask /\ table' = table
    BY <1>9 DEF CommitFails, Continue, Crash
  <2>2. Longest' = table
    BY <2>1 DEF Longest, NoTask
  <2> QED
    BY <1>6, <2>2
<1>10. ASSUME UNCHANGED <<table, task>> PROVE Joined(Longest)'
  BY <1>5, <1>10 DEF Longest
<1>11. CASE Load \/ Loaded \/ (\E offset \in 0..MaxIds : SendBlocks(offset)) \/ Select
             \/ Assign \/ ReadFails \/ UNCHANGED vars
  BY <1>10, <1>11 DEF Load, Loaded, SendBlocks, Select, Assign, ReadFails, vars
<1> QED
  BY <1>4, <1>7, <1>8, <1>9, <1>11 DEF Next

\* Where push makes the chain t out of s.
LEMMA PushKnown ==
  ASSUME NEW s, NEW t, NEW b, IInv, IdsInv, s = Known, t = Known',
         OneMore(s, t, b), Joined(t), Push(b), Len(s) <= peak, Low <= Len(s) + 1
  PROVE  IdsKnown'
<1>1. /\ peak \in Nat /\ Low \in Nat \ {0}
      /\ Window(s)
      /\ Indexed(headers, s) /\ confirmed = TrsOf(s, 1..Len(s))
      /\ memoryTrs = TrsOf(s, Low..Len(s))
  BY LowProperties DEF IInv, Base, CountersOK, WindowIsTail, Window, IdsInv, IdsKnown
<1>2. CleansUp(t, b)
  <2>1. /\ IsChain(s) /\ IsChain(t) /\ b \in Block /\ b.height = Len(s) + 1
        /\ Len(t) = Len(s) + 1 /\ t[Len(s) + 1] = b
        /\ \A h \in 1..Len(s) : t[h] = s[h]
    BY DEF OneMore
  <2>2. Push(b) /\ Len(s) <= peak /\ Low <= Len(s) + 1
    OBVIOUS
  <2> QED
    BY <1>1, <2>1, <2>2, PushWindow
<1>3. /\ Indexed(headers', t) /\ confirmed' = TrsOf(t, 1..Len(t))
      /\ memoryTrs' = TrsOf(t, Low'..Len(t))
  BY <1>1, <1>2, PushIds
<1> QED
  BY <1>3 DEF IdsKnown

LEMMA IdsInit == Init => IdsInv
<1> SUFFICES ASSUME Init PROVE IdsInv
  OBVIOUS
<1>1. /\ table = <<Genesis>> /\ Len(table) = 1 /\ table[1] = Genesis
      /\ Known = table /\ Longest = table
  BY DEF Init, Known, Longest, NoTask
<1>2. Low = 1
  BY LimitsAssumption DEF Init, Low
<1>3. PICK s : s = table
  OBVIOUS
<1>4. /\ Len(s) = 1 /\ s[1].trs = {} /\ s[1].id = 0 /\ s[1].height = 1
  BY <1>1, <1>3 DEF Genesis
<1>5. Joined(s)
  BY <1>4 DEF Joined
<1>6. TrsOf(s, 1..1) = {}
  BY <1>4 DEF TrsOf
<1>7. Indexed(headers, s)
  BY <1>4 DEF Init, Indexed
<1> QED
  BY <1>1, <1>2, <1>3, <1>4, <1>5, <1>6, <1>7 DEF Init, IdsInv, IdsKnown

LEMMA IdsNext == IInv /\ IdsInv /\ [Next]_vars => IdsInv'
<1> SUFFICES ASSUME IInv, IdsInv, [Next]_vars PROVE IdsInv'
  OBVIOUS
<1>1. TableOK /\ TaskOK /\ CountersOK /\ WindowIsTail /\ Base
  BY DEF IInv, Base
<1>2. IsChain(table) /\ Joined(table) /\ Joined(Longest) /\ Len(table) \in Nat \ {0}
  BY <1>1, LongestChain, EmptySeq DEF IdsInv, TableOK
<1>3. PICK s, t : s = Known /\ t = Known'
  OBVIOUS
<1>4. /\ IsChain(s) /\ Low \in Nat \ {0} /\ peak \in Nat /\ Len(s) <= peak
      /\ memory = SubSeq(s, Low, Len(s))
  BY <1>1, <1>3, KnownChain, LowProperties DEF CountersOK, WindowIsTail
<1>5. CASE KnownStays
  <2>1. /\ Known' = Known /\ Low' = Low
        /\ UNCHANGED <<headers, confirmed, memoryTrs>>
    BY <1>5 DEF KnownStays, mem, Low
  <2>2. IdsKnown'
    BY <2>1 DEF IdsInv, IdsKnown
  <2> QED
    BY <2>2, LongestJoined DEF IdsInv
<1>6. CASE Continue
  <2>1. task.op \in {"save", "delete"} /\ t = table /\ task.done /\ memory # <<>>
    BY <1>1, <1>3, <1>6, ContinueMoves DEF Continue, TaskOK
  <2>2. PICK b : b = task.block
    OBVIOUS
  <2>3. Low <= Len(s) /\ Last(memory) = s[Len(s)]
    BY <1>4, <2>1, LastInMemory DEF IsChain
  <2>4. CASE task.op = "save"
    <3>1. Push(b) /\ OneMore(s, t, b)
      BY <1>1, <1>3, <1>6, <2>1, <2>2, <2>4, ContinueMoves
    <3>2. Low <= Len(s) + 1
      BY <1>4, <2>3, LenProperties DEF IsChain
    <3> QED
      BY <1>2, <1>3, <1>4, <2>1, <3>1, <3>2, PushKnown, LongestJoined DEF IdsInv
  <2>5. CASE task.op = "delete"
    <3>1. Pop /\ OneMore(t, s, b)
      BY <1>1, <1>3, <1>6, <2>1, <2>2, <2>5, ContinueMoves
    <3>2. Joined(s)
      BY <1>1, <1>2, <1>3, <2>1, <2>5, LongestChain
    <3>3. Last(memory) = b
      BY <2>3, <3>1 DEF OneMore
    <3>4. Low' = Low
      BY <3>1 DEF Pop, Low
    <3>5. /\ Indexed(headers, s) /\ confirmed = TrsOf(s, 1..Len(s))
          /\ memoryTrs = TrsOf(s, Low..Len(s))
      BY <1>3 DEF IdsInv, IdsKnown
    <3>6. /\ Indexed(headers', t) /\ confirmed' = TrsOf(t, 1..Len(t))
          /\ memoryTrs' = TrsOf(t, Low'..Len(t))
      BY <1>4, <2>3, <3>1, <3>2, <3>3, <3>4, <3>5, PopIds
    <3> QED
      BY <1>3, <3>6, LongestJoined DEF IdsInv, IdsKnown
  <2> QED
    BY <2>1, <2>4, <2>5
<1>7. CASE Load
  <2>1. PICK b : b = table[loaded + 1]
    OBVIOUS
  <2>2. Push(b) /\ OneMore(s, t, b)
    BY <1>1, <1>3, <1>7, <2>1, LoadMoves
  <2>3. PICK n \in Nat, m \in Nat : n = loaded + 1 /\ m = Len(table)
    BY <1>1, <1>2 DEF CountersOK
  <2>4. n <= m /\ t = SubSeq(table, 1, n)
    BY <1>3, <1>7, <2>3, <1>1, <1>2 DEF Load, Known, CountersOK
  <2>5. Len(t) = n /\ \A h \in 1..n : t[h] = table[h]
    BY <1>1, <2>3, <2>4, ShorterChain
  <2>6. PICK u : u = table
    OBVIOUS
  <2>7. Joined(t)
    <3>1. /\ Len(u) = m /\ Joined(u) /\ \A h \in 1..n : t[h] = u[h]
      BY <1>2, <2>3, <2>5, <2>6
    <3> QED
      BY <2>4, <2>5, <3>1, JoinedBeginning
  <2>8. Low <= Len(s) + 1
    <3>1. Len(s) \in Nat /\ Len(t) = Len(s) + 1
      BY <1>4, <2>2, LenProperties DEF OneMore, IsChain
    <3>2. peak = Len(s)
      BY <1>1, <1>7, <2>3, <2>5, <3>1 DEF CountersOK, Load
    <3> QED
      BY <1>4, <3>1, <3>2, LowProperties
  <2> QED
    BY <1>3, <1>4, <2>2, <2>7, <2>8, PushKnown, LongestJoined DEF IdsInv
<1>8. CASE Crash
  <2>1. /\ headers' = <<>> /\ memoryTrs' = {} /\ confirmed' = {} /\ peak' = 0
        /\ t = SubSeq(table, 1, 0)
    BY <1>3, <1>8 DEF Crash, Known
  <2>2. Len(t) = 0
    BY <1>2, <2>1, Slice DEF IsChain
  <2>3. Low' = 1
    BY <2>1, LimitsAssumption DEF Low
  <2>4. Indexed(headers', t)
    BY <2>1, <2>2 DEF Indexed
  <2>5. TrsOf(t, 1..0) = {}
    BY DEF TrsOf
  <2> QED
    BY <1>3, <2>1, <2>2, <2>3, <2>4, <2>5, LongestJoined DEF IdsInv, IdsKnown
<1> QED
  BY <1>5, <1>6, <1>7, <1>8, EveryStep

\* In the words of the property.
LEMMA IdsOfKnown ==
  ASSUME IInv, IdsInv
  PROVE  IdsOfChain
<1>1. PICK s : s = Known
  OBVIOUS
<1>2. /\ IsChain(s) /\ Low \in Nat \ {0} /\ memory = SubSeq(s, Low, Len(s))
      /\ Indexed(headers, s) /\ confirmed = TrsOf(s, 1..Len(s))
      /\ memoryTrs = TrsOf(s, Low..Len(s))
  BY <1>1, KnownChain, LowProperties DEF IInv, Base, CountersOK, WindowIsTail, IdsInv, IdsKnown
<1>3. PICK A, B, D : A = 1..Len(s) /\ B = Low..Len(s) /\ D = ToSet(s)
  OBVIOUS
<1>4. D = {s[h] : h \in A} /\ ToSet(memory) = {s[h] : h \in B}
  <2>1. D = {s[h] : h \in A}
    BY <1>2, <1>3, SetOf DEF IsChain
  <2>2. ToSet(memory) = {s[h] : h \in B}
    BY <1>2, <1>3, EndSet DEF IsChain
  <2> QED
    BY <2>1, <2>2
<1>5. confirmed = UNION {b.trs : b \in D} /\ memoryTrs = UNION {b.trs : b \in ToSet(memory)}
  BY <1>2, <1>3, <1>4, TrsOfSet
<1>6. /\ headers = [i \in DOMAIN headers |-> headers[i]]
      /\ DOMAIN headers = {s[h].id : h \in A}
      /\ \A h \in A : headers[s[h].id] = s[h].height
      /\ \A h, k \in A : s[h].id = s[k].id => h = k
  BY <1>2, <1>3 DEF Indexed, IsChain
<1>7. DOMAIN headers = {b.id : b \in D}
  BY <1>4, <1>6, IdsOf
<1>8. PICK G : G = [i \in DOMAIN headers |-> (CHOOSE b \in D : b.id = i).height]
  OBVIOUS
<1>9. \A i \in DOMAIN headers : headers[i] = G[i]
  <2> TAKE i \in DOMAIN headers
  <2>1. PICK h \in A : i = s[h].id
    BY <1>6
  <2>2. \E b \in D : b.id = i
    BY <1>4, <2>1
  <2>3. PICK c : c = CHOOSE b \in D : b.id = i
    OBVIOUS
  <2>4. c \in D /\ c.id = i
    BY <2>2, <2>3
  <2>5. PICK k \in A : c = s[k]
    BY <1>4, <2>4
  <2>6. c = s[h]
    BY <1>6, <2>1, <2>4, <2>5
  <2>7. G[i] = c.height
    BY <1>8, <2>3
  <2> QED
    BY <1>6, <2>1, <2>6, <2>7
<1>10. headers = G
  BY <1>6, <1>8, <1>9
<1>11. headers = [i \in {b.id : b \in D} |-> (CHOOSE b \in D : b.id = i).height]
  BY <1>7, <1>8, <1>10
<1> QED
  BY <1>1, <1>3, <1>5, <1>11 DEF IdsOfChain

-----------------------------------------------------------------------------
(* Answers to peers.                                                       *)

\* What is read is a part of the table, whole and up to the block a peer may
\* expect, unless a block was deleted meanwhile.
ReaderOK ==
    /\ reader \in [op : {"select", "assign"}, offset : Nat, top : Nat, torn : BOOLEAN,
                   blocks : Seq(Block)] \cup {Idle}
    /\ reader # Idle => running
    /\ reader # Idle /\ ~reader.torn =>
          reader.top <= Len(table) /\ ~(task.op = "delete" /\ task.done)
    /\ reader # Idle /\ ~reader.torn /\ reader.op = "assign" =>
          /\ Len(reader.blocks) = RequestLimit
                \/ reader.offset + Len(reader.blocks) >= reader.top
          /\ reader.offset + Len(reader.blocks) <= Len(table)
          /\ \A i \in 1..Len(reader.blocks) : reader.blocks[i] = table[reader.offset + i]
          /\ \E i \in 1..Len(reader.blocks) : reader.blocks[i].trs # {}

AnswerInv == ReaderOK /\ AnswerIsChain

\* Whole and linked blocks from the height after offset on.
LinkedFrom(blocks, offset) ==
    \A i \in 1..Len(blocks) :
       /\ blocks[i].block.height = offset + i
       /\ blocks[i].trs = blocks[i].block.trs
       /\ i > 1 => blocks[i].block.previous = blocks[i - 1].block.id

\* A part of a joined chain is such an answer.
LEMMA PartOfChain ==
  ASSUME NEW s, IsChain(s), Joined(s), NEW o \in Nat, NEW n \in Nat, o + n <= Len(s),
         NEW q, Len(q) = n, \A i \in 1..n : q[i].block = s[o + i] /\ q[i].trs = s[o + i].trs
  PROVE  LinkedFrom(q, o)
<1>1. PICK m \in Nat : m = Len(s)
  BY LenProperties DEF IsChain
<1>2. ASSUME NEW i \in 1..n
      PROVE  /\ q[i].block.height = o + i
             /\ q[i].trs = q[i].block.trs
             /\ i > 1 => q[i].block.previous = q[i - 1].block.id
  <2>1. o + i \in 1..m
    BY <1>1
  <2>2. q[i].block = s[o + i] /\ q[i].trs = s[o + i].trs /\ s[o + i].height = o + i
    BY <1>1, <2>1 DEF IsChain
  <2>3. ASSUME i > 1 PROVE s[o + i].previous = q[i - 1].block.id
    <3>1. PICK k \in Nat : k = o + i - 1
      BY <2>3
    <3>2. k \in 1..m - 1 /\ k + 1 = o + i /\ i - 1 \in 1..n /\ o + (i - 1) = k
      BY <1>1, <2>3, <3>1
    <3>3. s[k + 1].previous = s[k].id
      BY <1>1, <3>2 DEF Joined
    <3>4. q[i - 1].block = s[k]
      BY <3>2
    <3> QED
      BY <3>2, <3>3, <3>4
  <2> QED
    BY <2>2, <2>3
<1> QED
  BY <1>2 DEF LinkedFrom

\* The known chain is joined.
LEMMA KnownJoined ==
  ASSUME IInv, IdsInv, running
  PROVE  /\ IsChain(Known) /\ Joined(Known)
         /\ ~(task.op = "delete" /\ task.done) => Len(Known) <= Len(table)
<1>1. Base /\ TableOK /\ TaskOK /\ IsChain(Known) /\ Len(table) \in Nat \ {0}
  BY KnownChain, EmptySeq DEF IInv, Base, TableOK
<1>2. Joined(table) /\ Joined(Longest) /\ (task.op = "delete" /\ task.done => Known = Longest)
  BY <1>1, LongestChain DEF IdsInv
<1>3. CASE task.op = "delete" /\ task.done
  BY <1>1, <1>2, <1>3
<1>4. CASE task.op = "save" /\ task.done
  <2>1. PICK n \in Nat, m \in Nat : m = Len(table) /\ n + 1 = m
    BY <1>1
  <2>2. n <= Len(table) /\ Known = SubSeq(table, 1, n)
    <3>1. Known = SubSeq(table, 1, Len(table) - 1)
      BY <1>1, <1>4, KnownCases
    <3>2. Len(table) - 1 = n
      BY <2>1
    <3> QED
      BY <2>1, <3>1, <3>2
  <2>3. PICK s, t : s = Known /\ t = table
    OBVIOUS
  <2>4. Len(s) = n /\ \A h \in 1..n : s[h] = t[h]
    BY <1>1, <2>2, <2>3, ShorterChain
  <2>5. Len(t) = m /\ n <= m /\ Joined(t)
    BY <1>2, <2>1, <2>3
  <2>6. Joined(s)
    BY <2>4, <2>5, JoinedBeginning
  <2> QED
    BY <1>1, <1>4, <2>1, <2>3, <2>4, <2>6
<1>5. CASE ~(task.op # "none" /\ task.done)
  <2>1. Known = table
    BY <1>1, <1>5, KnownCases
  <2> QED
    BY <1>1, <1>2, <2>1
<1> QED
  BY <1>1, <1>3, <1>4, <1>5 DEF TaskOK

\* What memory answers is a part of the known chain, up to its end when it is
\* less than what was asked for.
LEMMA FromMemory ==
  ASSUME IInv, NEW offset \in Nat, NEW q, q = GetMany(RequestLimit, offset), q # <<>>
  PROVE  \E n \in Nat : /\ q \in Seq(Block) /\ Len(q) = n /\ DOMAIN q = 1..n
                        /\ n = RequestLimit \/ offset + n >= Len(Known)
                        /\ offset + n <= Len(Known)
                        /\ \A i \in 1..n : q[i] = Known[offset + i]
<1>1. PICK low \in Nat \ {0}, m \in Nat, limit \in Nat \ {0} :
        low = Low /\ m = Len(Known) /\ limit = RequestLimit
  BY KnownChain, LowProperties, LenProperties, LimitsAssumption
     DEF IInv, Base, CountersOK, IsChain
<1>2. Known \in Seq(Block) /\ byHeight = [h \in low..m |-> Known[h]]
  BY <1>1, KnownChain DEF IInv, Base, WindowIsTail, IsChain
<1>3. PICK missing : missing = {n \in 0..limit : offset + 1 + n \notin low..m} \cup {limit}
  OBVIOUS
<1>4. PICK n : n = CHOOSE k \in missing : \A l \in missing : k <= l
  OBVIOUS
<1>5. q = [i \in 1..n |-> byHeight[offset + i]]
  BY <1>1, <1>2, <1>3, <1>4 DEF GetMany
<1>6. \E k \in missing : \A l \in missing : k <= l
  <2>1. CASE offset + 1 \notin low..m
    <3>1. 0 \in missing /\ \A l \in missing : l \in Nat
      BY <1>3, <2>1
    <3> QED
      BY <3>1
  <2>2. CASE offset + 1 \in low..m
    <3>1. PICK k \in Nat : k = m - offset
      BY <2>2
    <3>2. offset + 1 + k \notin low..m
      BY <3>1
    <3>3. \A l \in 0..k : l = k \/ offset + 1 + l \in low..m
      BY <2>2, <3>1
    <3>4. CASE k < limit
      <4>1. k \in missing
        BY <1>3, <3>2, <3>4
      <4>2. \A l \in missing : k <= l
        BY <1>3, <3>3, <3>4
      <4> QED
        BY <4>1, <4>2
    <3>5. CASE ~(k < limit)
      <4>1. \A l \in missing : limit <= l
        BY <1>3, <3>3, <3>5
      <4> QED
        BY <1>3, <4>1
    <3> QED
      BY <3>4, <3>5
  <2> QED
    BY <2>1, <2>2
<1>7. n \in missing /\ \A l \in missing : n <= l
  BY <1>4, <1>6
<1>8. n \in Nat /\ n <= limit /\ (n = limit \/ offset + 1 + n \notin low..m)
  BY <1>3, <1>7
<1>9. n # 0
  <2>1. ASSUME n = 0 PROVE FALSE
    <3>1. 1..0 = {}
      OBVIOUS
    <3>2. q = <<>>
      BY <1>5, <2>1, <3>1
    <3> QED
      BY <3>2
  <2> QED
    BY <2>1
<1>10. \A k \in 0..n - 1 : offset + 1 + k \in low..m
  <2> SUFFICES ASSUME NEW k \in 0..n - 1, offset + 1 + k \notin low..m PROVE FALSE
    OBVIOUS
  <2>1. k \in 0..limit /\ ~(n <= k)
    BY <1>8
  <2> QED
    BY <1>3, <1>7, <2>1
<1>11. low <= offset + 1 /\ offset + n <= m
  <2>1. 0 \in 0..n - 1 /\ n - 1 \in 0..n - 1 /\ offset + 1 + (n - 1) = offset + n
    BY <1>8, <1>9
  <2>2. offset + 1 + 0 \in low..m /\ offset + n \in low..m
    BY <1>10, <2>1
  <2> QED
    BY <2>2
<1>12. n = limit \/ offset + n >= m
  BY <1>8, <1>11
<1>13. ASSUME NEW i \in 1..n PROVE byHeight[offset + i] = Known[offset + i] /\ Known[offset + i] \in Block
  <2>1. offset + i \in low..m /\ offset + i \in 1..m
    BY <1>8, <1>11
  <2> QED
    BY <1>1, <1>2, <2>1, ElementOfSeq
<1>14. \A i \in 1..n : q[i] = Known[offset + i]
  BY <1>5, <1>13
<1>15. q \in [1..n -> Block]
  BY <1>5, <1>13
<1>16. q \in Seq(Block) /\ Len(q) = n /\ DOMAIN q = 1..n
  BY <1>8, <1>15, FunctionIsSeq
<1> QED
  BY <1>1, <1>8, <1>11, <1>12, <1>14, <1>16

\* The length of an answer.
LEMMA AnswerLength ==
  ASSUME NEW q \in Seq(Block), NEW n \in Nat, Len(q) = n,
         NEW a, a = [i \in DOMAIN q |-> Whole(q[i])]
  PROVE  Len(a) = n /\ \A i \in 1..n : a[i].block = q[i] /\ a[i].trs = q[i].trs
<1>1. DOMAIN q = 1..n /\ \A i \in 1..n : q[i] \in Block
  BY LenProperties, ElementOfSeq
<1>2. a \in [1..n -> [block : Block, trs : SUBSET Transactions]]
  BY <1>1 DEF Whole, Block
<1>3. Len(a) = n
  BY <1>2, FunctionIsSeq
<1> QED
  BY <1>1, <1>3 DEF Whole

\* An answer in a torn state promises nothing; another one is linked and long enough.
Answered(r) ==
    r # Idle /\ ~r.torn =>
        /\ Len(r.blocks) = RequestLimit \/ r.offset + Len(r.blocks) >= r.top
        /\ LinkedFrom(r.blocks, r.offset)

LEMMA AnswerMeaning == AnswerIsChain <=> Answered(reply)
BY DEF AnswerIsChain, Answered, LinkedFrom

LEMMA AnswerInit == Init => AnswerInv
BY DEF Init, AnswerInv, ReaderOK, AnswerIsChain

\* An answer from memory, or the beginning of a read.
LEMMA SendBlocksAnswers ==
  ASSUME IInv, IdsInv, AnswerInv, NEW offset \in 0..MaxIds, SendBlocks(offset)
  PROVE  ReaderOK' /\ Answered(reply')
<1>1. /\ running /\ reader = Idle /\ offset \in Nat
      /\ UNCHANGED <<table, memory, task, running>>
  BY DEF SendBlocks, mem
<1>2. /\ IsChain(Known) /\ Joined(Known)
      /\ ~(task.op = "delete" /\ task.done) => Len(Known) <= Len(table)
  BY <1>1, KnownJoined
<1>3. PICK m \in Nat : m = Len(Known)
  BY <1>2, LenProperties DEF IsChain
<1>4. PICK top : top = IF memory = <<>> THEN 0 ELSE Last(memory).height
  OBVIOUS
<1>5. top \in Nat /\ top <= m
  <2>1. CASE memory = <<>>
    BY <1>4, <2>1
  <2>2. CASE memory # <<>>
    <3>1. /\ Known \in Seq(Block) /\ Low \in Nat \ {0} /\ memory = SubSeq(Known, Low, Len(Known))
      BY <1>2, LowProperties DEF IInv, Base, CountersOK, WindowIsTail, IsChain
    <3>2. PICK s \in Seq(Block), low \in Nat \ {0} : s = Known /\ low = Low
      BY <3>1
    <3>3. low <= Len(s) /\ Len(s) \in Nat \ {0} /\ Last(memory) = s[Len(s)]
      BY <2>2, <3>1, <3>2, LastInMemory
    <3>4. m \in 1..m /\ Last(memory) = Known[m]
      BY <1>3, <3>2, <3>3
    <3> QED
      BY <1>2, <1>3, <1>4, <2>2, <3>4 DEF IsChain
  <2> QED
    BY <2>1, <2>2
<1>6. PICK q : q = GetMany(RequestLimit, offset)
  OBVIOUS
<1>7. CASE q # <<>>
  <2>1. PICK n \in Nat : /\ q \in Seq(Block) /\ Len(q) = n
                         /\ n = RequestLimit \/ offset + n >= Len(Known)
                         /\ offset + n <= Len(Known)
                         /\ \A i \in 1..n : q[i] = Known[offset + i]
    BY <1>1, <1>6, <1>7, FromMemory
  <2>2. PICK a : a = [i \in DOMAIN q |-> Whole(q[i])]
    OBVIOUS
  <2>3. Len(a) = n /\ \A i \in 1..n : a[i].block = q[i] /\ a[i].trs = q[i].trs
    <3>1. q \in Seq(Block) /\ Len(q) = n
      BY <2>1
    <3> QED
      BY <2>2, <3>1, AnswerLength
  <2>4. /\ reply' = [op |-> "reply", offset |-> offset, top |-> top, torn |-> FALSE, blocks |-> a]
        /\ UNCHANGED reader
    BY <1>4, <1>6, <1>7, <2>2 DEF SendBlocks
  <2>5. PICK s : s = Known
    OBVIOUS
  <2>6. /\ IsChain(s) /\ Joined(s) /\ offset + n <= Len(s)
        /\ \A i \in 1..n : a[i].block = s[offset + i] /\ a[i].trs = s[offset + i].trs
    BY <1>2, <2>1, <2>3, <2>5
  <2>7. LinkedFrom(a, offset)
    <3>1. PICK o \in Nat : o = offset
      BY <1>1
    <3>2. /\ IsChain(s) /\ Joined(s) /\ o + n <= Len(s) /\ Len(a) = n
          /\ \A i \in 1..n : a[i].block = s[o + i] /\ a[i].trs = s[o + i].trs
      BY <2>3, <2>6, <3>1
    <3>3. LinkedFrom(a, o)
      BY <3>2, PartOfChain
    <3> QED
      BY <3>1, <3>3
  <2>8. n = RequestLimit \/ offset + n >= top
    BY <1>1, <1>3, <1>5, <2>1
  <2>9. Answered(reply')
    BY <2>3, <2>4, <2>7, <2>8 DEF Answered
  <2> QED
    BY <1>1, <2>4, <2>9 DEF ReaderOK
<1>8. CASE q = <<>>
  <2>1. PICK torn \in BOOLEAN : torn = (task.op = "delete" /\ task.done)
    OBVIOUS
  <2>2. /\ reader' = [op |-> "select", offset |-> offset, top |-> top, torn |-> torn,
                      blocks |-> <<>>]
        /\ UNCHANGED reply
    BY <1>4, <1>6, <1>8, <2>1 DEF SendBlocks
  <2>3. <<>> \in Seq(Block)
    BY EmptySeq
  <2>4. Len(table) \in Nat
    BY LenProperties DEF IInv, Base, TableOK
  <2>5. ~torn => top <= Len(table)
    <3> SUFFICES ASSUME ~torn PROVE top <= Len(table)
      OBVIOUS
    <3>1. Len(Known) <= Len(table)
      BY <1>2, <2>1
    <3> QED
      BY <1>3, <1>5, <2>4, <3>1
  <2>6. ReaderOK'
    BY <1>1, <1>5, <2>1, <2>2, <2>3, <2>5 DEF ReaderOK, Idle
  <2> QED
    BY <2>2, <2>6, AnswerMeaning DEF AnswerInv
<1> QED
  BY <1>7, <1>8

\* The first statement.
LEMMA SelectAnswers ==
  ASSUME IInv, IdsInv, AnswerInv, Select
  PROVE  ReaderOK' /\ Answered(reply')
<1>1. /\ reader.op = "select" /\ UNCHANGED <<table, task, running>>
      /\ reader # Idle /\ running
      /\ reader \in [op : {"select", "assign"}, offset : Nat, top : Nat, torn : BOOLEAN,
                     blocks : Seq(Block)]
      /\ ~reader.torn => reader.top <= Len(table) /\ ~(task.op = "delete" /\ task.done)
  BY DEF Select, AnswerInv, ReaderOK, Idle
<1>2. PICK o \in Nat, top \in Nat, torn \in BOOLEAN :
        o = reader.offset /\ top = reader.top /\ torn = reader.torn
  BY <1>1
<1>3. IsChain(table) /\ Joined(table) /\ table \in Seq(Block)
  BY LongestChain DEF IInv, IdsInv, Base, TableOK
<1>4. PICK m \in Nat, limit \in Nat \ {0} : m = Len(table) /\ limit = RequestLimit
  BY <1>3, LenProperties, LimitsAssumption
<1>5. PICK to \in Nat : to = IF o + limit < m THEN o + limit ELSE m
  OBVIOUS
<1>6. PICK n \in Nat : n = IF o + 1 <= to THEN to - o ELSE 0
  <2>1. o + 1 <= to => to - o \in Nat
    OBVIOUS
  <2> QED
    BY <2>1
<1>7. PICK rows : rows = Rows(limit, o)
  OBVIOUS
<1>8. rows = SubSeq(table, o + 1, to)
  BY <1>4, <1>5, <1>7 DEF Rows
<1>9. rows \in Seq(Block) /\ Len(rows) = n /\ \A i \in 1..n : rows[i] = table[o + i]
  <2>1. PICK k \in Nat \ {0} : k = o + 1
    OBVIOUS
  <2>2. to <= Len(table) /\ rows = SubSeq(table, k, to)
    BY <1>4, <1>5, <1>8, <2>1
  <2>3. /\ rows \in Seq(Block) /\ Len(rows) = IF k <= to THEN to - k + 1 ELSE 0
        /\ \A i \in 1..to - k + 1 : rows[i] = table[k + i - 1]
    BY <1>3, <2>2, Slice
  <2>4. Len(rows) = n
    BY <1>6, <2>1, <2>3
  <2>5. ASSUME NEW i \in 1..n PROVE rows[i] = table[o + i]
    <3>1. i \in 1..to - k + 1 /\ k + i - 1 = o + i
      BY <1>6, <2>1
    <3> QED
      BY <2>3, <3>1
  <2> QED
    BY <2>3, <2>4, <2>5
<1>10. n = limit \/ o + n >= m
  BY <1>5, <1>6
<1>11. n # 0 => o + n <= m
  BY <1>5, <1>6
<1>12. ToSet(rows) = {rows[i] : i \in 1..n}
  BY <1>9, SetOf
<1>13. ~torn => n = limit \/ o + n >= top
  BY <1>1, <1>2, <1>4, <1>10
<1>14. CASE \A b \in ToSet(rows) : b.trs = {}
  <2>1. PICK a : a = [i \in DOMAIN rows |-> Whole(rows[i])]
    OBVIOUS
  <2>2. Len(a) = n /\ \A i \in 1..n : a[i].block = rows[i] /\ a[i].trs = rows[i].trs
    <3>1. rows \in Seq(Block) /\ Len(rows) = n
      BY <1>9
    <3> QED
      BY <2>1, <3>1, AnswerLength
  <2>3. /\ reader' = Idle
        /\ reply' = [op |-> "reply", offset |-> o, blocks |-> a, top |-> top, torn |-> torn]
    BY <1>2, <1>4, <1>7, <1>14, <2>1 DEF Select, Reply
  <2>4. LinkedFrom(a, o)
    <3>1. CASE n = 0
      BY <2>2, <3>1 DEF LinkedFrom
    <3>2. CASE n # 0
      <4>1. PICK s : s = table
        OBVIOUS
      <4>2. /\ IsChain(s) /\ Joined(s) /\ o + n <= Len(s)
            /\ \A i \in 1..n : a[i].block = s[o + i] /\ a[i].trs = s[o + i].trs
        <5>1. IsChain(s) /\ Joined(s) /\ o + n <= Len(s)
          BY <1>3, <1>4, <1>11, <3>2, <4>1
        <5>2. \A i \in 1..n : a[i].block = s[o + i] /\ a[i].trs = rows[i].trs /\ rows[i] = s[o + i]
          BY <1>9, <2>2, <4>1
        <5> QED
          BY <5>1, <5>2
      <4>3. Len(a) = n
        BY <2>2
      <4> QED
        BY <4>2, <4>3, PartOfChain, ZenonT(30)
    <3> QED
      BY <3>1, <3>2
  <2>5. Answered(reply')
    BY <1>4, <1>13, <2>2, <2>3, <2>4 DEF Answered
  <2> QED
    BY <1>1, <2>3, <2>5 DEF ReaderOK
<1>15. CASE ~(\A b \in ToSet(rows) : b.trs = {})
  <2>1. reader' = [reader EXCEPT !.op = "assign", !.blocks = rows] /\ UNCHANGED reply
    BY <1>2, <1>4, <1>7, <1>15 DEF Select
  <2>2. PICK j \in 1..n : rows[j].trs # {}
    BY <1>12, <1>15
  <2>3. n # 0
    BY <2>2
  <2>4. /\ reader' \in [op : {"select", "assign"}, offset : Nat, top : Nat, torn : BOOLEAN,
                        blocks : Seq(Block)]
        /\ reader'.op = "assign" /\ reader'.offset = o /\ reader'.top = top
        /\ reader'.torn = torn /\ reader'.blocks = rows
    BY <1>1, <1>2, <1>9, <2>1
  <2>5. ReaderOK'
    <3>1. running' /\ Len(rows) = n /\ RequestLimit = limit /\ o + n <= Len(table')
      BY <1>1, <1>4, <1>9, <1>11, <2>3
    <3>2. ~torn => top <= Len(table') /\ ~(task'.op = "delete" /\ task'.done)
      BY <1>1, <1>2
    <3>3. \A i \in 1..Len(rows) : rows[i] = table'[o + i]
      BY <1>1, <1>9
    <3>4. \E i \in 1..Len(rows) : rows[i].trs # {}
      BY <1>9, <2>2
    <3> QED
      BY <1>13, <2>4, <3>1, <3>2, <3>3, <3>4 DEF ReaderOK
  <2> QED
    BY <2>1, <2>5, AnswerMeaning DEF AnswerInv
<1> QED
  BY <1>14, <1>15

\* The second statement.
LEMMA AssignAnswers ==
  ASSUME IInv, IdsInv, AnswerInv, Assign
  PROVE  ReaderOK' /\ Answered(reply')
<1>1. /\ reader.op = "assign" /\ reader # Idle /\ reader' = Idle
      /\ reader \in [op : {"select", "assign"}, offset : Nat, top : Nat, torn : BOOLEAN,
                     blocks : Seq(Block)]
  BY DEF Assign, AnswerInv, ReaderOK, Idle
<1>2. PICK o \in Nat, top \in Nat, torn \in BOOLEAN, rows \in Seq(Block) :
        o = reader.offset /\ top = reader.top /\ torn = reader.torn /\ rows = reader.blocks
  BY <1>1
<1>3. PICK found : found = UNION {b.trs : b \in ToSet(rows) \cap ToSet(table)}
  OBVIOUS
<1>4. PICK a : a = IF found = {} THEN <<>>
                   ELSE [i \in DOMAIN rows |-> [block |-> rows[i], trs |-> rows[i].trs \cap found]]
  OBVIOUS
<1>5. reply' = [op |-> "reply", offset |-> o, blocks |-> a, top |-> top, torn |-> torn]
  BY <1>2, <1>3, <1>4 DEF Assign, Reply
<1>6. CASE torn
  BY <1>1, <1>5, <1>6 DEF ReaderOK, Answered
<1>7. CASE ~torn
  <2>1. /\ Len(rows) = RequestLimit \/ o + Len(rows) >= top
        /\ o + Len(rows) <= Len(table)
        /\ \A i \in 1..Len(rows) : rows[i] = table[o + i]
        /\ \E i \in 1..Len(rows) : rows[i].trs # {}
    BY <1>1, <1>2, <1>7 DEF AnswerInv, ReaderOK
  <2>2. IsChain(table) /\ Joined(table) /\ table \in Seq(Block)
    BY LongestChain DEF IInv, IdsInv, Base, TableOK
  <2>3. PICK n \in Nat, m \in Nat : n = Len(rows) /\ m = Len(table)
    BY <2>2, LenProperties
  <2>4. /\ ToSet(rows) = {rows[i] : i \in 1..n} /\ ToSet(table) = {table[h] : h \in 1..m}
        /\ DOMAIN rows = 1..n
    BY <2>2, <2>3, SetOf, LenProperties
  <2>5. \A i \in 1..n : rows[i] \in ToSet(rows) \cap ToSet(table)
    <3> TAKE i \in 1..n
    <3>1. o + i \in 1..m
      BY <2>1, <2>3
    <3> QED
      BY <2>1, <2>3, <2>4, <3>1
  <2>6. \A i \in 1..n : rows[i].trs \subseteq found
    BY <1>3, <2>5
  <2>7. found # {}
    BY <2>1, <2>3, <2>6
  <2>8. a = [i \in 1..n |-> [block |-> rows[i], trs |-> rows[i].trs \cap found]]
    BY <1>4, <2>4, <2>7
  <2>9. \A i \in 1..n : rows[i] \in Block /\ rows[i].trs \cap found \in SUBSET Transactions
    <3>1. \A i \in 1..n : rows[i] \in Block
      BY <2>3, ElementOfSeq
    <3> QED
      BY <3>1 DEF Block
  <2>10. a \in [1..n -> [block : Block, trs : SUBSET Transactions]]
    BY <2>8, <2>9
  <2>11. Len(a) = n
    BY <2>10, FunctionIsSeq
  <2>12. \A i \in 1..n : a[i].block = rows[i] /\ a[i].trs = rows[i].trs
    <3> TAKE i \in 1..n
    <3>1. rows[i].trs \cap found = rows[i].trs
      BY <2>6
    <3> QED
      BY <2>8, <3>1
  <2>13. PICK s : s = table
    OBVIOUS
  <2>14. /\ IsChain(s) /\ Joined(s) /\ o + n <= Len(s)
         /\ \A i \in 1..n : a[i].block = s[o + i] /\ a[i].trs = s[o + i].trs
    BY <2>1, <2>2, <2>3, <2>12, <2>13
  <2>15. LinkedFrom(a, o)
    BY <2>11, <2>14, PartOfChain
  <2>16. Answered(reply')
    BY <1>5, <2>1, <2>3, <2>11, <2>15 DEF Answered
  <2> QED
    BY <1>1, <2>16 DEF ReaderOK
<1> QED
  BY <1>6, <1>7

LEMMA AnswerNext == IInv /\ IdsInv /\ AnswerInv /\ [Next]_vars => AnswerInv'
<1> SUFFICES ASSUME IInv, IdsInv, AnswerInv, [Next]_vars
             PROVE  ReaderOK' /\ Answered(reply')
  BY AnswerMeaning DEF AnswerInv, AnswerIsChain, Answered, LinkedFrom
<1>1. TaskOK /\ ReaderOK /\ Answered(reply) /\ Len(table) \in Nat
  BY AnswerMeaning, LenProperties DEF IInv, Base, AnswerInv, TableOK
<1>2. ASSUME UNCHANGED <<table, running, read>>,
             ~(task'.op = "delete" /\ task'.done) \/ task' = task
      PROVE  ReaderOK' /\ Answered(reply')
  BY <1>1, <1>2 DEF ReaderOK, read
<1>3. ASSUME reader' = Idle, reply' = Idle PROVE ReaderOK' /\ Answered(reply')
  BY <1>3 DEF ReaderOK, Answered
<1>4. CASE Crash \/ ReadFails
  BY <1>3, <1>4 DEF Crash, ReadFails
<1>5. CASE (\E trs \in SUBSET Transactions : Save(trs)) \/ Delete \/ CommitFails \/ Continue
  <2>1. UNCHANGED <<table, running, read>> /\ ~(task'.op = "delete" /\ task'.done)
    BY <1>5 DEF Save, Delete, CommitFails, Continue, NoTask
  <2> QED
    BY <1>2, <2>1
<1>6. CASE Load \/ UNCHANGED vars
  BY <1>2, <1>6 DEF Load, vars
<1>7. CASE Loaded
  <2>1. UNCHANGED <<table, read, task>> /\ reader = Idle
    BY <1>1, <1>7 DEF Loaded, ReaderOK
  <2> QED
    BY <1>1, <2>1 DEF read, ReaderOK
<1>8. CASE Commit
  <2>1. /\ task.op \in {"save", "delete"} /\ task' = [task EXCEPT !.done = TRUE]
        /\ task'.op = task.op /\ task.block \in Block /\ ~task.done
        /\ UNCHANGED <<running, reply>>
    BY <1>1, <1>8 DEF Commit, TaskOK
  <2>2. CASE reader = Idle
    <3>1. reader' = Idle
      BY <1>8, <2>2 DEF Commit
    <3> QED
      BY <1>1, <2>1, <3>1 DEF ReaderOK
  <2>3. CASE reader # Idle /\ task.op = "delete"
    <3>1. reader' = [reader EXCEPT !.torn = TRUE]
      BY <1>8, <2>3 DEF Commit
    <3>2. /\ reader' \in [op : {"select", "assign"}, offset : Nat, top : Nat, torn : BOOLEAN,
                          blocks : Seq(Block)]
          /\ reader'.torn /\ running
      BY <1>1, <2>3, <3>1 DEF ReaderOK
    <3> QED
      BY <1>1, <2>1, <3>2 DEF ReaderOK
  <2>4. CASE reader # Idle /\ task.op = "save"
    <3>1. reader' = reader /\ table' = Append(table, task.block)
      BY <1>8, <2>4 DEF Commit
    <3>2. PICK n \in Nat, m \in Nat : n = Len(table) /\ m = n + 1
      BY <1>1
    <3>3. /\ Len(table') = m /\ \A h \in 1..n : table'[h] = table[h]
      <4>1. table \in Seq(Block)
        BY DEF IInv, Base, TableOK
      <4> QED
        BY <2>1, <3>1, <3>2, <4>1, AppendProperties
    <3>4. PICK o \in Nat, top \in Nat, torn \in BOOLEAN, rows \in Seq(Block) :
            o = reader.offset /\ top = reader.top /\ torn = reader.torn /\ rows = reader.blocks
      BY <1>1, <2>4 DEF ReaderOK
    <3>5. ~torn => top <= m
      BY <1>1, <2>4, <3>2, <3>4 DEF ReaderOK
    <3>6. PICK k \in Nat : k = Len(rows)
      BY LenProperties
    <3>7. ASSUME ~torn, reader.op = "assign"
          PROVE  /\ k = RequestLimit \/ o + k >= top
                 /\ o + k <= m
                 /\ \A i \in 1..k : rows[i] = table'[o + i]
                 /\ \E i \in 1..k : rows[i].trs # {}
      <4>1. /\ k = RequestLimit \/ o + k >= top
            /\ o + k <= n
            /\ \A i \in 1..k : rows[i] = table[o + i]
            /\ \E i \in 1..k : rows[i].trs # {}
        BY <1>1, <2>4, <3>2, <3>4, <3>6, <3>7 DEF ReaderOK
      <4>2. \A i \in 1..k : o + i \in 1..n
        BY <4>1
      <4>3. \A i \in 1..k : rows[i] = table'[o + i]
        BY <3>3, <4>1, <4>2
      <4>4. o + k <= m
        BY <3>2, <4>1
      <4> QED
        BY <4>1, <4>3, <4>4
    <3>8. ~(task'.op = "delete" /\ task'.done)
      BY <2>1, <2>4
    <3> QED
      BY <1>1, <2>1, <2>4, <3>1, <3>3, <3>4, <3>5, <3>6, <3>7, <3>8 DEF ReaderOK
  <2> QED
    BY <2>1, <2>2, <2>3, <2>4
<1>9. CASE (\E offset \in 0..MaxIds : SendBlocks(offset)) \/ Select \/ Assign
  BY <1>9, SendBlocksAnswers, SelectAnswers, AssignAnswers
<1> QED
  BY <1>4, <1>5, <1>6, <1>7, <1>8, <1>9 DEF Next

-----------------------------------------------------------------------------
(* The theorems.                                                           *)

\* However many blocks were saved, deleted, evicted and loaded, and whatever
\* failed on the way, memory is the end of the chain that the code knows, in all
\* three indexes (BlockStorageService.push, cleanup, popLast).
THEOREM MemoryIsTheEndOfTheChain == Spec => []WindowIsTail
<1>1. IInv => WindowIsTail
  BY DEF IInv
<1> QED
  BY IInvInit, IInvNext, <1>1, PTL DEF Spec

\* What the code knows of the whole chain, the evicted blocks included, are the
\* ids and heights of its blocks and the ids of its transactions, so that none of
\* them is accepted twice; the transactions themselves are those of the blocks in
\* memory (BlockStorageService.has, TransactionStorage).
THEOREM IdsAreThoseOfTheChain == Spec => []IdsOfChain
<1>1. IInv /\ IdsInv => IdsOfChain
  BY IdsOfKnown
<1> QED
  BY IInvInit, IInvNext, IdsInit, IdsNext, <1>1, PTL DEF Spec

\* A peer that asks for blocks gets linked and whole ones from the height it
\* named, and up to the last block when it gets fewer than it may: from memory,
\* or from two statements between which blocks are saved, and unless one is
\* deleted meanwhile (sendBlocks, getMany, assignTransactions).
THEOREM AnswersAreTheChain == Spec => []AnswerIsChain
<1>1. AnswerInv => AnswerIsChain
  BY DEF AnswerInv
<1> QED
  BY IInvInit, IInvNext, IdsInit, IdsNext, AnswerInit, AnswerNext, <1>1, PTL DEF Spec

\* A node that has deleted fewer than MEMORY_BLOCKS_LIMIT blocks from its highest
\* one has a last block: getLast of the main task is not null.
LastBlockKnown ==
    running /\ Len(Known) # 0 /\ peak < Len(Known) + MemoryLimit =>
        memory # <<>> /\ Last(memory) = Known[Len(Known)]

THEOREM LastBlockIsKnown == Spec => []LastBlockKnown
<1>1. IInv => LastBlockKnown
  <2> SUFFICES ASSUME IInv, running, Len(Known) # 0, peak < Len(Known) + MemoryLimit
               PROVE  memory # <<>> /\ Last(memory) = Known[Len(Known)]
    BY DEF LastBlockKnown
  <2>1. /\ IsChain(Known) /\ Len(Known) \in Nat \ {0} /\ Low \in Nat \ {0}
        /\ peak \in Nat /\ Len(Known) <= peak
    BY KnownChain, LowProperties, LenProperties DEF IInv, Base, IsChain, CountersOK
  <2>2. Low <= Len(Known)
    BY <2>1, LimitsAssumption DEF Low
  <2>3. Known \in Seq(Block) /\ memory = SubSeq(Known, Low, Len(Known))
    BY <2>1 DEF IInv, WindowIsTail, IsChain
  <2>4. PICK m : m = memory
    OBVIOUS
  <2>5. m = SubSeq(Known, Low, Len(Known)) /\ Len(m) = Len(Known) - Low + 1 /\ m \in Seq(Block)
    BY <2>1, <2>2, <2>3, <2>4, EndElements
  <2>6. memory # <<>>
    <3>1. Len(m) # 0
      BY <2>1, <2>2, <2>5
    <3> QED
      BY <2>4, <3>1, EmptySeq
  <2> QED
    BY <2>1, <2>3, <2>6, LastInMemory
<1> QED
  BY IInvInit, IInvNext, <1>1, PTL DEF Spec
=============================================================================
