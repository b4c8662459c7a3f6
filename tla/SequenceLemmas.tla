--------------------------- MODULE SequenceLemmas ---------------------------
(***************************************************************************)
(* What the proofs about the components need to know of sequences and of   *)
(* sums: the parts of a sequence, the set of its elements, sequences       *)
(* without duplicates, the induction that functions defined along a        *)
(* sequence call for, sums over finite sets, and the induction along a     *)
(* fold. A fold and what is claimed of it are the module's parameters: a   *)
(* proof about a fold instantiates the module with them, and a proof       *)
(* without folds extends SequenceFacts.                                    *)
(***************************************************************************)
EXTENDS Integers, Sequences, SequencesExt, SequenceTheorems,
        FiniteSetTheorems, WellFoundedInduction, TLAPS

CONSTANTS
    Op(_, _),           \* what is folded over a sequence
    Holds(_, _, _, _)   \* Holds(p, s, v, k): of the value v after k elements of s

-----------------------------------------------------------------------------
(* Induction and recursion over the natural numbers.                       *)

\* Induction, with a set in the place of a predicate.
LEMMA Induction ==
  ASSUME NEW T, 0 \in T, \A n \in Nat : n \in T => n + 1 \in T
  PROVE  Nat \subseteq T
<1> DEFINE U == Nat \ T
<1> SUFFICES ASSUME U # {} PROVE FALSE
  OBVIOUS
<1>1. PICK x \in U : \A y \in U : ~(<<y, x>> \in OpToRel(<, Nat))
  BY NatLessThanWellFounded, WFMin
<1>2. x \in Nat \ {0}
  OBVIOUS
<1>3. x - 1 \in Nat /\ <<x - 1, x>> \in OpToRel(<, Nat)
  BY <1>2 DEF OpToRel
<1>4. x - 1 \in T
  BY <1>1, <1>3
<1>5. PICK y \in Nat : y = x - 1
  BY <1>3
<1>6. y + 1 = x /\ y + 1 \in T
  BY <1>2, <1>4, <1>5
<1> QED
  BY <1>6

\* A set of numbers has a smallest one.
LEMMA Smallest ==
  ASSUME NEW T \in SUBSET Nat, T # {}
  PROVE  \E n \in T : \A k \in T : n <= k
<1>1. PICK n \in T : \A k \in T : ~(<<k, n>> \in OpToRel(<, Nat))
  BY NatLessThanWellFounded, WFMin
<1>2. \A k \in T : ~(k < n)
  BY <1>1 DEF OpToRel
<1> QED
  BY <1>2

\* step[i] leads from T to T.
Steps(step, n, T) == \A i \in 1..n, v \in T : step[i][v] \in T

\* f starts with base, and step[i] leads from its value at i - 1 to that at i.
IsRun(f, base, step, n) ==
  f[0] = base /\ \A i \in 1..n : f[i] = step[i][f[i - 1]]

\* So a function can be defined by recursion over 0..n.
LEMMA Recursion ==
  ASSUME NEW T, NEW base \in T, NEW n \in Nat, NEW step, Steps(step, n, T)
  PROVE  \E f \in [0..n -> T] : IsRun(f, base, step, n)
<1> DEFINE D == {k \in Nat : k <= n =>
                   \E f \in [0..k -> T] : IsRun(f, base, step, k)}
<1>1. 0 \in D
  <2>1. PICK f : f = [i \in 0..0 |-> base]
    OBVIOUS
  <2>2. f \in [0..0 -> T] /\ f[0] = base /\ 1..0 = {}
    BY <2>1
  <2>3. IsRun(f, base, step, 0)
    BY <2>2 DEF IsRun
  <2> QED
    BY <2>2, <2>3
<1>2. ASSUME NEW k \in Nat, k \in D PROVE k + 1 \in D
  <2>1. SUFFICES ASSUME k + 1 <= n
                 PROVE  \E f \in [0..k + 1 -> T] : IsRun(f, base, step, k + 1)
    OBVIOUS
  <2>2. PICK f \in [0..k -> T] : IsRun(f, base, step, k)
    BY <1>2, <2>1
  <2>3. PICK g : g = [i \in 0..k + 1 |->
                        IF i = k + 1 THEN step[k + 1][f[k]] ELSE f[i]]
    OBVIOUS
  <2>4. f[k] \in T /\ step[k + 1][f[k]] \in T
    BY <2>1 DEF Steps
  <2>5. g \in [0..k + 1 -> T]
    BY <2>3, <2>4
  <2>6. g[0] = base
    BY <2>2, <2>3 DEF IsRun
  <2>7. \A i \in 1..k + 1 : g[i] = step[i][g[i - 1]]
    <3> TAKE i \in 1..k + 1
    <3>1. CASE i = k + 1
      BY <2>3, <3>1
    <3>2. CASE i # k + 1
      <4>1. i \in 1..k /\ i \in 0..k + 1 /\ i - 1 \in 0..k + 1 /\ i - 1 # k + 1
        BY <3>2
      <4> QED
        BY <2>2, <2>3, <3>2, <4>1 DEF IsRun
    <3> QED
      BY <3>1, <3>2
  <2> QED
    BY <2>5, <2>6, <2>7 DEF IsRun
<1>3. Nat \subseteq D
  <2> HIDE DEF D
  <2> QED
    BY <1>1, <1>2, Induction
<1>4. n \in D
  BY <1>3
<1> QED
  BY <1>4

-----------------------------------------------------------------------------
(* Parts of a sequence.                                                    *)

\* A part of a sequence that does not go beyond its end.
LEMMA Slice ==
  ASSUME NEW S, NEW s \in Seq(S), NEW m \in Nat \ {0}, NEW n \in Nat, n <= Len(s)
  PROVE  /\ SubSeq(s, m, n) \in Seq(S)
         /\ Len(SubSeq(s, m, n)) = IF m <= n THEN n - m + 1 ELSE 0
         /\ \A i \in 1..n - m + 1 : SubSeq(s, m, n)[i] = s[m + i - 1]
<1>1. Len(s) \in Nat
  BY LenProperties
<1>2. \A i \in m..n : i \in 1..Len(s)
  BY <1>1
<1>3. \A i \in m..n : s[i] \in S
  BY <1>2, ElementOfSeq
<1> QED
  BY <1>3, SubSeqProperties

\* All but the last element.
LEMMA FrontElements ==
  ASSUME NEW S, NEW s \in Seq(S), s # <<>>
  PROVE  /\ Front(s) \in Seq(S)
         /\ Len(Front(s)) = Len(s) - 1
         /\ \A i \in 1..Len(s) - 1 : Front(s)[i] = s[i]
<1>1. Len(s) \in Nat \ {0}
  BY EmptySeq, LenProperties
<1>2. PICK n \in Nat : n = Len(s) - 1
  BY <1>1
<1>3. /\ SubSeq(s, 1, n) \in Seq(S)
      /\ Len(SubSeq(s, 1, n)) = IF 1 <= n THEN n - 1 + 1 ELSE 0
      /\ \A i \in 1..n - 1 + 1 : SubSeq(s, 1, n)[i] = s[1 + i - 1]
  BY <1>1, <1>2, Slice
<1>4. \A i \in 1..n : SubSeq(s, 1, n)[i] = s[i]
  <2> TAKE i \in 1..n
  <2>1. i \in 1..n - 1 + 1 /\ 1 + i - 1 = i
    OBVIOUS
  <2> QED
    BY <1>3, <2>1
<1>5. Len(SubSeq(s, 1, n)) = n
  BY <1>3
<1> QED
  BY <1>2, <1>3, <1>4, <1>5 DEF Front

\* Front undoes Append.
LEMMA FrontOfAppend ==
  ASSUME NEW S, NEW s \in Seq(S), NEW e \in S
  PROVE  Front(Append(s, e)) = s
<1>1. /\ Append(s, e) \in Seq(S) /\ Append(s, e) # <<>>
      /\ Len(Append(s, e)) = Len(s) + 1
      /\ \A i \in 1..Len(s) : Append(s, e)[i] = s[i]
  BY AppendProperties
<1>2. PICK t : t = Append(s, e)
  OBVIOUS
<1>3. /\ t \in Seq(S) /\ t # <<>> /\ Len(t) = Len(s) + 1
      /\ \A i \in 1..Len(s) : t[i] = s[i]
  BY <1>1, <1>2
<1>4. /\ Front(t) \in Seq(S) /\ Len(Front(t)) = Len(t) - 1
      /\ \A i \in 1..Len(t) - 1 : Front(t)[i] = t[i]
  BY <1>3, FrontElements
<1>5. Len(s) \in Nat /\ Len(t) - 1 = Len(s)
  BY <1>3, LenProperties
<1>6. Len(Front(t)) = Len(s) /\ \A i \in 1..Len(s) : Front(t)[i] = s[i]
  BY <1>3, <1>4, <1>5
<1> QED
  BY <1>2, <1>4, <1>6, SeqEqual

\* A function on 1..n is a sequence.
LEMMA FunctionIsSeq ==
  ASSUME NEW S, NEW n \in Nat, NEW f \in [1..n -> S]
  PROVE  f \in Seq(S) /\ Len(f) = n
<1>1. f \in Seq(S)
  BY SeqDef
<1>2. Len(f) \in Nat /\ DOMAIN f = 1..Len(f) /\ DOMAIN f = 1..n
  BY <1>1, LenProperties
<1> QED
  BY <1>1, <1>2

\* The end of a sequence.
LEMMA EndElements ==
  ASSUME NEW S, NEW s \in Seq(S), NEW low \in Nat \ {0},
         NEW m, m = SubSeq(s, low, Len(s))
  PROVE  /\ m \in Seq(S)
         /\ Len(m) = IF low <= Len(s) THEN Len(s) - low + 1 ELSE 0
         /\ \A i \in 1..Len(m) : m[i] = s[low + i - 1]
<1>0. Len(s) \in Nat
  BY LenProperties
<1>1. /\ m \in Seq(S)
      /\ Len(m) = IF low <= Len(s) THEN Len(s) - low + 1 ELSE 0
      /\ \A i \in 1..Len(s) - low + 1 : m[i] = s[low + i - 1]
  BY <1>0, Slice
<1>2. \A i \in 1..Len(m) : m[i] = s[low + i - 1]
  BY <1>0, <1>1
<1> QED
  BY <1>1, <1>2

\* Its elements.
LEMMA EndSet ==
  ASSUME NEW S, NEW s \in Seq(S), NEW low \in Nat \ {0}
  PROVE  ToSet(SubSeq(s, low, Len(s))) = {s[h] : h \in low..Len(s)}
<1>0. Len(s) \in Nat
  BY LenProperties
<1>1. PICK m : m = SubSeq(s, low, Len(s))
  OBVIOUS
<1>2. /\ m \in Seq(S)
      /\ Len(m) = IF low <= Len(s) THEN Len(s) - low + 1 ELSE 0
      /\ \A i \in 1..Len(m) : m[i] = s[low + i - 1]
  BY <1>1, EndElements
<1>3. ToSet(m) = {m[i] : i \in 1..Len(m)}
  BY <1>2, LenProperties DEF ToSet
<1>4. ASSUME NEW i \in 1..Len(m) PROVE \E h \in low..Len(s) : m[i] = s[h]
  <2>1. low + i - 1 \in low..Len(s)
    BY <1>0, <1>2
  <2> QED
    BY <1>2, <2>1
<1>5. ASSUME NEW h \in low..Len(s) PROVE \E i \in 1..Len(m) : m[i] = s[h]
  <2>1. h - low + 1 \in 1..Len(m) /\ low + (h - low + 1) - 1 = h
    BY <1>0, <1>2
  <2> QED
    BY <1>2, <2>1
<1>6. ToSet(m) \subseteq {s[h] : h \in low..Len(s)}
  BY <1>3, <1>4
<1>7. {s[h] : h \in low..Len(s)} \subseteq ToSet(m)
  BY <1>3, <1>5
<1> QED
  BY <1>1, <1>6, <1>7

-----------------------------------------------------------------------------
(* The elements of a sequence.                                             *)

\* The set of the elements, by position.
LEMMA SetOf ==
  ASSUME NEW S, NEW s \in Seq(S)
  PROVE  /\ ToSet(s) = {s[i] : i \in 1..Len(s)}
         /\ ToSet(s) \subseteq S
         /\ s # <<>> <=> ToSet(s) # {}
<1>1. Len(s) \in Nat /\ DOMAIN s = 1..Len(s) /\ \A i \in 1..Len(s) : s[i] \in S
  BY LenProperties, ElementOfSeq
<1>2. s # <<>> <=> Len(s) # 0
  BY <1>1, EmptySeq
<1>3. Len(s) # 0 => 1 \in 1..Len(s)
  BY <1>1
<1>4. Len(s) = 0 => 1..Len(s) = {}
  BY <1>1
<1> QED
  BY <1>1, <1>2, <1>3, <1>4 DEF ToSet

\* The first element is one of them.
LEMMA FirstInSet ==
  ASSUME NEW S, NEW s \in Seq(S), s # <<>>
  PROVE  Head(s) \in ToSet(s)
<1>1. 1 \in 1..Len(s) /\ Head(s) = s[1]
  <2>1. Len(s) \in Nat \ {0}
    BY EmptySeq
  <2> QED
    BY <2>1, SMT
<1> QED
  BY <1>1, SetOf

\* No element of it occurs twice.
LEMMA Distinct ==
  ASSUME NEW S, NEW s \in Seq(S)
  PROVE  IsInjective(s) <=> \A i, j \in 1..Len(s) : s[i] = s[j] => i = j
BY LenProperties DEF IsInjective

\* Append adds its element, and keeps it a sequence without duplicates when the
\* element is new.
LEMMA AppendSet ==
  ASSUME NEW S, NEW s \in Seq(S), NEW e \in S
  PROVE  /\ ToSet(Append(s, e)) = ToSet(s) \cup {e}
         /\ IsInjective(s) /\ e \notin ToSet(s) => IsInjective(Append(s, e))
<1>1. PICK t : t = Append(s, e)
  OBVIOUS
<1>2. /\ t \in Seq(S) /\ Len(t) = Len(s) + 1
      /\ \A i \in 1..Len(s) : t[i] = s[i]
      /\ t[Len(s) + 1] = e
  BY <1>1, AppendProperties
<1>3. Len(s) \in Nat
  BY LenProperties
<1>4. ToSet(s) = {s[i] : i \in 1..Len(s)} /\ ToSet(t) = {t[i] : i \in 1..Len(t)}
  BY <1>2, SetOf
<1>5. 1..Len(t) = 1..Len(s) \cup {Len(s) + 1}
  BY <1>2, <1>3
<1>6. ToSet(t) = ToSet(s) \cup {e}
  BY <1>2, <1>4, <1>5
<1>7. ASSUME IsInjective(s), e \notin ToSet(s) PROVE IsInjective(t)
  <2>1. \A i, j \in 1..Len(s) : s[i] = s[j] => i = j
    BY <1>7, Distinct
  <2>2. \A i \in 1..Len(s) : t[i] # e
    BY <1>2, <1>4, <1>7
  <2>3. \A i, j \in 1..Len(t) : t[i] = t[j] => i = j
    BY <1>2, <1>5, <2>1, <2>2
  <2> QED
    BY <1>2, <2>3, Distinct
<1> QED
  BY <1>1, <1>6, <1>7

\* The elements of two sequences, one after the other.
LEMMA ConcatSet ==
  ASSUME NEW S, NEW s \in Seq(S), NEW t \in Seq(S)
  PROVE  /\ ToSet(s \o t) = ToSet(s) \cup ToSet(t)
         /\ IsInjective(s) /\ IsInjective(t) /\ ToSet(s) \cap ToSet(t) = {}
               => IsInjective(s \o t)
<1>1. PICK u : u = s \o t
  OBVIOUS
<1>2. PICK m \in Nat, n \in Nat : m = Len(s) /\ n = Len(t)
  BY LenProperties
<1>3. /\ u \in Seq(S) /\ Len(u) = m + n
      /\ \A i \in 1..m + n : u[i] = IF i <= m THEN s[i] ELSE t[i - m]
  BY <1>1, <1>2, ConcatProperties
<1>4. \A i \in 1..m : i \in 1..m + n /\ u[i] = s[i]
  BY <1>3
<1>5. \A j \in 1..n : j + m \in 1..m + n /\ u[j + m] = t[j]
  BY <1>3
<1>6. \A i \in 1..m + n : i \in 1..m \/ \E j \in 1..n : i = j + m
  <2> TAKE i \in 1..m + n
  <2>1. i > m => i - m \in 1..n /\ i = (i - m) + m
    OBVIOUS
  <2> QED
    BY <2>1
<1>7. /\ ToSet(s) = {s[i] : i \in 1..m} /\ ToSet(t) = {t[i] : i \in 1..n}
      /\ ToSet(u) = {u[i] : i \in 1..m + n}
  BY <1>2, <1>3, SetOf
<1>8. ToSet(u) = ToSet(s) \cup ToSet(t)
  <2>1. ASSUME NEW x \in ToSet(u) PROVE x \in ToSet(s) \cup ToSet(t)
    <3>1. PICK k \in 1..m + n : x = u[k]
      BY <1>7
    <3>2. CASE k \in 1..m
      BY <1>4, <1>7, <3>1, <3>2
    <3>3. CASE \E j \in 1..n : k = j + m
      BY <1>5, <1>7, <3>1, <3>3
    <3> QED
      BY <1>6, <3>2, <3>3
  <2>2. \A x \in ToSet(s) \cup ToSet(t) : x \in ToSet(u)
    BY <1>4, <1>5, <1>7
  <2> QED
    BY <2>1, <2>2
<1>9. ASSUME IsInjective(s), IsInjective(t), ToSet(s) \cap ToSet(t) = {}
      PROVE  IsInjective(u)
  <2>1. \A i, j \in 1..m : s[i] = s[j] => i = j
    BY <1>2, <1>9, Distinct
  <2>2. \A i, j \in 1..n : t[i] = t[j] => i = j
    BY <1>2, <1>9, Distinct
  <2>3. \A i \in 1..m, j \in 1..n : s[i] # t[j]
    BY <1>7, <1>9
  <2>4. ASSUME NEW i \in 1..m + n, NEW j \in 1..m + n, u[i] = u[j] PROVE i = j
    <3>1. CASE i \in 1..m /\ j \in 1..m
      BY <1>4, <2>1, <2>4, <3>1
    <3>2. ASSUME NEW k \in 1..n, i = k + m PROVE i = j
      <4>1. CASE j \in 1..m
        BY <1>4, <1>5, <2>3, <2>4, <3>2, <4>1
      <4>2. CASE \E l \in 1..n : j = l + m
        <5>1. PICK l \in 1..n : j = l + m
          BY <4>2
        <5>2. t[k] = t[l]
          BY <1>5, <2>4, <3>2, <5>1
        <5> QED
          BY <2>2, <3>2, <5>1, <5>2
      <4> QED
        BY <1>6, <4>1, <4>2
    <3>3. ASSUME NEW k \in 1..n, j = k + m, i \in 1..m PROVE i = j
      BY <1>4, <1>5, <2>3, <2>4, <3>3
    <3> QED
      BY <1>6, <3>1, <3>2, <3>3
  <2> QED
    BY <1>3, <2>4, Distinct
<1> QED
  BY <1>1, <1>8, <1>9

\* Tail takes the first element away.
LEMMA TailSet ==
  ASSUME NEW S, NEW s \in Seq(S), s # <<>>
  PROVE  /\ ToSet(s) = {Head(s)} \cup ToSet(Tail(s))
         /\ IsInjective(s) => Head(s) \notin ToSet(Tail(s)) /\ IsInjective(Tail(s))
<1>1. PICK t : t = Tail(s)
  OBVIOUS
<1>2. PICK n \in Nat \ {0} : n = Len(s)
  BY EmptySeq
<1>3. t \in Seq(S) /\ Len(t) = n - 1 /\ \A i \in 1..n - 1 : t[i] = s[i + 1]
  BY <1>1, <1>2, HeadTailProperties
<1>4. Head(s) = s[1]
  BY SMT
<1>5. \A i \in 1..n : i = 1 \/ (i - 1 \in 1..n - 1 /\ t[i - 1] = s[i])
  <2> TAKE i \in 1..n
  <2>1. i # 1 => i - 1 \in 1..n - 1 /\ (i - 1) + 1 = i
    OBVIOUS
  <2> QED
    BY <1>3, <2>1
<1>6. \A i \in 1..n - 1 : i + 1 \in 1..n /\ t[i] = s[i + 1]
  BY <1>3
<1>7. ToSet(s) = {s[i] : i \in 1..n} /\ ToSet(t) = {t[i] : i \in 1..n - 1}
  BY <1>2, <1>3, SetOf
<1>8. ToSet(s) = {s[1]} \cup ToSet(t)
  <2>1. ASSUME NEW x \in ToSet(s) PROVE x \in {s[1]} \cup ToSet(t)
    <3>1. PICK k \in 1..n : x = s[k]
      BY <1>7
    <3> QED
      BY <1>5, <1>7, <3>1
  <2>2. ASSUME NEW x \in {s[1]} \cup ToSet(t) PROVE x \in ToSet(s)
    <3>1. 1 \in 1..n
      OBVIOUS
    <3> QED
      BY <1>6, <1>7, <3>1
  <2> QED
    BY <2>1, <2>2
<1>9. ASSUME IsInjective(s) PROVE s[1] \notin ToSet(t) /\ IsInjective(t)
  <2>1. \A i, j \in 1..n : s[i] = s[j] => i = j
    BY <1>2, <1>9, Distinct
  <2>2. \A i \in 1..n - 1 : i + 1 # 1
    OBVIOUS
  <2>3. s[1] \notin ToSet(t)
    BY <1>6, <1>7, <2>1, <2>2
  <2>4. \A i, j \in 1..n - 1 : t[i] = t[j] => i = j
    BY <1>6, <2>1
  <2> QED
    BY <1>3, <2>3, <2>4, Distinct
<1> QED
  BY <1>1, <1>4, <1>8, <1>9

\* RemoveFirst takes one element out of a sequence without duplicates.
LEMMA RemoveSet ==
  ASSUME NEW S, NEW s \in Seq(S), IsInjective(s), NEW e
  PROVE  /\ RemoveFirst(s, e) \in Seq(S)
         /\ ToSet(RemoveFirst(s, e)) = ToSet(s) \ {e}
         /\ IsInjective(RemoveFirst(s, e))
<1>1. PICK n \in Nat : n = Len(s)
  BY LenProperties
<1>2. /\ ToSet(s) = {s[i] : i \in 1..n}
      /\ \A i, j \in 1..n : s[i] = s[j] => i = j
  BY <1>1, SetOf, Distinct
<1>3. CASE e \notin ToSet(s)
  <2>1. RemoveFirst(s, e) = s
    BY <1>1, <1>2, <1>3 DEF RemoveFirst
  <2> QED
    BY <1>3, <2>1
<1>4. CASE e \in ToSet(s)
  <2>1. PICK k \in 1..n : s[k] = e
    BY <1>2, <1>4
  <2>2. {i \in 1..Len(s) : s[i] = e} = {k}
    BY <1>1, <1>2, <2>1
  <2>3. Min({k}) = k
    BY <2>1 DEF Min
  <2>4. SelectInSeq(s, LAMBDA v : v = e) = k
    BY <2>2, <2>3 DEF SelectInSeq
  <2>5. RemoveFirst(s, e) = SubSeq(s, 1, k - 1) \o SubSeq(s, k + 1, n)
    BY <1>1, <2>1, <2>4 DEF RemoveFirst, RemoveAt
  <2>6. PICK a, b : a = SubSeq(s, 1, k - 1) /\ b = SubSeq(s, k + 1, n)
    OBVIOUS
  <2>7. /\ a \in Seq(S) /\ Len(a) = k - 1
        /\ \A i \in 1..k - 1 : a[i] = s[i]
    <3>1. k - 1 \in Nat /\ k - 1 <= Len(s)
      BY <1>1
    <3>2. /\ a \in Seq(S) /\ Len(a) = IF 1 <= k - 1 THEN k - 1 - 1 + 1 ELSE 0
          /\ \A i \in 1..k - 1 - 1 + 1 : a[i] = s[1 + i - 1]
      BY <2>6, <3>1, Slice
    <3> QED
      BY <3>1, <3>2
  <2>8. /\ b \in Seq(S) /\ Len(b) = n - k
        /\ \A i \in 1..n - k : b[i] = s[k + i]
    <3>1. PICK j \in Nat \ {0} : j = k + 1
      BY <1>1
    <3>2. /\ b \in Seq(S) /\ Len(b) = IF j <= n THEN n - j + 1 ELSE 0
          /\ \A i \in 1..n - j + 1 : b[i] = s[j + i - 1]
      BY <1>1, <2>6, <3>1, Slice
    <3>3. PICK m : m = n - k
      OBVIOUS
    <3>4. m \in Nat /\ m = n - j + 1 /\ (j > n => m = 0)
      BY <1>1, <3>1, <3>3
    <3>5. \A i \in 1..m : j + i - 1 = k + i
      BY <1>1, <3>1
    <3>6. Len(b) = m
      BY <3>2, <3>4
    <3>7. \A i \in 1..m : b[i] = s[k + i]
      BY <3>2, <3>5, <3>4
    <3> QED
      BY <3>2, <3>3, <3>6, <3>7
  <2>9. /\ \A i \in 1..k - 1 : i \in 1..n /\ i < k
        /\ \A i \in 1..n - k : k + i \in 1..n /\ k + i > k
        /\ \A i \in 1..n : i # k => i \in 1..k - 1 \/ (i - k \in 1..n - k /\ k + (i - k) = i)
    OBVIOUS
  <2>10. ToSet(a) = {a[i] : i \in 1..k - 1} /\ ToSet(b) = {b[i] : i \in 1..n - k}
    BY <2>7, <2>8, SetOf
  <2>11. \A i, j \in 1..k - 1 : a[i] = a[j] => i = j
    BY <1>2, <2>7, <2>9
  <2>12. \A i, j \in 1..n - k : b[i] = b[j] => i = j
    <3> TAKE i, j \in 1..n - k
    <3>1. b[i] = b[j] => k + i = k + j
      BY <1>2, <2>8, <2>9
    <3> QED
      BY <3>1
  <2>13. ToSet(a) \cap ToSet(b) = {}
    <3>1. \A i \in 1..k - 1, j \in 1..n - k : a[i] # b[j]
      BY <1>2, <2>7, <2>8, <2>9
    <3> QED
      BY <2>10, <3>1
  <2>14. ToSet(a) \cup ToSet(b) = ToSet(s) \ {e}
    <3>1. ASSUME NEW x \in ToSet(a) PROVE x \in ToSet(s) \ {e}
      BY <1>2, <2>1, <2>7, <2>9, <2>10
    <3>2. ASSUME NEW x \in ToSet(b) PROVE x \in ToSet(s) \ {e}
      BY <1>2, <2>1, <2>8, <2>9, <2>10
    <3>3. ASSUME NEW x \in ToSet(s) \ {e} PROVE x \in ToSet(a) \cup ToSet(b)
      <4>1. PICK i \in 1..n : x = s[i]
        BY <1>2
      <4>2. i # k
        BY <2>1, <4>1
      <4>3. i \in 1..k - 1 \/ (i - k \in 1..n - k /\ k + (i - k) = i)
        BY <2>9, <4>2
      <4> QED
        BY <2>7, <2>8, <2>10, <4>1, <4>3
    <3> QED
      BY <3>1, <3>2, <3>3
  <2>15. IsInjective(a) /\ IsInjective(b)
    BY <2>7, <2>8, <2>11, <2>12, Distinct
  <2>16. /\ a \o b \in Seq(S) /\ IsInjective(a \o b)
         /\ ToSet(a \o b) = ToSet(s) \ {e}
    BY <2>7, <2>8, <2>13, <2>14, <2>15, ConcatProperties, ConcatSet
  <2>17. RemoveFirst(s, e) = a \o b
    BY <2>5, <2>6
  <2> QED
    BY <2>16, <2>17
<1> QED
  BY <1>3, <1>4

-----------------------------------------------------------------------------
(* Finite sets of values.                                                  *)

\* The values of a function on a finite set, as many as its elements if no two
\* have the same.
LEMMA ValuesFinite ==
  ASSUME NEW S, IsFiniteSet(S), NEW f, DOMAIN f = S, f = [x \in S |-> f[x]],
         NEW T, T = {f[x] : x \in S}
  PROVE  /\ IsFiniteSet(T)
         /\ (\A x, y \in S : f[x] = f[y] => x = y)
              => Cardinality(T) = Cardinality(S)
<1>1. f \in Surjection(S, T)
  BY DEF Surjection
<1>2. (\A x, y \in S : f[x] = f[y] => x = y) => f \in Injection(S, T)
  BY <1>1 DEF Injection, Surjection, IsInjective
<1> QED
  BY <1>1, <1>2, FS_Surjection

-----------------------------------------------------------------------------
(* Sums over finite sets.                                                  *)

\* The element that a sum takes first, and how it goes on without it.
Taken(s) == CHOOSE x \in s : TRUE

SumStep(f, h, s) == IF s = {} THEN 0 ELSE f[Taken(s)] + h[s \ {Taken(s)}]

\* What the operator of the community modules stands for.
LEMMA SumUnfold ==
  ASSUME NEW f, NEW S
  PROVE  SumFunctionOnSet(f, S) =
           (CHOOSE h : h = [s \in SUBSET S |-> SumStep(f, h, s)])[S]
BY DEF SumFunctionOnSet, FoldFunctionOnSet, MapThenFoldSet, SumStep, Taken

\* h gives the sum over each subset of U.
Sums(f, h, U) ==
  h \in [SUBSET U -> Int] /\ \A s \in SUBSET U : h[s] = SumStep(f, h, s)

\* What is left to sum up gets smaller.
LEMMA TakenAway ==
  ASSUME NEW U, IsFiniteSet(U), NEW s \in SUBSET U, s # {}
  PROVE  /\ Taken(s) \in s /\ s \ {Taken(s)} \in SUBSET U
         /\ Cardinality(s) \in Nat \ {0}
         /\ Cardinality(s \ {Taken(s)}) = Cardinality(s) - 1
<1>1. Taken(s) \in s
  BY DEF Taken
<1>2. IsFiniteSet(s)
  BY FS_Subset
<1>3. Cardinality(s) \in Nat /\ Cardinality(s) # 0
  BY <1>2, FS_CardinalityType, FS_EmptySet
<1>4. Cardinality(s \ {Taken(s)}) = Cardinality(s) - 1
  BY <1>1, <1>2, FS_RemoveElement
<1> QED
  BY <1>1, <1>3, <1>4

\* There is a way to sum up.
LEMMA SumsExist ==
  ASSUME NEW U, IsFiniteSet(U), NEW f, \A x \in U : f[x] \in Int
  PROVE  \E h : Sums(f, h, U)
<1> DEFINE Small(n) == {s \in SUBSET U : Cardinality(s) <= n}
           D == {n \in Nat : \E h \in [Small(n) -> Int] :
                               \A s \in Small(n) : h[s] = SumStep(f, h, s)}
<1>0. \A s \in SUBSET U : Cardinality(s) \in Nat
  BY FS_Subset, FS_CardinalityType
<1>1. 0 \in D
  <2>1. PICK h : h = [s \in Small(0) |-> 0]
    OBVIOUS
  <2>2. \A s \in Small(0) : s = {}
    <3> SUFFICES ASSUME NEW s \in Small(0), s # {} PROVE FALSE
      OBVIOUS
    <3>1. s \in SUBSET U /\ Cardinality(s) <= 0
      OBVIOUS
    <3>2. Cardinality(s) \in Nat \ {0}
      BY <3>1, TakenAway
    <3> QED
      BY <3>1, <3>2
  <2>3. h \in [Small(0) -> Int] /\ \A s \in Small(0) : h[s] = SumStep(f, h, s)
    BY <2>1, <2>2 DEF SumStep
  <2> QED
    BY <2>3
<1>2. ASSUME NEW n \in Nat, n \in D PROVE n + 1 \in D
  <2>1. PICK h \in [Small(n) -> Int] : \A s \in Small(n) : h[s] = SumStep(f, h, s)
    BY <1>2
  <2>2. PICK g : g = [s \in Small(n + 1) |->
                        IF s \in Small(n) THEN h[s] ELSE SumStep(f, h, s)]
    OBVIOUS
  <2>3. ASSUME NEW s \in Small(n + 1), s # {}
        PROVE  /\ s \ {Taken(s)} \in Small(n) /\ s \ {Taken(s)} \in Small(n + 1)
               /\ Taken(s) \in U
    BY <2>3, TakenAway
  <2>4. ASSUME NEW s \in Small(n + 1)
        PROVE  g[s] \in Int /\ g[s] = SumStep(f, g, s)
    <3>1. g[s] = IF s \in Small(n) THEN h[s] ELSE SumStep(f, h, s)
      BY <2>2
    <3>2. g[s] = SumStep(f, h, s)
      BY <2>1, <3>1
    <3>3. CASE s = {}
      BY <3>2, <3>3 DEF SumStep
    <3>4. CASE s # {}
      <4>1. PICK t : t = s \ {Taken(s)}
        OBVIOUS
      <4>2. t \in Small(n) /\ t \in Small(n + 1) /\ Taken(s) \in U
        BY <2>3, <3>4, <4>1
      <4>3. g[t] = h[t] /\ h[t] \in Int
        BY <2>1, <2>2, <4>2
      <4>4. SumStep(f, h, s) = f[Taken(s)] + h[t]
        BY <3>4, <4>1 DEF SumStep
      <4>5. SumStep(f, g, s) = f[Taken(s)] + g[t]
        BY <3>4, <4>1 DEF SumStep
      <4> QED
        BY <3>2, <4>2, <4>3, <4>4, <4>5
    <3> QED
      BY <3>3, <3>4
  <2>5. g \in [Small(n + 1) -> Int]
    BY <2>2, <2>4
  <2>6. \A s \in Small(n + 1) : g[s] = SumStep(f, g, s)
    BY <2>4
  <2>7. n + 1 \in Nat
    OBVIOUS
  <2> QED
    BY <2>5, <2>6, <2>7, Zenon
<1>3. Nat \subseteq D
  <2> HIDE DEF D
  <2> QED
    BY <1>1, <1>2, Induction
<1>4. PICK n \in Nat : n = Cardinality(U)
  BY FS_CardinalityType
<1>5. Small(n) = SUBSET U
  BY <1>4, FS_Subset
<1>6. PICK h \in [Small(n) -> Int] : \A s \in Small(n) : h[s] = SumStep(f, h, s)
  BY <1>3, <1>4
<1> HIDE DEF Small
<1> QED
  BY <1>5, <1>6 DEF Sums

\* Two ways to sum up come to the same.
LEMMA SumsUnique ==
  ASSUME NEW U, IsFiniteSet(U), NEW f, NEW h, Sums(f, h, U), NEW S \in SUBSET U
  PROVE  SumFunctionOnSet(f, S) = h[S]
<1>1. PICK k : k = [s \in SUBSET S |-> h[s]]
  OBVIOUS
<1>2. k = [s \in SUBSET S |-> SumStep(f, k, s)]
  <2>1. ASSUME NEW s \in SUBSET S PROVE k[s] = SumStep(f, k, s)
    <3>1. h[s] = SumStep(f, h, s) /\ k[s] = h[s]
      BY <1>1 DEF Sums
    <3>2. s \ {Taken(s)} \in SUBSET S
      OBVIOUS
    <3>3. k[s \ {Taken(s)}] = h[s \ {Taken(s)}]
      BY <1>1, <3>2
    <3> QED
      BY <3>1, <3>3 DEF SumStep
  <2> QED
    BY <1>1, <2>1
<1>3. PICK g : g = CHOOSE l : l = [s \in SUBSET S |-> SumStep(f, l, s)]
  OBVIOUS
<1>4. g = [s \in SUBSET S |-> SumStep(f, g, s)]
  BY <1>2, <1>3
<1> DEFINE D == {n \in Nat : \A s \in SUBSET S : Cardinality(s) = n => g[s] = h[s]}
<1>5. \A s \in SUBSET S : g[s] = SumStep(f, g, s) /\ h[s] = SumStep(f, h, s)
  BY <1>4 DEF Sums
<1>6. 0 \in D
  <2> SUFFICES ASSUME NEW s \in SUBSET S, Cardinality(s) = 0 PROVE g[s] = h[s]
    OBVIOUS
  <2>1. s = {}
    BY TakenAway
  <2> QED
    BY <1>5, <2>1 DEF SumStep
<1>7. ASSUME NEW n \in Nat, n \in D PROVE n + 1 \in D
  <2> SUFFICES ASSUME NEW s \in SUBSET S, Cardinality(s) = n + 1 PROVE g[s] = h[s]
    OBVIOUS
  <2>1. s # {}
    BY FS_EmptySet
  <2>2. s \ {Taken(s)} \in SUBSET S /\ Cardinality(s \ {Taken(s)}) = n
    BY <2>1, TakenAway
  <2>3. g[s \ {Taken(s)}] = h[s \ {Taken(s)}]
    BY <1>7, <2>2
  <2> QED
    BY <1>5, <2>1, <2>3 DEF SumStep
<1>8. Nat \subseteq D
  <2> HIDE DEF D
  <2> QED
    BY <1>6, <1>7, Induction
<1>9. Cardinality(S) \in Nat
  BY FS_Subset, FS_CardinalityType
<1>10. g[S] = h[S]
  BY <1>8, <1>9
<1> QED
  BY <1>3, <1>10, SumUnfold

\* Nothing sums up to zero.
LEMMA SumEmpty == ASSUME NEW f PROVE SumFunctionOnSet(f, {}) = 0
<1>1. IsFiniteSet({}) /\ {} \in SUBSET {}
  BY FS_EmptySet
<1>2. PICK h : Sums(f, h, {})
  BY <1>1, SumsExist
<1>3. SumFunctionOnSet(f, {}) = h[{}]
  BY <1>1, <1>2, SumsUnique
<1> QED
  BY <1>1, <1>2, <1>3 DEF Sums, SumStep

\* A sum of numbers is a number.
LEMMA SumType ==
  ASSUME NEW S, IsFiniteSet(S), NEW f, \A x \in S : f[x] \in Int
  PROVE  SumFunctionOnSet(f, S) \in Int
<1>1. PICK h : Sums(f, h, S)
  BY SumsExist
<1>2. SumFunctionOnSet(f, S) = h[S]
  BY <1>1, SumsUnique
<1> QED
  BY <1>1, <1>2 DEF Sums

\* Which element is taken first does not matter.
LEMMA SumWithout ==
  ASSUME NEW S, IsFiniteSet(S), NEW f, \A x \in S : f[x] \in Int, NEW y \in S
  PROVE  SumFunctionOnSet(f, S) = f[y] + SumFunctionOnSet(f, S \ {y})
<1>1. PICK h : Sums(f, h, S)
  BY SumsExist
<1> DEFINE D == {n \in Nat : \A s \in SUBSET S : Cardinality(s) = n =>
                   \A x \in s : h[s] = f[x] + h[s \ {x}]}
<1>2. 0 \in D
  <2> SUFFICES ASSUME NEW s \in SUBSET S, Cardinality(s) = 0 PROVE s = {}
    OBVIOUS
  <2> QED
    BY TakenAway
<1>3. ASSUME NEW n \in Nat, n \in D PROVE n + 1 \in D
  <2> SUFFICES ASSUME NEW s \in SUBSET S, Cardinality(s) = n + 1, NEW x \in s
               PROVE  h[s] = f[x] + h[s \ {x}]
    OBVIOUS
  <2>1. PICK t : t = Taken(s)
    OBVIOUS
  <2>2. t \in s /\ Cardinality(s \ {t}) = n
    BY <2>1, TakenAway
  <2>3. h[s] = f[t] + h[s \ {t}]
    BY <1>1, <2>1 DEF Sums, SumStep
  <2>4. CASE x = t
    BY <2>3, <2>4
  <2>5. CASE x # t
    <3>1. PICK a, b, c : a = s \ {t} /\ b = s \ {x} /\ c = (s \ {t}) \ {x}
      OBVIOUS
    <3>2. IsFiniteSet(s) /\ {a, b, c} \subseteq SUBSET S /\ c = b \ {t}
      BY <3>1, FS_Subset
    <3>3. Cardinality(a) = n /\ Cardinality(b) = n
      BY <2>2, <3>1, <3>2, FS_RemoveElement
    <3>4. x \in a /\ t \in b
      BY <2>2, <2>5, <3>1
    <3>5. h[a] = f[x] + h[c] /\ h[b] = f[t] + h[c]
      BY <1>3, <3>1, <3>2, <3>3, <3>4
    <3>6. f[x] \in Int /\ f[t] \in Int /\ h[c] \in Int
      BY <1>1, <2>2, <3>2 DEF Sums
    <3> QED
      BY <2>3, <3>1, <3>5, <3>6
  <2> QED
    BY <2>4, <2>5
<1>4. Nat \subseteq D
  <2> HIDE DEF D
  <2> QED
    BY <1>2, <1>3, Induction
<1>5. Cardinality(S) \in Nat
  BY FS_CardinalityType
<1>6. h[S] = f[y] + h[S \ {y}]
  BY <1>4, <1>5
<1> QED
  BY <1>1, <1>6, SumsUnique

\* Only the values that are summed up matter.
LEMMA SumSame ==
  ASSUME NEW S, IsFiniteSet(S), NEW f, NEW g,
         \A x \in S : f[x] = g[x] /\ f[x] \in Int
  PROVE  SumFunctionOnSet(f, S) = SumFunctionOnSet(g, S)
<1>1. PICK h : Sums(f, h, S)
  BY SumsExist
<1>2. ASSUME NEW s \in SUBSET S PROVE SumStep(f, h, s) = SumStep(g, h, s)
  BY TakenAway DEF SumStep
<1>3. Sums(g, h, S)
  BY <1>1, <1>2 DEF Sums
<1> QED
  BY <1>1, <1>3, SumsUnique

\* The sum of a sequence that gets longer.
LEMMA SumNext ==
  ASSUME NEW n \in Nat, NEW f, NEW g, DOMAIN f = 1..n, DOMAIN g = 1..n + 1,
         \A i \in 1..n : f[i] = g[i] /\ f[i] \in Int, g[n + 1] \in Int
  PROVE  SumFunction(g) = SumFunction(f) + g[n + 1]
<1>1. /\ IsFiniteSet(1..n) /\ IsFiniteSet(1..n + 1)
      /\ (1..n + 1) \ {n + 1} = 1..n /\ n + 1 \in 1..n + 1
  <2>1. PICK m \in Nat : m = n + 1
    OBVIOUS
  <2>2. IsFiniteSet(1..n) /\ IsFiniteSet(1..m)
    BY FS_Interval
  <2> QED
    BY <2>1, <2>2
<1>2. \A i \in 1..n + 1 : g[i] \in Int
  <2>1. \A i \in 1..n + 1 : i \in 1..n \/ i = n + 1
    OBVIOUS
  <2> QED
    BY <2>1
<1>3. SumFunctionOnSet(g, 1..n + 1) = g[n + 1] + SumFunctionOnSet(g, 1..n)
  BY <1>1, <1>2, SumWithout
<1>4. SumFunctionOnSet(f, 1..n) = SumFunctionOnSet(g, 1..n)
  BY <1>1, SumSame
<1>5. SumFunctionOnSet(f, 1..n) \in Int
  BY <1>1, SumType
<1> QED
  BY <1>3, <1>4, <1>5 DEF SumFunction

-----------------------------------------------------------------------------
(* What a fold computes.                                                   *)

\* What FoldLeft computes for a set of places, and how the values of a fold follow
\* from each other.
FoldStep(b, s, h, t) ==
  IF t = {} THEN b ELSE Op(h[t \ {Max(t)}], s[Max(t)])

FoldRun(b, s, h, n) ==
  h[0] = b /\ \A k \in 1..n : h[k] = Op(h[k - 1], s[k])

LEMMA FoldUnfold ==
  ASSUME NEW b, NEW s
  PROVE  FoldLeft(Op, b, s) =
           (CHOOSE h : h = [t \in SUBSET DOMAIN s |-> FoldStep(b, s, h, t)])[DOMAIN s]
BY DEF FoldLeft, MapThenFoldSet, FoldStep

LEMMA MaxNext == ASSUME NEW k \in Nat, NEW t \in SUBSET (1..k), k \in t PROVE Max(t) = k
<1>1. k >= k /\ \A y \in t : k >= y
  OBVIOUS
<1>2. \A x \in t : (\A y \in t : x >= y) => x = k
  OBVIOUS
<1> QED
  BY <1>1, <1>2 DEF Max

LEMMA FoldsExist ==
  ASSUME NEW b, NEW s, NEW n \in Nat
  PROVE  \E h : h = [t \in SUBSET (1..n) |-> FoldStep(b, s, h, t)]
<1> DEFINE D == {k \in Nat : \E h : h = [t \in SUBSET (1..k) |-> FoldStep(b, s, h, t)]}
<1>1. 0 \in D
  <2>1. 1..0 = {} /\ SUBSET (1..0) = {{}}
    OBVIOUS
  <2>2. PICK h : h = [t \in {{}} |-> b]
    OBVIOUS
  <2>3. h = [t \in SUBSET (1..0) |-> FoldStep(b, s, h, t)]
    BY <2>1, <2>2 DEF FoldStep
  <2> QED
    BY <2>3
<1>2. ASSUME NEW k \in Nat, k \in D PROVE k + 1 \in D
  <2>1. PICK h : h = [t \in SUBSET (1..k) |-> FoldStep(b, s, h, t)]
    BY <1>2
  <2>2. PICK g : g = [t \in SUBSET (1..k + 1) |->
                        IF k + 1 \in t THEN Op(h[t \ {k + 1}], s[k + 1]) ELSE h[t]]
    OBVIOUS
  <2>3. ASSUME NEW t \in SUBSET (1..k + 1) PROVE g[t] = FoldStep(b, s, g, t)
    <3>1. CASE k + 1 \in t
      <4>1. Max(t) = k + 1
        BY <3>1, MaxNext
      <4>2. t \ {k + 1} \in SUBSET (1..k) /\ t \ {k + 1} \in SUBSET (1..k + 1)
        OBVIOUS
      <4>3. g[t \ {k + 1}] = h[t \ {k + 1}]
        BY <2>2, <4>2
      <4>4. g[t] = Op(h[t \ {k + 1}], s[k + 1])
        BY <2>2, <3>1
      <4> QED
        BY <3>1, <4>1, <4>3, <4>4 DEF FoldStep
    <3>2. CASE k + 1 \notin t
      <4>1. t \in SUBSET (1..k)
        BY <3>2
      <4>2. t \ {Max(t)} \in SUBSET (1..k) /\ t \ {Max(t)} \in SUBSET (1..k + 1)
        BY <4>1
      <4>3. g[t] = h[t] /\ g[t \ {Max(t)}] = h[t \ {Max(t)}]
        BY <2>2, <3>2, <4>2
      <4>4. h[t] = FoldStep(b, s, h, t)
        BY <2>1, <4>1
      <4> QED
        BY <4>3, <4>4 DEF FoldStep
    <3> QED
      BY <3>1, <3>2
  <2>4. g = [t \in SUBSET (1..k + 1) |-> FoldStep(b, s, g, t)]
    BY <2>2, <2>3
  <2> QED
    BY <2>4
<1>3. Nat \subseteq D
  <2> HIDE DEF D
  <2> QED
    BY <1>1, <1>2, Induction
<1> QED
  BY <1>3

\* FoldLeft goes through a sequence from left to right.
LEMMA FoldRuns ==
  \A b, S, s : s \in Seq(S) =>
     \E h : FoldRun(b, s, h, Len(s)) /\ FoldLeft(Op, b, s) = h[Len(s)]
<1> TAKE b, S, s
<1> HAVE s \in Seq(S)
<1>1. PICK n \in Nat : n = Len(s) /\ DOMAIN s = 1..n
  BY LenProperties
<1>2. PICK g : g = (CHOOSE h : h = [t \in SUBSET (1..n) |-> FoldStep(b, s, h, t)])
  OBVIOUS
<1>3. g = [t \in SUBSET (1..n) |-> FoldStep(b, s, g, t)]
  BY <1>2, FoldsExist
<1>4. FoldLeft(Op, b, s) = g[1..n]
  BY <1>1, <1>2, FoldUnfold
<1>5. PICK h : h = [k \in 0..n |-> g[1..k]]
  OBVIOUS
<1>6. h[0] = b
  <2>1. 1..0 = {} /\ {} \in SUBSET (1..n) /\ h[0] = g[1..0]
    BY <1>5
  <2> QED
    BY <1>3, <2>1 DEF FoldStep
<1>7. ASSUME NEW k \in 1..n PROVE h[k] = Op(h[k - 1], s[k])
  <2>0. k \in Nat /\ 1 <= k /\ k <= n
    OBVIOUS
  <2>1. 1..k \in SUBSET (1..n) /\ k \in 1..k /\ k \in Nat /\ 1..k # {}
    BY <2>0
  <2>2. Max(1..k) = k
    BY <2>1, MaxNext
  <2>3. (1..k) \ {k} = 1..(k - 1) /\ k - 1 \in 0..n /\ k \in 0..n
    OBVIOUS
  <2>4. g[1..k] = FoldStep(b, s, g, 1..k)
    BY <1>3, <2>1
  <2>5. g[1..k] = Op(g[1..(k - 1)], s[k])
    BY <2>1, <2>2, <2>3, <2>4 DEF FoldStep
  <2> QED
    BY <1>5, <2>3, <2>5
<1>8. FoldLeft(Op, b, s) = h[n]
  BY <1>4, <1>5
<1> QED
  BY <1>1, <1>6, <1>7, <1>8 DEF FoldRun

\* What holds of the first value, and after each element when it held before the
\* element, holds of the value FoldLeft returns.
LEMMA FoldHolds ==
  \A p, b, S, s :
     /\ s \in Seq(S) /\ Holds(p, s, b, 0)
     /\ \A k \in 1..Len(s) : \A v : Holds(p, s, v, k - 1) => Holds(p, s, Op(v, s[k]), k)
     => Holds(p, s, FoldLeft(Op, b, s), Len(s))
<1> TAKE p, b, S, s
<1> HAVE /\ s \in Seq(S) /\ Holds(p, s, b, 0)
         /\ \A k \in 1..Len(s) : \A v : Holds(p, s, v, k - 1) => Holds(p, s, Op(v, s[k]), k)
<1>1. PICK h : FoldRun(b, s, h, Len(s)) /\ FoldLeft(Op, b, s) = h[Len(s)]
  BY FoldRuns
<1>2. Len(s) \in Nat
  BY LenProperties
<1> DEFINE D == {k \in Nat : k <= Len(s) => Holds(p, s, h[k], k)}
<1>3. 0 \in D
  BY <1>1 DEF FoldRun
<1>4. ASSUME NEW k \in Nat, k \in D PROVE k + 1 \in D
  <2>1. SUFFICES ASSUME k + 1 <= Len(s) PROVE Holds(p, s, h[k + 1], k + 1)
    OBVIOUS
  <2>2. k + 1 \in 1..Len(s) /\ (k + 1) - 1 = k /\ k <= Len(s)
    BY <1>2, <2>1
  <2>3. Holds(p, s, h[k], k) /\ h[k + 1] = Op(h[k], s[k + 1])
    BY <1>1, <1>4, <2>2 DEF FoldRun
  <2> QED
    BY <2>2, <2>3
<1>5. Nat \subseteq D
  <2> HIDE DEF D
  <2> QED
    BY <1>3, <1>4, Induction
<1> QED
  BY <1>1, <1>2, <1>5
=============================================================================
