---------------------------- MODULE TxPoolProofs ----------------------------
(***************************************************************************)
(* Proof that a transaction is confirmed at most once, never waits in the  *)
(* pool for a second confirmation and is never forgotten, for every        *)
(* ledger, every set of transactions and every schedule of TxPool.         *)
(***************************************************************************)
EXTENDS TxPoolProps, SequenceFacts, TLAPS

-----------------------------------------------------------------------------
(* Sequences of copies of transactions.                                    *)

Copies(s) == s \in Seq(ToSet(s)) /\ IdsOf(s) \subseteq Ids

LEMMA CopiesAre ==
  ASSUME NEW s, Copies(s)
  PROVE  /\ Len(s) \in Nat /\ DOMAIN s = 1..Len(s)
         /\ ToSet(s) = {s[i] : i \in 1..Len(s)}
         /\ IdsOf(s) = {s[i].id : i \in 1..Len(s)}
         /\ \A i \in 1..Len(s) : s[i] \in ToSet(s) /\ s[i].id \in IdsOf(s)
         /\ \A x \in ToSet(s) : x.id \in IdsOf(s) /\ x.id \in Ids
<1>1. Len(s) \in Nat /\ DOMAIN s = 1..Len(s)
  BY LenProperties DEF Copies
<1>2. ToSet(s) = {s[i] : i \in 1..Len(s)}
  BY SetOf DEF Copies
<1>3. IdsOf(s) = {s[i].id : i \in 1..Len(s)}
  BY <1>1 DEF IdsOf
<1>4. \A x \in ToSet(s) : x.id \in IdsOf(s)
  BY <1>2, <1>3
<1> QED
  BY <1>1, <1>2, <1>3, <1>4 DEF Copies

LEMMA AreCopies ==
  ASSUME NEW S, NEW s \in Seq(S), \A i \in 1..Len(s) : s[i].id \in Ids
  PROVE  Copies(s)
<1>1. DOMAIN s = 1..Len(s) /\ Len(s) \in Nat /\ s \in [1..Len(s) -> S]
  BY LenProperties
<1>2. ToSet(s) = {s[i] : i \in 1..Len(s)}
  BY SetOf
<1>3. s \in [1..Len(s) -> ToSet(s)]
  BY <1>1, <1>2
<1>4. s \in Seq(ToSet(s))
  BY <1>1, <1>3, FunctionIsSeq
<1> QED
  BY <1>1, <1>4 DEF Copies, IdsOf

LEMMA IdsAre ==
  ASSUME NEW s, Copies(s)
  PROVE  IdsOf(s) = {y.id : y \in ToSet(s)}
BY CopiesAre

LEMMA NoCopies == Copies(<<>>) /\ IdsOf(<<>>) = {} /\ ToSet(<<>>) = {} /\ NoneTwice(<<>>)
<1>1. <<>> \in Seq({}) /\ Len(<<>>) = 0 /\ DOMAIN <<>> = {}
  BY EmptySeq
<1>2. ToSet(<<>>) = {} /\ IdsOf(<<>>) = {}
  BY <1>1 DEF ToSet, IdsOf
<1> QED
  BY <1>1, <1>2 DEF Copies, NoneTwice

LEMMA NoneTwiceIs ==
  ASSUME NEW s, Copies(s)
  PROVE  NoneTwice(s) <=> \A i, j \in 1..Len(s) : s[i].id = s[j].id => i = j
BY CopiesAre DEF NoneTwice

LEMMA AppendCopies ==
  ASSUME NEW s, Copies(s), NEW x, x.id \in Ids
  PROVE  /\ Copies(Append(s, x))
         /\ ToSet(Append(s, x)) = ToSet(s) \cup {x}
         /\ IdsOf(Append(s, x)) = IdsOf(s) \cup {x.id}
         /\ NoneTwice(s) /\ x.id \notin IdsOf(s) => NoneTwice(Append(s, x))
<1>0. PICK n \in Nat : n = Len(s)
  BY CopiesAre
<1>1. PICK t : n = Len(s) /\ t = Append(s, x)
  BY <1>0
<1>2. PICK S : S = ToSet(s) \cup {x}
  OBVIOUS
<1>3. s \in Seq(S) /\ x \in S
  BY <1>2, SeqMonotonic DEF Copies
<1>4. /\ t \in Seq(S) /\ Len(t) = n + 1 /\ t[n + 1] = x
      /\ \A i \in 1..n : t[i] = s[i]
  BY <1>1, <1>3, AppendProperties
<1>5. \A i \in 1..n + 1 : i = n + 1 \/ i \in 1..n
  BY <1>1
<1>6. \A i \in 1..n : s[i].id \in IdsOf(s) /\ s[i].id \in Ids
  BY <1>1, CopiesAre DEF Copies
<1>7. Copies(t)
  BY <1>4, <1>5, <1>6, AreCopies
<1>8. ToSet(t) = ToSet(s) \cup {x}
  BY <1>1, <1>3, AppendSet
<1>9. IdsOf(t) = {y.id : y \in ToSet(t)} /\ IdsOf(s) = {y.id : y \in ToSet(s)}
  BY <1>7, CopiesAre
<1>10. IdsOf(t) = IdsOf(s) \cup {x.id}
  BY <1>8, <1>9
<1>11. ASSUME NoneTwice(s), x.id \notin IdsOf(s) PROVE NoneTwice(t)
  <2>1. \A i, j \in 1..n : s[i].id = s[j].id => i = j
    BY <1>1, <1>11, NoneTwiceIs
  <2>2. \A i, j \in 1..n + 1 : t[i].id = t[j].id => i = j
    BY <1>4, <1>5, <1>6, <1>11, <2>1
  <2> QED
    BY <1>4, <1>7, <2>2, NoneTwiceIs
<1> QED
  BY <1>1, <1>7, <1>8, <1>10, <1>11

\* Places of s, each at most once, in some order.
Picks(s, t, f) ==
  /\ Len(t) \in Nat /\ f \in [1..Len(t) -> 1..Len(s)]
  /\ \A i \in 1..Len(t) : t[i] = s[f[i]]
  /\ \A i, j \in 1..Len(t) : f[i] = f[j] => i = j

LEMMA PickedCopies ==
  ASSUME NEW s, Copies(s), NEW S, NEW t \in Seq(S), NEW f, Picks(s, t, f)
  PROVE  /\ Copies(t) /\ ToSet(t) \subseteq ToSet(s) /\ IdsOf(t) \subseteq IdsOf(s)
         /\ NoneTwice(s) => NoneTwice(t)
<1>1. \A i \in 1..Len(t) : f[i] \in 1..Len(s) /\ t[i] = s[f[i]]
  BY DEF Picks
<1>2. \A i \in 1..Len(t) : t[i].id \in Ids /\ t[i].id \in IdsOf(s) /\ t[i] \in ToSet(s)
  BY <1>1, CopiesAre DEF Copies
<1>3. Copies(t)
  BY <1>2, AreCopies
<1>4. ToSet(t) \subseteq ToSet(s) /\ IdsOf(t) \subseteq IdsOf(s)
  <2>1. ToSet(t) = {t[i] : i \in 1..Len(t)} /\ IdsOf(t) = {t[i].id : i \in 1..Len(t)}
    BY <1>3, CopiesAre
  <2> QED
    BY <1>2, <2>1
<1>5. ASSUME NoneTwice(s) PROVE NoneTwice(t)
  <2>1. \A i, j \in 1..Len(s) : s[i].id = s[j].id => i = j
    BY <1>5, NoneTwiceIs
  <2>2. \A i, j \in 1..Len(t) : t[i].id = t[j].id => i = j
    BY <1>1, <2>1 DEF Picks
  <2> QED
    BY <1>3, <2>2, NoneTwiceIs
<1> QED
  BY <1>3, <1>4, <1>5

Parts(s, k, j, a, b) ==
  /\ Copies(a) /\ Copies(b) /\ Len(a) = k
  /\ \A i \in 1..k : a[i] = s[i]
  /\ ToSet(a) = {s[i] : i \in 1..k} /\ ToSet(b) = {s[i] : i \in j + 1..Len(s)}
  /\ NoneTwice(s) => NoneTwice(a) /\ NoneTwice(b) /\ IdsOf(a) \cap IdsOf(b) = {}

\* The first k elements, and those behind the first j.
Cut(s, k, j, a, b) == a = SubSeq(s, 1, k) /\ b = SubSeq(s, j + 1, Len(s))

LEMMA PartsCopies ==
  ASSUME NEW s, Copies(s), NEW k \in Nat, NEW j \in Nat, k <= j, j <= Len(s),
         NEW a, NEW b, Cut(s, k, j, a, b)
  PROVE  Parts(s, k, j, a, b)
<1>0. PICK n \in Nat : n = Len(s) /\ s \in Seq(ToSet(s))
  BY CopiesAre DEF Copies
<1>1. /\ a \in Seq(ToSet(s)) /\ Len(a) = k /\ \A i \in 1..k : a[i] = s[i]
  <2>1. /\ a \in Seq(ToSet(s)) /\ Len(a) = IF 1 <= k THEN k - 1 + 1 ELSE 0
        /\ \A i \in 1..k - 1 + 1 : a[i] = s[1 + i - 1]
    BY <1>0, Slice DEF Cut
  <2> QED
    BY <2>1
<1>2. PICK low \in Nat \ {0} : low = j + 1
  OBVIOUS
<1>3. PICK m : m = Len(b)
  OBVIOUS
<1>4. /\ b \in Seq(ToSet(s)) /\ m = n - j /\ m \in Nat /\ \A i \in 1..m : b[i] = s[j + i]
  <2>1. /\ b \in Seq(ToSet(s)) /\ m = IF low <= n THEN n - low + 1 ELSE 0
        /\ \A i \in 1..m : b[i] = s[low + i - 1]
    BY <1>0, <1>2, <1>3, EndElements DEF Cut
  <2>2. m = n - j /\ m \in Nat
    BY <1>0, <1>2, <2>1
  <2>3. \A i \in 1..m : low + i - 1 = j + i
    BY <1>2, <2>2
  <2> QED
    BY <2>1, <2>2, <2>3
<1>5. ToSet(a) = {s[i] : i \in 1..k}
  <2>0. a \in Seq(ToSet(s))
    BY <1>1
  <2>1. ToSet(a) = {a[i] : i \in 1..Len(a)}
    BY <2>0, SetOf
  <2> QED
    BY <1>1, <2>1
<1>6. ToSet(b) = {s[i] : i \in j + 1..Len(s)}
  BY <1>0, <1>2, EndSet DEF Cut
<1>7. PICK f : f = [i \in 1..k |-> i]
  OBVIOUS
<1>8. PICK g : g = [i \in 1..m |-> j + i]
  OBVIOUS
<1>9. Picks(s, a, f)
  BY <1>0, <1>1, <1>7 DEF Picks
<1>10. Picks(s, b, g)
  <2>1. \A i \in 1..m : j + i \in 1..n
    BY <1>0, <1>4
  <2>2. \A i, h \in 1..m : j + i = j + h => i = h
    BY <1>4
  <2> QED
    BY <1>0, <1>3, <1>4, <1>8, <2>1, <2>2 DEF Picks
<1>11. Copies(a) /\ Copies(b) /\ (NoneTwice(s) => NoneTwice(a) /\ NoneTwice(b))
  <2>1. Copies(a) /\ (NoneTwice(s) => NoneTwice(a))
    BY <1>1, <1>9, PickedCopies
  <2>0. b \in Seq(ToSet(s))
    BY <1>4
  <2>2. Copies(b) /\ (NoneTwice(s) => NoneTwice(b))
    BY <2>0, <1>10, PickedCopies
  <2> QED
    BY <2>1, <2>2
<1>12. ASSUME NoneTwice(s) PROVE IdsOf(a) \cap IdsOf(b) = {}
  <2>1. \A i, h \in 1..n : s[i].id = s[h].id => i = h
    BY <1>0, <1>12, NoneTwiceIs
  <2>0. Copies(a) /\ Copies(b)
    BY <1>11
  <2>2. IdsOf(a) = {a[i].id : i \in 1..Len(a)} /\ IdsOf(b) = {b[i].id : i \in 1..Len(b)}
    BY <2>0, CopiesAre
  <2>5. IdsOf(a) = {a[i].id : i \in 1..k} /\ IdsOf(b) = {b[i].id : i \in 1..m}
    BY <1>1, <1>3, <2>2
  <2>3. \A i \in 1..k, h \in 1..m : i \in 1..n /\ j + h \in 1..n /\ i # j + h
    BY <1>0, <1>4
  <2>4. ASSUME NEW i \in 1..k, NEW h \in 1..m PROVE a[i].id # b[h].id
    <3>1. a[i] = s[i] /\ b[h] = s[j + h]
      BY <1>1, <1>4
    <3> QED
      BY <2>1, <2>3, <3>1
  <2> QED
    BY <2>4, <2>5
<1> QED
  BY <1>1, <1>5, <1>6, <1>11, <1>12 DEF Parts

LEMMA ConcatCopies ==
  ASSUME NEW s, Copies(s), NEW t, Copies(t), NEW u, u = s \o t
  PROVE  /\ Copies(u) /\ ToSet(u) = ToSet(s) \cup ToSet(t)
         /\ IdsOf(u) = IdsOf(s) \cup IdsOf(t)
         /\ NoneTwice(s) /\ NoneTwice(t) /\ IdsOf(s) \cap IdsOf(t) = {} => NoneTwice(u)
<1>1. PICK m \in Nat, n \in Nat : m = Len(s) /\ n = Len(t)
  BY CopiesAre
<1>2. PICK S : S = ToSet(s) \cup ToSet(t)
  OBVIOUS
<1>3. s \in Seq(S) /\ t \in Seq(S)
  BY <1>2, SeqMonotonic DEF Copies
<1>4. /\ u \in Seq(S) /\ Len(u) = m + n
      /\ \A i \in 1..m + n : u[i] = IF i <= m THEN s[i] ELSE t[i - m]
  BY <1>1, <1>3, ConcatProperties
<1>5. \A i \in 1..m + n : (i <= m /\ i \in 1..m) \/ (~(i <= m) /\ i - m \in 1..n)
  BY <1>1
<1>6. /\ \A i \in 1..m : s[i].id \in Ids /\ s[i].id \in IdsOf(s)
      /\ \A i \in 1..n : t[i].id \in Ids /\ t[i].id \in IdsOf(t)
  BY <1>1, CopiesAre DEF Copies
<1>7. Copies(u)
  BY <1>4, <1>5, <1>6, AreCopies
<1>8. ToSet(u) = ToSet(s) \cup ToSet(t)
  BY <1>3, ConcatSet
<1>9. /\ IdsOf(u) = {y.id : y \in ToSet(u)}
      /\ IdsOf(s) = {y.id : y \in ToSet(s)} /\ IdsOf(t) = {y.id : y \in ToSet(t)}
  BY <1>7, IdsAre
<1>10. IdsOf(u) = IdsOf(s) \cup IdsOf(t)
  BY <1>8, <1>9
<1>11. ASSUME NoneTwice(s), NoneTwice(t), IdsOf(s) \cap IdsOf(t) = {} PROVE NoneTwice(u)
  <2>1. /\ \A i, j \in 1..m : s[i].id = s[j].id => i = j
        /\ \A i, j \in 1..n : t[i].id = t[j].id => i = j
    BY <1>1, <1>11, NoneTwiceIs
  <2>2. ASSUME NEW i \in 1..m + n, NEW j \in 1..m + n, u[i].id = u[j].id PROVE i = j
    <3>1. CASE i <= m /\ j <= m
      BY <1>4, <1>5, <2>1, <2>2, <3>1
    <3>2. CASE ~(i <= m) /\ ~(j <= m)
      <4>1. u[i] = t[i - m] /\ u[j] = t[j - m] /\ i - m \in 1..n /\ j - m \in 1..n
        BY <1>4, <1>5, <3>2
      <4>2. i - m = j - m
        BY <2>1, <2>2, <4>1
      <4> QED
        BY <4>2
    <3>3. CASE i <= m /\ ~(j <= m)
      <4>1. u[i] = s[i] /\ u[j] = t[j - m] /\ i \in 1..m /\ j - m \in 1..n
        BY <1>4, <1>5, <3>3
      <4> QED
        BY <1>6, <1>11, <2>2, <4>1
    <3>4. CASE ~(i <= m) /\ j <= m
      <4>1. u[j] = s[j] /\ u[i] = t[i - m] /\ j \in 1..m /\ i - m \in 1..n
        BY <1>4, <1>5, <3>4
      <4> QED
        BY <1>6, <1>11, <2>2, <4>1
    <3> QED
      BY <3>1, <3>2, <3>3, <3>4
  <2> QED
    BY <1>4, <1>7, <2>2, NoneTwiceIs
<1> QED
  BY <1>7, <1>8, <1>10, <1>11

LEMMA RemoveAtCopies ==
  ASSUME NEW s, Copies(s), NEW k \in 1..Len(s), NEW t, t = RemoveAt(s, k)
  PROVE  /\ Copies(t) /\ ToSet(t) \subseteq ToSet(s)
         /\ \A y \in ToSet(s) : y # s[k] => y \in ToSet(t)
         /\ NoneTwice(s) => NoneTwice(t) /\ IdsOf(t) = IdsOf(s) \ {s[k].id}
<1>0. PICK n \in Nat : n = Len(s) /\ ToSet(s) = {s[i] : i \in 1..n}
  BY CopiesAre
<1>1. PICK a, b : a = SubSeq(s, 1, k - 1) /\ b = SubSeq(s, k + 1, Len(s))
  OBVIOUS
<1>2. k \in Nat /\ k - 1 \in Nat /\ k - 1 <= k /\ k <= Len(s)
  BY <1>0
<1>3. Parts(s, k - 1, k, a, b)
  BY <1>1, <1>2, PartsCopies DEF Cut
<1>4. t = a \o b
  BY <1>1 DEF RemoveAt
<1>5. /\ Copies(t) /\ ToSet(t) = ToSet(a) \cup ToSet(b)
      /\ NoneTwice(a) /\ NoneTwice(b) /\ IdsOf(a) \cap IdsOf(b) = {} => NoneTwice(t)
  BY <1>3, <1>4, ConcatCopies DEF Parts
<1>6. ToSet(t) = {s[i] : i \in (1..n) \ {k}}
  <2>1. (1..n) \ {k} = (1..k - 1) \cup (k + 1..n)
    BY <1>0, <1>2
  <2> QED
    BY <1>0, <1>3, <1>5, <2>1 DEF Parts
<1>7. IdsOf(t) = {y.id : y \in ToSet(t)}
  BY <1>5, IdsAre
<1>8. ASSUME NoneTwice(s) PROVE IdsOf(t) = IdsOf(s) \ {s[k].id}
  <2>1. \A i, j \in 1..n : s[i].id = s[j].id => i = j
    BY <1>0, <1>8, NoneTwiceIs
  <2>2. IdsOf(s) = {s[i].id : i \in 1..n}
    BY <1>0, CopiesAre
  <2>3. IdsOf(t) = {s[i].id : i \in (1..n) \ {k}}
    BY <1>6, <1>7
  <2> QED
    BY <1>0, <2>1, <2>2, <2>3
<1> QED
  BY <1>0, <1>3, <1>5, <1>6, <1>8 DEF Parts

LEMMA InsertAtCopies ==
  ASSUME NEW s, Copies(s), NEW k \in 1..Len(s) + 1, NEW x, x.id \in Ids,
         NEW t, t = InsertAt(s, k, x)
  PROVE  /\ Copies(t) /\ ToSet(t) = ToSet(s) \cup {x} /\ IdsOf(t) = IdsOf(s) \cup {x.id}
         /\ NoneTwice(s) /\ x.id \notin IdsOf(s) => NoneTwice(t)
<1>0. PICK n \in Nat : n = Len(s) /\ ToSet(s) = {s[i] : i \in 1..n}
  BY CopiesAre
<1>1. PICK a, b : a = SubSeq(s, 1, k - 1) /\ b = SubSeq(s, (k - 1) + 1, Len(s))
  OBVIOUS
<1>2. k \in Nat /\ k - 1 \in Nat /\ k - 1 <= k - 1 /\ k - 1 <= Len(s) /\ (k - 1) + 1 = k
  BY <1>0
<1>3. Parts(s, k - 1, k - 1, a, b)
  BY <1>1, <1>2, PartsCopies DEF Cut
<1>4. PICK c : c = a \o <<x>>
  OBVIOUS
<1>5. c = Append(a, x)
  <2>1. a \in Seq(ToSet(a) \cup {x}) /\ x \in ToSet(a) \cup {x}
    BY <1>3, SeqMonotonic DEF Copies, Parts
  <2> QED
    BY <1>4, <2>1, AppendIsConcat
<1>6. /\ Copies(c) /\ ToSet(c) = ToSet(a) \cup {x} /\ IdsOf(c) = IdsOf(a) \cup {x.id}
      /\ NoneTwice(a) /\ x.id \notin IdsOf(a) => NoneTwice(c)
  BY <1>3, <1>5, AppendCopies DEF Parts
<1>7. t = c \o b
  BY <1>1, <1>2, <1>4 DEF InsertAt
<1>8. /\ Copies(t) /\ ToSet(t) = ToSet(c) \cup ToSet(b)
      /\ IdsOf(t) = IdsOf(c) \cup IdsOf(b)
      /\ NoneTwice(c) /\ NoneTwice(b) /\ IdsOf(c) \cap IdsOf(b) = {} => NoneTwice(t)
  BY <1>3, <1>6, <1>7, ConcatCopies DEF Parts
<1>9. ToSet(s) = ToSet(a) \cup ToSet(b)
  <2>1. 1..n = (1..k - 1) \cup (k..n)
    BY <1>0, <1>2
  <2> QED
    BY <1>0, <1>2, <1>3, <2>1 DEF Parts
<1>10. /\ IdsOf(s) = {y.id : y \in ToSet(s)} /\ IdsOf(a) = {y.id : y \in ToSet(a)}
       /\ IdsOf(b) = {y.id : y \in ToSet(b)}
  BY <1>3, IdsAre DEF Parts
<1>11. IdsOf(s) = IdsOf(a) \cup IdsOf(b)
  BY <1>9, <1>10
<1> QED
  BY <1>3, <1>6, <1>8, <1>9, <1>11 DEF Parts

LEMMA ReverseCopies ==
  ASSUME NEW s, Copies(s)
  PROVE  /\ Copies(Reverse(s)) /\ ToSet(Reverse(s)) = ToSet(s)
         /\ IdsOf(Reverse(s)) = IdsOf(s)
<1>0. PICK n \in Nat : n = Len(s) /\ ToSet(s) = {s[i] : i \in 1..n} /\ s \in Seq(ToSet(s))
  BY CopiesAre DEF Copies
<1>1. PICK t : t = [i \in 1..n |-> s[(n - i) + 1]]
  OBVIOUS
<1>2. t = Reverse(s)
  BY <1>0, <1>1 DEF Reverse
<1>3. /\ \A i \in 1..n : (n - i) + 1 \in 1..n
      /\ \A i \in 1..n : (n - ((n - i) + 1)) + 1 = i
  OBVIOUS
<1>4. \A i \in 1..n : s[i] \in ToSet(s) /\ s[i].id \in Ids
  BY <1>0, CopiesAre
<1>5. t \in [1..n -> ToSet(s)]
  BY <1>1, <1>3, <1>4
<1>6. t \in Seq(ToSet(s)) /\ Len(t) = n
  BY <1>5, FunctionIsSeq
<1>7. \A i \in 1..n : t[i].id \in Ids
  BY <1>1, <1>3, <1>4
<1>8. Copies(t)
  BY <1>6, <1>7, AreCopies
<1>9. ToSet(t) = {t[i] : i \in 1..n}
  BY <1>6, <1>8, CopiesAre
<1>10. ToSet(t) = ToSet(s)
  <2>1. ASSUME NEW i \in 1..n PROVE s[i] \in ToSet(t)
    <3>1. (n - i) + 1 \in 1..n /\ t[(n - i) + 1] = s[i]
      BY <1>1, <1>3
    <3> QED
      BY <1>9, <3>1
  <2> QED
    BY <1>0, <1>5, <1>9, <2>1
<1>11. IdsOf(t) = IdsOf(s)
  BY <1>8, <1>10, IdsAre
<1> QED
  BY <1>2, <1>8, <1>10, <1>11

LEMMA RemoveFirstCopies ==
  ASSUME NEW s, Copies(s), NEW e
  PROVE  /\ Copies(RemoveFirst(s, e)) /\ ToSet(RemoveFirst(s, e)) \subseteq ToSet(s)
         /\ \A y \in ToSet(s) : y # e => y \in ToSet(RemoveFirst(s, e))
<1>1. CASE ~\E i \in 1..Len(s) : s[i] = e
  <2>1. RemoveFirst(s, e) = s
    BY <1>1 DEF RemoveFirst
  <2> QED
    BY <2>1
<1>2. CASE \E i \in 1..Len(s) : s[i] = e
  <2>0. Len(s) \in Nat
    BY CopiesAre
  <2>1. PICK T : T = {i \in 1..Len(s) : s[i] = e}
    OBVIOUS
  <2>2. T # {} /\ T \in SUBSET Nat
    BY <1>2, <2>0, <2>1
  <2>3. PICK k \in T : \A j \in T : k <= j
    BY <2>2, Smallest
  <2>4. Min(T) \in T
    BY <2>3 DEF Min
  <2>5. PICK j \in T : j = Min(T)
    BY <2>4
  <2>6. j \in 1..Len(s) /\ s[j] = e
    BY <2>1, <2>5
  <2>7. SelectInSeq(s, LAMBDA v : v = e) = j
    BY <2>1, <2>2, <2>5 DEF SelectInSeq
  <2>8. RemoveFirst(s, e) = RemoveAt(s, j)
    BY <1>2, <2>7 DEF RemoveFirst
  <2> QED
    BY <2>6, <2>8, RemoveAtCopies
<1> QED
  BY <1>1, <1>2

\* The copies in a finite set, in some order.
LEMMA SetCopies ==
  ASSUME NEW S, IsFiniteSet(S), \A x \in S : x.id \in Ids,
         \A x, y \in S : x.id = y.id => x = y
  PROVE  Copies(SetToSeq(S)) /\ NoneTwice(SetToSeq(S))
<1>1. PICK n \in Nat : n = Cardinality(S)
  BY FS_CardinalityType
<1>2. \E f \in [1..n -> S] : IsInjective(f)
  <2>1. ExistsBijection(1..n, S)
    BY <1>1, FS_CardinalityType
  <2>2. PICK f : f \in Bijection(1..n, S)
    BY <2>1 DEF ExistsBijection
  <2> QED
    BY <2>2 DEF Bijection, Injection, IsInjective
<1>3. PICK t \in [1..n -> S] : t = SetToSeq(S) /\ IsInjective(t)
  BY <1>1, <1>2 DEF SetToSeq
<1>4. t \in Seq(S) /\ Len(t) = n
  BY <1>3, FunctionIsSeq
<1>5. Copies(t)
  BY <1>3, <1>4, AreCopies
<1>6. \A i, j \in 1..n : t[i].id = t[j].id => i = j
  BY <1>3 DEF IsInjective
<1>7. NoneTwice(t)
  BY <1>4, <1>5, <1>6, NoneTwiceIs
<1> QED
  BY <1>3, <1>5, <1>7

InOrder(p, s, v, k) ==
  /\ Copies(v) /\ ToSet(v) = {s[i] : i \in 1..k}
  /\ NoneTwice(s) => NoneTwice(v)

LEMMA InsertCopies ==
  ASSUME NEW s, Copies(s), NEW x, x.id \in Ids
  PROVE  /\ Copies(Insert(s, x)) /\ ToSet(Insert(s, x)) = ToSet(s) \cup {x}
         /\ NoneTwice(s) /\ x.id \notin IdsOf(s) => NoneTwice(Insert(s, x))
<1>1. PICK n \in Nat : n = Len(s) /\ DOMAIN s = 1..n
  BY CopiesAre
<1>2. PICK T : T = {i \in DOMAIN s : ~Before(x, s[i])}
  OBVIOUS
<1>3. Cardinality(T) \in Nat /\ Cardinality(T) <= n
  <2>1. IsFiniteSet(1..n) /\ Cardinality(1..n) = n
    BY FS_Interval
  <2>2. T \in SUBSET (1..n)
    BY <1>1, <1>2
  <2> QED
    BY <2>1, <2>2, FS_Subset, FS_CardinalityType
<1>4. PICK k : k = 1 + Cardinality(T)
  OBVIOUS
<1>5. k \in 1..Len(s) + 1
  BY <1>1, <1>3, <1>4
<1>6. Insert(s, x) = InsertAt(s, k, x)
  BY <1>2, <1>4 DEF Insert
<1> QED
  BY <1>5, <1>6, InsertAtCopies

-----------------------------------------------------------------------------
(* What the operations on a ledger do to the ids of confirmed transactions.*)

HasStored(l) == "stored" \in DOMAIN l

SameStored(l, m) == HasStored(m) /\ m.stored = l.stored

LEMMA CreditStored ==
  ASSUME NEW l, HasStored(l), NEW a, NEW n
  PROVE  SameStored(l, Credit(l, a, n))
BY DEF HasStored, SameStored, Credit

LEMMA SpreadStored ==
  ASSUME NEW l, HasStored(l), NEW t, NEW sign
  PROVE  SameStored(l, Spread(l, t, sign))
BY DEF HasStored, SameStored, Spread

LEMMA SendStored ==
  ASSUME NEW l, HasStored(l), NEW t
  PROVE  SameStored(l, ApplySend(l, t)) /\ SameStored(l, UndoSend(l, t))
BY CreditStored DEF SameStored, ApplySend, UndoSend

LEMMA SignatureStored ==
  ASSUME NEW l, HasStored(l), NEW t
  PROVE  SameStored(l, ApplySignature(l, t)) /\ SameStored(l, UndoSignature(l, t))
BY DEF HasStored, SameStored, ApplySignature, UndoSignature

LEMMA DelegateStored ==
  ASSUME NEW l, HasStored(l), NEW t
  PROVE  SameStored(l, ApplyDelegate(l, t)) /\ SameStored(l, UndoDelegate(l, t))
BY DEF HasStored, SameStored, ApplyDelegate, UndoDelegate

LEMMA RegisterStored ==
  ASSUME NEW l, HasStored(l), NEW t
  PROVE  SameStored(l, ApplyRegister(l, t)) /\ SameStored(l, UndoRegister(l, t))
BY DEF HasStored, SameStored, ApplyRegister, UndoRegister

LEMMA ApplyStakeStored ==
  ASSUME NEW l, HasStored(l), NEW t, NEW id
  PROVE  SameStored(l, ApplyStake(l, t, id))
<1>1. PICK s : s = [src |-> id, amount |-> t.amount, active |-> TRUE, voteCount |-> 0,
                    next |-> t.createdAt, prev |-> <<>>]
  OBVIOUS
<1>2. PICK m : m = Credit(l, t.sender, -t.amount)
  OBVIOUS
<1>3. SameStored(l, m)
  BY <1>2, CreditStored
<1>4. PICK k : k = [m EXCEPT !.acct[t.sender].stakes = Append(@, s)]
  OBVIOUS
<1>5. SameStored(l, k)
  BY <1>3, <1>4 DEF HasStored, SameStored
<1>6. ApplyStake(l, t, id) = Spread(k, t, 1)
  BY <1>1, <1>2, <1>4 DEF ApplyStake
<1> QED
  BY <1>5, <1>6, SpreadStored DEF SameStored

LEMMA UndoStakeStored ==
  ASSUME NEW l, HasStored(l), NEW t, NEW id
  PROVE  SameStored(l, UndoStake(l, t, id))
<1>2. PICK m : m = Credit(l, t.sender, t.amount)
  OBVIOUS
<1>3. SameStored(l, m)
  BY <1>2, CreditStored
<1>4. PICK k : k = [m EXCEPT !.acct[t.sender].stakes = SelectSeq(@, LAMBDA s : s.src # id)]
  OBVIOUS
<1>5. SameStored(l, k)
  BY <1>3, <1>4 DEF HasStored, SameStored
<1>6. UndoStake(l, t, id) = Spread(k, t, -1)
  BY <1>2, <1>4 DEF UndoStake
<1> QED
  BY <1>5, <1>6, SpreadStored DEF SameStored

LEMMA CountStored ==
  ASSUME NEW l, HasStored(l), NEW t, NEW n
  PROVE  SameStored(l, CountVotes(l, t, n)) /\ SameStored(l, CountConfirmed(l, t, n))
BY DEF HasStored, SameStored, CountVotes, CountConfirmed

LEMMA WithoutStored ==
  ASSUME NEW l, HasStored(l), NEW t, NEW n
  PROVE  SameStored(l, WithoutAll(l, t, n))
BY DEF HasStored, SameStored, WithoutAll

LEMMA CastStored ==
  ASSUME NEW l, HasStored(l), NEW t
  PROVE  SameStored(l, CastUp(l, t)) /\ SameStored(l, CastDown(l, t))
<1>1. PICK m : m = CountVotes(l, t, 1)
  OBVIOUS
<1>2. SameStored(l, m)
  BY <1>1, CountStored
<1>3. SameStored(l, [m EXCEPT !.acct[t.sender].votes = @ \o t.votes])
  BY <1>2 DEF HasStored, SameStored
<1>4. SameStored(l, CastUp(l, t))
  BY <1>1, <1>2, <1>3 DEF CastUp
<1>5. SameStored(l, CastDown(l, t))
  BY CountStored, WithoutStored DEF CastDown, SameStored
<1> QED
  BY <1>4, <1>5

LEMMA TakeBackStored ==
  ASSUME NEW l, HasStored(l), NEW t
  PROVE  SameStored(l, TakeBackUp(l, t)) /\ SameStored(l, TakeBackDown(l, t))
<1>1. PICK m : m = [l EXCEPT !.acct[t.sender].votes = @ \o t.votes]
  OBVIOUS
<1>2. SameStored(l, m)
  BY <1>1 DEF HasStored, SameStored
<1>3. SameStored(l, TakeBackDown(l, t))
  <2>1. TakeBackDown(l, t) = CountVotes(m, t, 1)
    BY <1>1 DEF TakeBackDown
  <2>2. SameStored(m, CountVotes(m, t, 1))
    BY <1>2, CountStored DEF SameStored
  <2> QED
    BY <1>2, <2>1, <2>2 DEF SameStored
<1>4. SameStored(l, TakeBackUp(l, t))
  BY CountStored, WithoutStored DEF TakeBackUp, SameStored
<1> QED
  BY <1>3, <1>4

LEMMA PayStored ==
  ASSUME NEW l, HasStored(l), NEW t, NEW sign
  PROVE  SameStored(l, PayVote(l, t, sign))
BY CreditStored, SpreadStored DEF PayVote, SameStored

LEMMA ApplyVoteStored ==
  ASSUME NEW l, HasStored(l), NEW t
  PROVE  SameStored(l, ApplyVote(l, t))
<1>1. PICK m : m = IF t.down THEN CastDown(l, t) ELSE CastUp(l, t)
  OBVIOUS
<1>2. SameStored(l, m)
  BY <1>1, CastStored
<1>3. PICK k : k = [m EXCEPT !.acct[t.sender].stakes = [i \in DOMAIN @ |-> CountVote(@[i], t)]]
  OBVIOUS
<1>4. SameStored(l, k)
  BY <1>2, <1>3 DEF HasStored, SameStored
<1>5. SameStored(l, PayVote(k, t, 1))
  BY <1>4, PayStored DEF SameStored
<1>6. ApplyVote(l, t) = IF Throws(l, t) \/ t.down THEN m ELSE PayVote(k, t, 1)
  BY <1>1, <1>3 DEF ApplyVote
<1> QED
  BY <1>2, <1>5, <1>6

LEMMA UndoVoteStored ==
  ASSUME NEW l, HasStored(l), NEW t
  PROVE  SameStored(l, UndoVote(l, t))
<1>1. PICK m : m = IF t.down THEN TakeBackDown(l, t) ELSE TakeBackUp(l, t)
  OBVIOUS
<1>2. SameStored(l, m)
  BY <1>1, TakeBackStored
<1>3. PICK k : k = [m EXCEPT !.acct[t.sender].stakes = [i \in DOMAIN @ |-> UncountVote(@[i], t)]]
  OBVIOUS
<1>4. SameStored(l, k)
  BY <1>2, <1>3 DEF HasStored, SameStored
<1>5. SameStored(l, PayVote(k, t, -1))
  BY <1>4, PayStored DEF SameStored
<1>6. UndoVote(l, t) = IF Throws(l, t) \/ t.down THEN m ELSE PayVote(k, t, -1)
  BY <1>1, <1>3 DEF UndoVote
<1> QED
  BY <1>2, <1>5, <1>6

\* Only confirming and its undoing touch the ids of confirmed transactions.
LEMMA UnconfirmedStored ==
  ASSUME NEW l, HasStored(l), NEW x, x.id \in Ids
  PROVE  SameStored(l, ApplyUnconfirmed(l, x)) /\ SameStored(l, UndoUnconfirmed(l, x))
<1>1. PICK t : t = Trs[x.id]
  OBVIOUS
<1>2. t.type \in Types
  BY <1>1, TrsAssumption
<1>3. PICK p, b : p = Credit(l, t.sender, -x.fee) /\ b = Credit(l, t.sender, x.fee)
  OBVIOUS
<1>4. SameStored(l, p) /\ SameStored(l, b)
  BY <1>3, CreditStored
<1>5. SameStored(l, ApplyUnconfirmed(l, x))
  <2>1. /\ SameStored(l, ApplyRegister(p, t)) /\ SameStored(l, ApplySend(p, t))
        /\ SameStored(l, ApplySignature(p, t)) /\ SameStored(l, ApplyDelegate(p, t))
        /\ SameStored(l, ApplyStake(p, t, x.id)) /\ SameStored(l, ApplyVote(p, t))
    BY <1>4, RegisterStored, SendStored, SignatureStored, DelegateStored, ApplyStakeStored,
       ApplyVoteStored DEF SameStored
  <2> QED
    BY <1>1, <1>2, <1>3, <2>1 DEF ApplyUnconfirmed, Types
<1>6. SameStored(l, UndoUnconfirmed(l, x))
  <2>1. /\ SameStored(l, UndoRegister(b, t)) /\ SameStored(l, UndoSend(b, t))
        /\ SameStored(l, UndoSignature(b, t)) /\ SameStored(l, UndoDelegate(b, t))
        /\ SameStored(l, UndoStake(b, t, x.id)) /\ SameStored(l, UndoVote(b, t))
    BY <1>4, RegisterStored, SendStored, SignatureStored, DelegateStored, UndoStakeStored,
       UndoVoteStored DEF SameStored
  <2> QED
    BY <1>1, <1>2, <1>3, <2>1 DEF UndoUnconfirmed, Types
<1> QED
  BY <1>5, <1>6

LEMMA ConfirmStored ==
  ASSUME NEW l, HasStored(l), NEW t, NEW n
  PROVE  SameStored(l, Confirm(l, t, n))
BY CountStored DEF Confirm, SameStored

LEMMA ConfirmedStored ==
  ASSUME NEW l, HasStored(l), NEW x
  PROVE  /\ HasStored(ApplyConfirmed(l, x)) /\ ApplyConfirmed(l, x).stored = l.stored \cup {x.id}
         /\ HasStored(UndoConfirmed(l, x)) /\ UndoConfirmed(l, x).stored = l.stored \ {x.id}
<1>1. PICK p, m : p = [l EXCEPT !.stored = @ \cup {x.id}] /\ m = [l EXCEPT !.stored = @ \ {x.id}]
  OBVIOUS
<1>2. HasStored(p) /\ p.stored = l.stored \cup {x.id} /\ HasStored(m) /\ m.stored = l.stored \ {x.id}
  BY <1>1 DEF HasStored
<1>3. PICK i, j : i = (IF Trs[x.id].down THEN -1 ELSE 1) /\ j = (IF Trs[x.id].down THEN 1 ELSE -1)
  OBVIOUS
<1>4. SameStored(p, Confirm(p, Trs[x.id], i)) /\ SameStored(m, Confirm(m, Trs[x.id], j))
  BY <1>2, ConfirmStored
<1>5. /\ ApplyConfirmed(l, x) = IF x.id \in l.stored THEN l ELSE Confirm(p, Trs[x.id], i)
      /\ UndoConfirmed(l, x) = IF x.id \notin l.stored THEN l ELSE Confirm(m, Trs[x.id], j)
  BY <1>1, <1>3 DEF ApplyConfirmed, UndoConfirmed
<1> QED
  BY <1>2, <1>4, <1>5 DEF SameStored

-----------------------------------------------------------------------------
(* The memory of the queue, the pool and the ledger.                       *)

Fields == {"queue", "ticks", "pool", "bySender", "byRecipient", "ledger"}

Indexed(index) == \A a \in Address : Copies(index[a])

\* Every transaction of the pool is there once, is found under its sender and
\* is not confirmed.
PoolOK(m) ==
  /\ Fields \subseteq DOMAIN m /\ HasStored(m.ledger)
  /\ Copies(m.queue) /\ Copies(m.pool) /\ NoneTwice(m.pool)
  /\ Indexed(m.bySender) /\ Indexed(m.byRecipient)
  /\ \A y \in ToSet(m.pool) : y \in ToSet(m.bySender[Trs[y.id].sender])
  /\ IdsOf(m.pool) \cap m.ledger.stored = {}

\* What every operation on the memory does, and what those that only take out do.
Goes(m, w) == PoolOK(w) /\ w.ledger.stored = m.ledger.stored

Shrinks(m, w) == Goes(m, w) /\ ToSet(w.pool) \subseteq ToSet(m.pool)

\* What waits in the queue and in the pool; one is added to it and none is lost;
\* none is lost except those in out.
InMemory(m) == IdsOf(m.queue) \cup IdsOf(m.pool)

Takes(m, x, w) == InMemory(m) \cup {x.id} \subseteq InMemory(w)

Loses(m, w, out) == InMemory(m) \subseteq InMemory(w) \cup out

First(s, k) == {s[i].id : i \in 1..k}

LEMMA FirstGrows ==
  ASSUME NEW s, NEW k \in Nat, k >= 1
  PROVE  First(s, k) = First(s, k - 1) \cup {s[k].id}
<1>1. 1..k = (1..k - 1) \cup {k}
  OBVIOUS
<1> QED
  BY <1>1 DEF First

LEMMA FirstEnds ==
  ASSUME NEW s, Copies(s)
  PROVE  First(s, 0) = {} /\ First(s, Len(s)) = IdsOf(s)
BY CopiesAre DEF First

LEMMA FiledCopies ==
  ASSUME NEW index, Indexed(index), NEW addresses, NEW x, x.id \in Ids
  PROVE  /\ Indexed(Filed(index, addresses, x))
         /\ \A a \in Address : ToSet(index[a]) \subseteq ToSet(Filed(index, addresses, x)[a])
         /\ \A a \in Address \cap addresses : x \in ToSet(Filed(index, addresses, x)[a])
<1>1. ASSUME NEW a \in Address
      PROVE  /\ Copies(Append(index[a], x))
             /\ ToSet(Append(index[a], x)) = ToSet(index[a]) \cup {x}
  BY AppendCopies DEF Indexed
<1> QED
  BY <1>1 DEF Indexed, Filed

LEMMA UnfiledCopies ==
  ASSUME NEW index, Indexed(index), NEW addresses, NEW x
  PROVE  /\ Indexed(Unfiled(index, addresses, x))
         /\ \A a \in Address : \A y \in ToSet(index[a]) :
               y # x => y \in ToSet(Unfiled(index, addresses, x)[a])
<1>1. ASSUME NEW a \in Address
      PROVE  /\ Copies(RemoveFirst(index[a], x))
             /\ \A y \in ToSet(index[a]) : y # x => y \in ToSet(RemoveFirst(index[a], x))
  BY RemoveFirstCopies DEF Indexed
<1> QED
  BY <1>1 DEF Indexed, Unfiled

LEMMA PushGoes ==
  ASSUME NEW m, PoolOK(m), NEW x, x.id \in Ids, x.id \notin m.ledger.stored
  PROVE  Goes(m, PoolPush(m, x)) /\ Takes(m, x, PoolPush(m, x))
<1>1. CASE x.id \in IdsOf(m.pool)
  BY <1>1 DEF PoolPush, Goes, Takes, InMemory
<1>2. CASE x.id \notin IdsOf(m.pool)
  <2>1. PICK t : t = Trs[x.id]
    OBVIOUS
  <2>2. PICK p, f, g, l :
          /\ p = Append(m.pool, x) /\ f = Filed(m.bySender, {t.sender}, x)
          /\ g = Filed(m.byRecipient, Recipients(t), x) /\ l = ApplyUnconfirmed(m.ledger, x)
    OBVIOUS
  <2>3. PICK w : w = [m EXCEPT !.pool = p, !.bySender = f, !.byRecipient = g, !.ledger = l]
    OBVIOUS
  <2>4. /\ DOMAIN w = DOMAIN m /\ w.queue = m.queue /\ w.pool = p /\ w.ledger = l
        /\ w.bySender = f /\ w.byRecipient = g
    BY <2>3 DEF PoolOK, Fields
  <2>5. PoolPush(m, x) = w
    BY <1>2, <2>1, <2>2, <2>3 DEF PoolPush
  <2>6. /\ Copies(p) /\ ToSet(p) = ToSet(m.pool) \cup {x} /\ IdsOf(p) = IdsOf(m.pool) \cup {x.id}
        /\ NoneTwice(p)
    BY <1>2, <2>2, AppendCopies DEF PoolOK
  <2>7. /\ Indexed(f) /\ x \in ToSet(f[t.sender])
        /\ \A a \in Address : ToSet(m.bySender[a]) \subseteq ToSet(f[a])
    BY <2>1, <2>2, FiledCopies, TrsAssumption DEF PoolOK
  <2>8. Indexed(g)
    BY <2>2, FiledCopies DEF PoolOK
  <2>9. HasStored(l) /\ l.stored = m.ledger.stored
    BY <2>2, UnconfirmedStored DEF PoolOK, SameStored
  <2>10. ASSUME NEW y \in ToSet(p) PROVE y \in ToSet(f[Trs[y.id].sender])
    <3>1. CASE y = x
      BY <2>1, <2>7, <3>1
    <3>2. CASE y \in ToSet(m.pool)
      <4>1. y.id \in Ids
        BY <3>2, CopiesAre DEF PoolOK
      <4>2. Trs[y.id].sender \in Address
        BY <4>1, TrsAssumption
      <4> QED
        BY <2>7, <3>2, <4>2 DEF PoolOK
    <3> QED
      BY <2>6, <3>1, <3>2
  <2>11. Takes(m, x, w)
    BY <2>4, <2>6 DEF Takes, InMemory
  <2> QED
    BY <2>4, <2>5, <2>6, <2>7, <2>8, <2>9, <2>10, <2>11 DEF Goes, PoolOK
<1> QED
  BY <1>1, <1>2

LEMMA RemoveGoes ==
  ASSUME NEW m, PoolOK(m), NEW x
  PROVE  /\ Shrinks(m, PoolRemove(m, x)) /\ x.id \notin IdsOf(PoolRemove(m, x).pool)
         /\ Loses(m, PoolRemove(m, x), {x.id})
<1>1. CASE x.id \notin IdsOf(m.pool)
  BY <1>1 DEF PoolRemove, Goes, Shrinks, Loses
<1>2. CASE x.id \in IdsOf(m.pool)
  <2>1. PICK t : t = Trs[x.id]
    OBVIOUS
  <2>0. PICK n \in Nat : /\ n = Len(m.pool) /\ DOMAIN m.pool = 1..n
                         /\ IdsOf(m.pool) = {m.pool[i].id : i \in 1..n}
    BY CopiesAre DEF PoolOK
  <2>2. PICK k \in 1..n : /\ m.pool[k].id = x.id
                          /\ k = CHOOSE i \in DOMAIN m.pool : m.pool[i].id = x.id
    BY <1>2, <2>0
  <2>3. PICK p, f, g, l :
          /\ p = RemoveAt(m.pool, k) /\ f = Unfiled(m.bySender, {t.sender}, x)
          /\ g = Unfiled(m.byRecipient, Recipients(t), x) /\ l = UndoUnconfirmed(m.ledger, x)
    OBVIOUS
  <2>4. PICK w : w = [m EXCEPT !.pool = p, !.bySender = f, !.byRecipient = g, !.ledger = l]
    OBVIOUS
  <2>5. /\ DOMAIN w = DOMAIN m /\ w.queue = m.queue /\ w.pool = p /\ w.ledger = l
        /\ w.bySender = f /\ w.byRecipient = g
    BY <2>4 DEF PoolOK, Fields
  <2>6. PoolRemove(m, x) = w
    BY <1>2, <2>1, <2>2, <2>3, <2>4 DEF PoolRemove
  <2>7. /\ Copies(p) /\ ToSet(p) \subseteq ToSet(m.pool) /\ NoneTwice(p)
        /\ IdsOf(p) = IdsOf(m.pool) \ {x.id}
    <3>1. Copies(m.pool) /\ NoneTwice(m.pool) /\ k \in 1..Len(m.pool)
      BY <2>0 DEF PoolOK
    <3>2. /\ Copies(p) /\ ToSet(p) \subseteq ToSet(m.pool)
          /\ NoneTwice(m.pool) => NoneTwice(p) /\ IdsOf(p) = IdsOf(m.pool) \ {m.pool[k].id}
      BY <2>3, <3>1, RemoveAtCopies
    <3> QED
      BY <2>2, <3>1, <3>2
  <2>8. /\ Indexed(f)
        /\ \A a \in Address : \A y \in ToSet(m.bySender[a]) : y # x => y \in ToSet(f[a])
    BY <2>3, UnfiledCopies DEF PoolOK
  <2>9. Indexed(g)
    BY <2>3, UnfiledCopies DEF PoolOK
  <2>10. x.id \in Ids
    BY <1>2 DEF PoolOK, Copies
  <2>11. HasStored(l) /\ l.stored = m.ledger.stored
    BY <2>3, <2>10, UnconfirmedStored DEF PoolOK, SameStored
  <2>12. ASSUME NEW y \in ToSet(p) PROVE y \in ToSet(f[Trs[y.id].sender])
    <3>1. y \in ToSet(m.pool) /\ y.id \in IdsOf(p) /\ y.id \in Ids
      BY <2>7, CopiesAre
    <3>2. y # x
      BY <2>7, <3>1
    <3>3. Trs[y.id].sender \in Address
      BY <3>1, TrsAssumption
    <3> QED
      BY <2>8, <3>1, <3>2, <3>3 DEF PoolOK
  <2>13. Loses(m, w, {x.id})
    BY <2>5, <2>7 DEF Loses, InMemory
  <2> QED
    BY <2>5, <2>6, <2>7, <2>8, <2>9, <2>11, <2>12, <2>13 DEF Goes, Shrinks, PoolOK
<1> QED
  BY <1>1, <1>2

LEMMA GoesOn ==
  ASSUME NEW m, NEW v, NEW w, Goes(m, v), Goes(v, w)
  PROVE  Goes(m, w)
BY DEF Goes

LEMMA ShrinksOn ==
  ASSUME NEW m, NEW v, NEW w, Shrinks(m, v), Shrinks(v, w)
  PROVE  Shrinks(m, w)
BY DEF Shrinks, Goes

LEMMA ShrinkingIds ==
  ASSUME NEW m, NEW w, PoolOK(m), Shrinks(m, w)
  PROVE  IdsOf(w.pool) \subseteq IdsOf(m.pool)
<1>1. IdsOf(w.pool) = {y.id : y \in ToSet(w.pool)} /\ IdsOf(m.pool) = {y.id : y \in ToSet(m.pool)}
  BY IdsAre DEF Shrinks, Goes, PoolOK
<1> QED
  BY <1>1 DEF Shrinks

\* Some of the transactions of s are no longer in the pool.
Gone(s, m, k) == \A i \in 1..k : s[i].id \notin IdsOf(m.pool)

LEMMA GoneOn ==
  ASSUME NEW s, NEW k \in Nat, k >= 1, NEW v, PoolOK(v), Gone(s, v, k - 1), NEW w, Shrinks(v, w),
         s[k].id \notin IdsOf(w.pool)
  PROVE  Gone(s, w, k)
<1>1. IdsOf(w.pool) \subseteq IdsOf(v.pool)
  BY ShrinkingIds
<1>2. \A i \in 1..k : i = k \/ i \in 1..k - 1
  OBVIOUS
<1> QED
  BY <1>1, <1>2 DEF Gone

-----------------------------------------------------------------------------
(* Checking the transactions of a block.                                   *)

\* Of the transactions done, and of the ledger they are applied to.
Checked(p, s, v, k) ==
  /\ {"ok", "threw", "l", "done"} \subseteq DOMAIN v
  /\ HasStored(p) => SameStored(p, v.l)
  /\ Copies(s) /\ Copies(v.done)
  /\ IdsOf(v.done) \subseteq {s[i].id : i \in 1..k}
  /\ NoneTwice(s) => NoneTwice(v.done)

Unconfirmed(p, s, v, k) ==
  /\ Checked(p, s, v, k)
  /\ HasStored(p) /\ v.ok => \A i \in 1..k : s[i].id \notin p.stored

LEMMA CheckedOn ==
  ASSUME NEW p, NEW s, NEW v, NEW k \in 1..Len(s), Checked(p, s, v, k - 1)
  PROVE  Checked(p, s, v, k)
<1>1. Len(s) \in Nat
  BY CopiesAre DEF Checked
<1>2. \A i \in 1..k - 1 : i \in 1..k
  BY <1>1
<1> QED
  BY <1>2 DEF Checked

LEMMA AppliedChecked ==
  ASSUME NEW p, NEW s, NEW v, NEW k \in 1..Len(s), Checked(p, s, v, k - 1),
         NEW x, x.id = s[k].id
  PROVE  /\ Checked(p, s, Applied(v, x), k) /\ Applied(v, x).ok = v.ok
         /\ IdsOf(Applied(v, x).done) = IdsOf(v.done) \cup {x.id}
<1>0. Len(s) \in Nat /\ x.id \in Ids
  BY CopiesAre DEF Checked
<1>1. PICK d, l, e : /\ d = Append(v.done, x) /\ l = ApplyUnconfirmed(v.l, x)
                     /\ e = Throws(v.l, Trs[x.id])
  OBVIOUS
<1>2. PICK w : w = [v EXCEPT !.l = l, !.done = d, !.threw = e]
  OBVIOUS
<1>3. Applied(v, x) = w
  BY <1>1, <1>2 DEF Applied
<1>4. DOMAIN w = DOMAIN v /\ w.l = l /\ w.done = d /\ w.ok = v.ok
  BY <1>2 DEF Checked
<1>5. HasStored(p) => SameStored(p, l)
  BY <1>0, <1>1, UnconfirmedStored DEF Checked, SameStored
<1>6. /\ Copies(d) /\ IdsOf(d) = IdsOf(v.done) \cup {x.id}
      /\ NoneTwice(v.done) /\ x.id \notin IdsOf(v.done) => NoneTwice(d)
  BY <1>0, <1>1, AppendCopies DEF Checked
<1>7. k \in Nat /\ k >= 1 /\ 1..k = (1..k - 1) \cup {k} /\ \A i \in 1..k - 1 : i \in 1..Len(s) /\ i # k
  BY <1>0
<1>8. IdsOf(d) \subseteq {s[i].id : i \in 1..k}
  BY <1>6, <1>7 DEF Checked
<1>9. ASSUME NoneTwice(s) PROVE NoneTwice(d)
  <2>1. \A i, j \in 1..Len(s) : s[i].id = s[j].id => i = j
    BY <1>9, NoneTwiceIs DEF Checked
  <2>2. x.id \notin {s[i].id : i \in 1..k - 1}
    BY <1>7, <2>1
  <2> QED
    BY <1>6, <1>9, <2>2 DEF Checked
<1> QED
  BY <1>3, <1>4, <1>5, <1>6, <1>8, <1>9 DEF Checked

\* Nothing is left out, unless applying a vote threw.
Complete(p, s, v, k) ==
  Checked(p, s, v, k) /\ (~v.threw => First(s, k) \subseteq IdsOf(v.done))

Begin(l) == [ok |-> TRUE, threw |-> FALSE, l |-> l, done |-> <<>>]

LEMMA BeginChecked ==
  ASSUME NEW l, NEW s, Copies(s)
  PROVE  Unconfirmed(l, s, Begin(l), 0) /\ Complete(l, s, Begin(l), 0)
<1>1. PICK b : b = Begin(l)
  OBVIOUS
<1>2. {"ok", "threw", "l", "done"} \subseteq DOMAIN b /\ b.l = l /\ b.done = <<>>
  BY <1>1 DEF Begin
<1>3. Checked(l, s, b, 0)
  BY <1>2, NoCopies DEF Checked, SameStored
<1> QED
  BY <1>1, <1>3, FirstEnds DEF Unconfirmed, Complete

\* The outcome of the check: what is done, the ledger, the verdict.
Outcome(l, s, verify, c) ==
  /\ HasStored(l) => SameStored(l, c.l)
  /\ Copies(c.done) /\ IdsOf(c.done) \subseteq IdsOf(s)
  /\ NoneTwice(s) => NoneTwice(c.done)
  /\ HasStored(l) /\ verify /\ c.ok => IdsOf(s) \cap l.stored = {}
  /\ ~verify /\ ~c.threw => IdsOf(s) \subseteq IdsOf(c.done)

LEMMA IdsFinite == IsFiniteSet(Ids)
<1>1. PICK n \in Nat : n = Len(Trs) /\ Ids = 1..n
  BY TrsAssumption, LenProperties DEF Ids
<1>2. IsFiniteSet(1..n)
  BY FS_Interval
<1> QED
  BY <1>1, <1>2

-----------------------------------------------------------------------------
(* The invariant.                                                          *)

\* No transaction is twice in the chain, and the stored ids are those in it.
ChainIs(c, stored) ==
  /\ c \in Seq(ToSet(c))
  /\ \A k \in DOMAIN c : Copies(c[k]) /\ NoneTwice(c[k])
  /\ \A j, k \in DOMAIN c : j # k => IdsOf(c[j]) \cap IdsOf(c[k]) = {}
  /\ stored = UNION {IdsOf(c[k]) : k \in DOMAIN c}

Saving == {"generate", "receive", "syncReceive"}

Tasks == Saving \cup {"idle", "replace", "syncWait", "sync"}

\* A block that is being saved has been taken out of the pool, is not confirmed
\* yet, and the queue is locked.
FlightIs(task, lock, c, m) ==
  /\ task.task \in Tasks
  /\ task.task \in Saving => /\ lock
                             /\ IdsOf(task.block) \cap (m.ledger.stored \cup IdsOf(m.pool)) = {}
  /\ task.task \in Saving \cup {"replace"} => Copies(task.block) /\ NoneTwice(task.block)
  /\ task.task \in {"receive", "syncReceive"} => Copies(task.removed)
  /\ task.task = "replace" => c # <<>>

Safe(m, conflicts, lock, c, task) ==
  /\ PoolOK(m) /\ Copies(conflicts)
  /\ ChainIs(c, m.ledger.stored) /\ FlightIs(task, lock, c, m)

CountOK == "ids" \in DOMAIN count /\ count.ids \subseteq Ids

PoolInv == Safe(Memory, conflicted, locked, chain, main) /\ CountOK

LEMMA InvOnce == PoolInv => ConfirmedOnce
<1> SUFFICES ASSUME PoolInv PROVE ConfirmedOnce
  OBVIOUS
<1>1. InFlight = IF main.task \in Saving THEN main.block ELSE <<>>
  BY DEF PoolInv, Safe, FlightIs, Tasks, Saving, InFlight, Quiet
<1>2. IdsOf(pool) \cap IdsOf(InFlight) = {}
  BY <1>1, NoCopies DEF PoolInv, Safe, FlightIs, Memory
<1>3. PoolOK(Memory) /\ Memory.pool = pool /\ Memory.ledger = ledger /\ ChainIs(chain, ledger.stored)
  BY DEF PoolInv, Safe, Memory
<1> QED
  BY <1>2, <1>3 DEF ConfirmedOnce, ConfirmedIds, ChainIs, PoolOK

-----------------------------------------------------------------------------
(* What the node holds: nothing of it is forgotten.                        *)

\* The ids that the running task carries.
Carried(task) ==
  IF task.task = "generate" THEN IdsOf(task.block)
  ELSE IF task.task \in {"receive", "syncReceive"} THEN IdsOf(task.block) \cup IdsOf(task.removed)
  ELSE {}

Holding(m, conflicts, task) == InMemory(m) \cup IdsOf(conflicts) \cup Carried(task)

Keeps ==
  Holding(Memory, conflicted, main)
    \subseteq Holding(Memory', conflicted', main') \cup Memory'.ledger.stored

\* Processing refuses a transaction; generating a block throws.
Refused(id) ==
  /\ queue # <<>> /\ id = Head(queue).id /\ queue' = Tail(queue)
  /\ ~VerifyUnconfirmed(ledger, AtProcessing(Head(queue)), FALSE)
Thrown(id) == GenerateBlock /\ main' = Idle /\ id \in IdsOf(NextBlock)

Kept ==
  \A id \in Holding(Memory, conflicted, main) :
    \/ id \in Holding(Memory', conflicted', main') \cup Memory'.ledger.stored
    \/ Refused(id) \/ Thrown(id)

LEMMA KeepsAll == ASSUME Keeps PROVE Kept
BY DEF Keeps, Kept

LEMMA HeldIs ==
  ASSUME PoolInv, PoolInv'
  PROVE  Held = Holding(Memory, conflicted, main) /\ Held' = Holding(Memory', conflicted', main')
<1>1. main.task \in Tasks /\ main'.task \in Tasks
  BY DEF PoolInv, Safe, FlightIs
<1>2. IdsOf(InFlight) = IF main.task \in Saving THEN IdsOf(main.block) ELSE {}
  BY <1>1, NoCopies DEF InFlight, Quiet, Tasks, Saving
<1>3. IdsOf(InFlight') = IF main'.task \in Saving THEN IdsOf(main'.block) ELSE {}
  BY <1>1, NoCopies DEF InFlight, Quiet, Tasks, Saving
<1>4. Held = Holding(Memory, conflicted, main)
  BY <1>2 DEF Held, Queued, Holding, InMemory, Memory, Carried, Saving
<1>5. Held' = Holding(Memory', conflicted', main')
  BY <1>3 DEF Held, Queued, Holding, InMemory, Memory, Carried, Saving, IdsOf
<1> QED
  BY <1>4, <1>5

-----------------------------------------------------------------------------
(* The chain.                                                              *)

LEMMA ChainAppend ==
  ASSUME NEW c, NEW stored, ChainIs(c, stored), NEW b, Copies(b), NoneTwice(b),
         IdsOf(b) \cap stored = {}
  PROVE  ChainIs(Append(c, b), stored \cup IdsOf(b))
<1>1. PICK n \in Nat : n = Len(c) /\ DOMAIN c = 1..n
  BY LenProperties DEF ChainIs
<1>2. PICK d : d = Append(c, b)
  OBVIOUS
<1>3. c \in Seq(ToSet(c) \cup {b}) /\ b \in ToSet(c) \cup {b}
  BY SeqMonotonic DEF ChainIs
<1>4. /\ d \in Seq(ToSet(c) \cup {b}) /\ Len(d) = n + 1 /\ d[n + 1] = b
      /\ \A k \in 1..n : d[k] = c[k]
  BY <1>1, <1>2, <1>3, AppendProperties
<1>5. ToSet(d) = ToSet(c) \cup {b}
  BY <1>2, <1>3, AppendSet
<1>6. DOMAIN d = 1..n + 1 /\ \A k \in 1..n + 1 : k = n + 1 \/ k \in 1..n
  BY <1>1, <1>4, LenProperties
<1>7. \A k \in 1..n : IdsOf(c[k]) \subseteq stored
  BY <1>1 DEF ChainIs
<1>8. \A k \in DOMAIN d : Copies(d[k]) /\ NoneTwice(d[k])
  BY <1>1, <1>4, <1>6 DEF ChainIs
<1>9. ASSUME NEW j \in DOMAIN d, NEW k \in DOMAIN d, j # k
      PROVE  IdsOf(d[j]) \cap IdsOf(d[k]) = {}
  <2>1. CASE j \in 1..n /\ k \in 1..n
    BY <1>1, <1>4, <1>9, <2>1 DEF ChainIs
  <2>2. CASE j = n + 1 /\ k \in 1..n
    BY <1>4, <1>7, <2>2
  <2>3. CASE k = n + 1 /\ j \in 1..n
    BY <1>4, <1>7, <2>3
  <2> QED
    BY <1>6, <1>9, <2>1, <2>2, <2>3
<1>10. stored \cup IdsOf(b) = UNION {IdsOf(d[k]) : k \in DOMAIN d}
  <2>1. stored = UNION {IdsOf(c[k]) : k \in 1..n}
    BY <1>1 DEF ChainIs
  <2>2. ASSUME NEW id \in stored \cup IdsOf(b) PROVE \E k \in DOMAIN d : id \in IdsOf(d[k])
    <3>1. CASE id \in stored
      <4>1. PICK k \in 1..n : id \in IdsOf(c[k])
        BY <2>1, <3>1
      <4>2. k \in 1..n + 1
        BY <1>1
      <4> QED
        BY <1>4, <1>6, <4>1, <4>2
    <3>2. CASE id \in IdsOf(b)
      <4>1. n + 1 \in 1..n + 1
        BY <1>1
      <4> QED
        BY <1>4, <1>6, <3>2, <4>1
    <3> QED
      BY <2>2, <3>1, <3>2
  <2>3. \A k \in DOMAIN d : IdsOf(d[k]) \subseteq stored \cup IdsOf(b)
    BY <1>4, <1>6, <1>7
  <2> QED
    BY <2>2, <2>3
<1> QED
  BY <1>2, <1>4, <1>5, <1>8, <1>9, <1>10 DEF ChainIs

LEMMA ChainFront ==
  ASSUME NEW c, NEW stored, ChainIs(c, stored), c # <<>>
  PROVE  Copies(Last(c)) /\ ChainIs(Front(c), stored \ IdsOf(Last(c)))
<1>1. PICK n \in Nat \ {0} : n = Len(c) /\ DOMAIN c = 1..n
  BY EmptySeq, LenProperties DEF ChainIs
<1>2. PICK d : d = Front(c)
  OBVIOUS
<1>3. d \in Seq(ToSet(c)) /\ Len(d) = n - 1 /\ \A k \in 1..n - 1 : d[k] = c[k]
  BY <1>1, <1>2, FrontElements DEF ChainIs
<1>4. /\ DOMAIN d = 1..n - 1 /\ n \in 1..n
      /\ \A k \in 1..n : k = n \/ k \in 1..n - 1
      /\ \A k \in 1..n - 1 : k \in 1..n /\ k # n
  BY <1>1, <1>3, LenProperties
<1>5. Last(c) = c[n] /\ Copies(c[n])
  BY <1>1, <1>4 DEF Last, ChainIs
<1>6. d \in Seq(ToSet(d))
  <2>1. ToSet(d) = {d[k] : k \in 1..n - 1}
    BY <1>3, SetOf
  <2>2. d \in [1..n - 1 -> ToSet(d)] /\ n - 1 \in Nat
    <3>1. d \in [1..n - 1 -> ToSet(c)]
      BY <1>3, LenProperties
    <3> QED
      BY <2>1, <3>1
  <2> QED
    BY <2>2, FunctionIsSeq
<1>7. /\ \A k \in DOMAIN d : Copies(d[k]) /\ NoneTwice(d[k])
      /\ \A j, k \in DOMAIN d : j # k => IdsOf(d[j]) \cap IdsOf(d[k]) = {}
  BY <1>1, <1>3, <1>4 DEF ChainIs
<1>8. stored \ IdsOf(c[n]) = UNION {IdsOf(d[k]) : k \in DOMAIN d}
  <2>1. /\ stored = UNION {IdsOf(c[k]) : k \in 1..n}
        /\ \A k \in 1..n - 1 : IdsOf(c[k]) \cap IdsOf(c[n]) = {}
    BY <1>1, <1>4 DEF ChainIs
  <2>2. ASSUME NEW id \in stored \ IdsOf(c[n]) PROVE \E k \in DOMAIN d : id \in IdsOf(d[k])
    <3>1. PICK k \in 1..n : id \in IdsOf(c[k])
      BY <2>1
    <3>2. k \in 1..n - 1
      BY <1>4, <3>1
    <3> QED
      BY <1>3, <1>4, <3>1, <3>2
  <2>3. \A k \in DOMAIN d : IdsOf(d[k]) \subseteq stored \ IdsOf(c[n])
    BY <1>3, <1>4, <2>1
  <2> QED
    BY <2>2, <2>3
<1> QED
  BY <1>2, <1>5, <1>6, <1>7, <1>8 DEF ChainIs

-----------------------------------------------------------------------------
(* The memory and the invariant; the steps that fold over nothing.         *)

LEMMA MemoryIs ==
  /\ Memory.queue = queue /\ Memory.pool = pool /\ Memory.ledger = ledger
  /\ Memory.bySender = bySender /\ Memory.byRecipient = byRecipient
  /\ Fields \subseteq DOMAIN Memory
BY DEF Memory, Fields

LEMMA BecomeOK ==
  ASSUME NEW w, PoolOK(w), Become(w)
  PROVE  /\ PoolOK(Memory') /\ Memory'.ledger.stored = w.ledger.stored
         /\ IdsOf(Memory'.pool) = IdsOf(w.pool) /\ InMemory(Memory') = InMemory(w)
BY DEF Become, Memory, PoolOK, Fields, InMemory

\* The ledger of a memory is replaced.
WithLedger(m, l) == [m EXCEPT !.ledger = l]

LEMMA WithLedgerIs ==
  ASSUME NEW m, PoolOK(m), NEW l, HasStored(l), IdsOf(m.pool) \cap l.stored = {}
  PROVE  /\ PoolOK(WithLedger(m, l)) /\ WithLedger(m, l).ledger = l
         /\ WithLedger(m, l).pool = m.pool /\ InMemory(WithLedger(m, l)) = InMemory(m)
<1>1. PICK w : w = WithLedger(m, l)
  OBVIOUS
<1>2. /\ DOMAIN w = DOMAIN m /\ w.queue = m.queue /\ w.pool = m.pool /\ w.ledger = l
      /\ w.bySender = m.bySender /\ w.byRecipient = m.byRecipient
  BY <1>1 DEF WithLedger, PoolOK, Fields
<1> QED
  BY <1>1, <1>2 DEF PoolOK, InMemory

\* The queue of a memory is replaced; its timer may be called again.
WithQueue(m, q, n) == [m EXCEPT !.queue = q, !.ticks = @ + n]

LEMMA WithQueueIs ==
  ASSUME NEW m, PoolOK(m), NEW q, Copies(q), NEW n
  PROVE  /\ PoolOK(WithQueue(m, q, n)) /\ WithQueue(m, q, n).ledger = m.ledger
         /\ WithQueue(m, q, n).pool = m.pool /\ WithQueue(m, q, n).queue = q
<1>1. PICK w : w = WithQueue(m, q, n)
  OBVIOUS
<1>2. /\ DOMAIN w = DOMAIN m /\ w.queue = q /\ w.pool = m.pool /\ w.ledger = m.ledger
      /\ w.bySender = m.bySender /\ w.byRecipient = m.byRecipient
  BY <1>1 DEF WithQueue, PoolOK, Fields
<1> QED
  BY <1>1, <1>2 DEF PoolOK

LEMMA Landed ==
  ASSUME NEW task, task.task \in {"idle", "syncWait", "sync"}, NEW lock, NEW c, NEW m
  PROVE  FlightIs(task, lock, c, m)
BY DEF FlightIs, Tasks, Saving

\* The parts of the invariant, for the variables.
LEMMA InvParts ==
  ASSUME PoolInv
  PROVE  /\ PoolOK(Memory) /\ Copies(conflicted) /\ ChainIs(chain, ledger.stored)
         /\ FlightIs(main, locked, chain, Memory) /\ CountOK
         /\ HasStored(ledger) /\ IdsOf(pool) \cap ledger.stored = {}
BY MemoryIs DEF PoolInv, Safe, PoolOK

LEMMA InvAfter ==
  ASSUME Safe(Memory', conflicted', locked', chain', main'), CountOK'
  PROVE  PoolInv'
BY DEF PoolInv

LEMMA CountStays ==
  ASSUME CountOK, NEW arrivals, NEW blocks, NEW deletes, NEW syncs, NEW faults, NEW drops,
         \/ count' = count
         \/ count' = [count EXCEPT !.arrivals = arrivals]
         \/ count' = [count EXCEPT !.blocks = blocks]
         \/ count' = [count EXCEPT !.deletes = deletes, !.blocks = blocks]
         \/ count' = [count EXCEPT !.deletes = deletes]
         \/ count' = [count EXCEPT !.syncs = syncs]
         \/ count' = [count EXCEPT !.faults = faults]
         \/ count' = [count EXCEPT !.drops = drops]
  PROVE  CountOK'
BY DEF CountOK

LEMMA ArriveStays ==
  ASSUME CountOK, NEW id, Arrive(id)
  PROVE  CountOK' /\ id \in Ids
BY DEF CountOK, Arrive

\* The queue, the pool and the ledger change, the chain and the task do not.
LEMMA MemoryChanges ==
  ASSUME PoolInv, NEW w, Goes(Memory, w), Become(w), Copies(conflicted'),
         IdsOf(w.pool) \subseteq IdsOf(pool) \/ ~locked,
         UNCHANGED <<locked, chain, main>>
  PROVE  /\ Safe(Memory', conflicted', locked', chain', main')
         /\ InMemory(Memory') = InMemory(w) /\ Carried(main') = Carried(main)
<1>1. PoolOK(w) /\ w.ledger.stored = ledger.stored
  BY MemoryIs DEF Goes
<1>2. /\ PoolOK(Memory') /\ Memory'.ledger.stored = ledger.stored
      /\ IdsOf(Memory'.pool) = IdsOf(w.pool) /\ InMemory(Memory') = InMemory(w)
  BY <1>1, BecomeOK
<1>3. ChainIs(chain', Memory'.ledger.stored)
  BY <1>2, InvParts
<1>4. FlightIs(main', locked', chain', Memory')
  BY <1>2, InvParts, MemoryIs DEF FlightIs
<1> QED
  BY <1>2, <1>3, <1>4 DEF Safe

LEMMA TailCopies ==
  ASSUME NEW s, Copies(s), s # <<>>
  PROVE  /\ Copies(Tail(s)) /\ Head(s).id \in Ids
         /\ IdsOf(s) = {Head(s).id} \cup IdsOf(Tail(s))
<1>1. s \in Seq(ToSet(s)) /\ Len(s) \in Nat \ {0}
  BY EmptySeq DEF Copies
<1>2. Tail(s) = SubSeq(s, 1 + 1, Len(s)) /\ Head(s) \in ToSet(s)
  BY <1>1, TailIsSubSeq, FirstInSet
<1>3. PICK a, b : Cut(s, 1, 1, a, b)
  BY DEF Cut
<1>4. Copies(b) /\ ToSet(b) = {s[i] : i \in 1 + 1..Len(s)}
  BY <1>1, <1>3, PartsCopies DEF Parts
<1>5. ToSet(s) = {Head(s)} \cup ToSet(b)
  <2>1. Head(s) = s[1] /\ 1..Len(s) = {1} \cup (1 + 1..Len(s))
    BY <1>1
  <2> QED
    BY <1>4, <2>1, CopiesAre
<1>6. IdsOf(s) = {Head(s).id} \cup IdsOf(b)
  <2>1. IdsOf(s) = {y.id : y \in ToSet(s)} /\ IdsOf(b) = {y.id : y \in ToSet(b)}
    BY <1>4, IdsAre
  <2> QED
    BY <1>5, <2>1
<1>7. b = Tail(s)
  BY <1>2, <1>3 DEF Cut
<1> QED
  BY <1>2, <1>4, <1>6, <1>7, CopiesAre

\* The queue without the transaction that is processed.
Popped == [Memory EXCEPT !.queue = Tail(@)]

LEMMA PoppedGoes ==
  ASSUME PoolInv, queue # <<>>
  PROVE  /\ Goes(Memory, Popped) /\ PoolOK(Popped)
         /\ Popped.pool = pool /\ Popped.ledger = ledger
         /\ Loses(Memory, Popped, {Head(queue).id})
<1>1. PICK w : w = Popped
  OBVIOUS
<1>2. /\ Fields \subseteq DOMAIN w /\ w.queue = Tail(queue) /\ w.pool = pool /\ w.ledger = ledger
      /\ w.bySender = bySender /\ w.byRecipient = byRecipient
  BY <1>1 DEF Popped, Memory, Fields
<1>3. Copies(queue) /\ PoolOK(Memory)
  BY InvParts, MemoryIs DEF PoolOK
<1>4. Copies(Tail(queue)) /\ IdsOf(queue) = {Head(queue).id} \cup IdsOf(Tail(queue))
  BY <1>3, TailCopies
<1>5. Loses(Memory, w, {Head(queue).id})
  BY <1>2, <1>4, MemoryIs DEF Loses, InMemory
<1> QED
  BY <1>1, <1>2, <1>3, <1>4, <1>5, MemoryIs DEF PoolOK, Goes

LEMMA ProcessStep == ASSUME PoolInv, Process PROVE PoolInv' /\ Kept
<1>0. UNCHANGED <<locked, chain, main>> /\ CountOK'
  BY InvParts DEF Process, CountOK
<1>1. PICK x, y : x = Head(queue) /\ y = AtProcessing(x)
  OBVIOUS
<1>2. CASE UNCHANGED <<queue, conflicted, pool, bySender, byRecipient, ledger>>
  <2>0. PoolOK(Memory)
    BY InvParts
  <2>1. PoolOK(Memory') /\ Memory'.ledger = ledger /\ Memory'.pool = pool
    BY <1>2, <2>0 DEF PoolOK, Memory, Fields
  <2>2. FlightIs(main', locked', chain', Memory')
    BY <1>0, <2>1, InvParts, MemoryIs DEF FlightIs
  <2>3. Keeps
    BY <1>0, <1>2 DEF Keeps, Holding, InMemory, Memory
  <2> QED
    BY <1>0, <1>2, <2>1, <2>2, <2>3, InvParts, InvAfter, KeepsAll DEF Safe
<1>3. CASE /\ queue # <<>> /\ ~locked /\ Become(Popped)
           /\ conflicted' \in {conflicted, Append(conflicted, x)}
           /\ \/ x.id \in IdsOf(pool) \/ conflicted' = Append(conflicted, x)
              \/ ~VerifyUnconfirmed(ledger, y, FALSE)
  <2>1. x.id \in Ids
    BY <1>1, <1>3, InvParts, MemoryIs, TailCopies DEF PoolOK
  <2>2. /\ Copies(conflicted') /\ IdsOf(conflicted) \subseteq IdsOf(conflicted')
        /\ conflicted' = Append(conflicted, x) => x.id \in IdsOf(conflicted')
    <3>1. Copies(conflicted)
      BY InvParts
    <3>2. /\ Copies(Append(conflicted, x))
          /\ IdsOf(Append(conflicted, x)) = IdsOf(conflicted) \cup {x.id}
      BY <2>1, <3>1, AppendCopies
    <3> QED
      BY <1>3, <3>1, <3>2
  <2>3. Goes(Memory, Popped) /\ Loses(Memory, Popped, {x.id}) /\ Popped.pool = pool
    BY <1>1, <1>3, PoppedGoes
  <2>4. /\ Safe(Memory', conflicted', locked', chain', main')
        /\ InMemory(Memory') = InMemory(Popped) /\ Carried(main') = Carried(main)
    BY <1>0, <1>3, <2>2, <2>3, MemoryChanges
  <2>5. queue' = Tail(queue)
    BY <1>3 DEF Become, Popped, Memory
  <2>6. Kept
    <3>1. x.id \in IdsOf(pool) => x.id \in InMemory(Popped)
      BY <2>3 DEF InMemory
    <3>2. ~VerifyUnconfirmed(ledger, y, FALSE) => Refused(x.id)
      BY <1>1, <1>3, <2>5 DEF Refused
    <3> QED
      BY <1>3, <2>2, <2>3, <2>4, <3>1, <3>2 DEF Kept, Holding, Loses
  <2> QED
    BY <1>0, <2>4, <2>6, InvAfter
<1>4. CASE /\ queue # <<>> /\ ~locked /\ VerifyUnconfirmed(ledger, y, FALSE)
           /\ Become(PoolPush(Popped, y)) /\ UNCHANGED conflicted
  <2>1. x.id \in Ids
    BY <1>1, <1>4, InvParts, MemoryIs, TailCopies DEF PoolOK
  <2>2. y.id = x.id
    BY <1>1 DEF AtProcessing, Copy
  <2>3. y.id \notin ledger.stored
    BY <1>4 DEF VerifyUnconfirmed
  <2>4. /\ PoolOK(Popped) /\ Goes(Memory, Popped) /\ Popped.ledger = ledger
        /\ Loses(Memory, Popped, {x.id})
    BY <1>1, <1>4, PoppedGoes
  <2>5. Goes(Popped, PoolPush(Popped, y)) /\ Takes(Popped, y, PoolPush(Popped, y))
    BY <2>1, <2>2, <2>3, <2>4, PushGoes
  <2>6. Goes(Memory, PoolPush(Popped, y))
    BY <2>4, <2>5, GoesOn
  <2>7. /\ Safe(Memory', conflicted', locked', chain', main')
        /\ InMemory(Memory') = InMemory(PoolPush(Popped, y)) /\ Carried(main') = Carried(main)
    BY <1>0, <1>4, <2>6, InvParts, MemoryChanges
  <2>8. Keeps
    BY <1>4, <2>2, <2>4, <2>5, <2>7 DEF Keeps, Holding, Loses, Takes
  <2> QED
    BY <1>0, <2>7, <2>8, InvAfter, KeepsAll
<1> QED
  BY <1>1, <1>2, <1>3, <1>4 DEF Process, Popped

LEMMA ContentsAre ==
  ASSUME PoolInv, NEW ids \in Contents
  PROVE  ids \in SUBSET Ids
BY InvParts DEF Contents, kSubset, CountOK

\* Nothing that the memory or the chain holds changes.
LEMMA OthersStep ==
  ASSUME PoolInv, UNCHANGED <<node, chain>>, FlightIs(main', locked, chain, Memory), CountOK',
         Carried(main') = Carried(main)
  PROVE  PoolInv' /\ Keeps
<1>1. Memory' = Memory /\ conflicted' = conflicted /\ locked' = locked /\ chain' = chain
  BY DEF node, Memory
<1>2. Keeps
  BY <1>1 DEF Keeps, Holding
<1> QED
  BY <1>1, <1>2, InvParts, MemoryIs, InvAfter DEF Safe

\* The steps that leave the memory and the chain alone.
LEMMA QuietStep ==
  ASSUME PoolInv, Disconnect \/ Connect \/ SyncStart \/ SyncConsensus \/ UNCHANGED vars
  PROVE  PoolInv' /\ Keeps
<1>1. /\ UNCHANGED <<node, chain>>
      /\ main' = main \/ main'.task \in {"idle", "syncWait", "sync"}
  BY DEF Disconnect, Connect, SyncStart, SyncConsensus, vars, Idle
<1>2. CountOK'
  <2>1. \/ count' = count
        \/ count' = [count EXCEPT !.drops = @ - 1]
        \/ count' = [count EXCEPT !.syncs = @ - 1]
    BY DEF Disconnect, Connect, SyncStart, SyncConsensus, vars
  <2> QED
    BY <2>1, InvParts DEF CountOK
<1>3. FlightIs(main', locked, chain, Memory)
  BY <1>1, InvParts, Landed
<1>4. Carried(main') = Carried(main)
  BY DEF Disconnect, Connect, SyncStart, SyncConsensus, vars, Idle, Carried
<1> QED
  BY <1>1, <1>2, <1>3, <1>4, OthersStep

LEMMA InitSafe == Init => PoolInv
<1> SUFFICES ASSUME Init PROVE PoolInv
  OBVIOUS
<1>1. /\ queue = <<>> /\ conflicted = <<>> /\ pool = <<>> /\ chain = <<>>
      /\ bySender = Empty /\ byRecipient = Empty /\ ledger = Genesis
      /\ main.task = "idle" /\ count \in Budgets
  BY DEF Init, Idle
<1>2. \A a \in Address : bySender[a] = <<>> /\ byRecipient[a] = <<>>
  BY <1>1 DEF Empty
<1>3. HasStored(ledger) /\ ledger.stored = {}
  BY <1>1, PoolAssumption DEF HasStored
<1>4. PoolOK(Memory)
  BY <1>1, <1>2, <1>3, NoCopies, MemoryIs DEF PoolOK, Indexed
<1>5. ChainIs(chain, ledger.stored)
  <2>1. <<>> \in Seq({}) /\ DOMAIN <<>> = {}
    BY EmptySeq
  <2> QED
    BY <1>1, <1>3, <2>1, NoCopies DEF ChainIs
<1>6. FlightIs(main, locked, chain, Memory)
  BY <1>1, Landed
<1>7. CountOK
  BY <1>1, PoolAssumption DEF CountOK
<1> QED
  BY <1>1, <1>4, <1>5, <1>6, <1>7, MemoryIs, NoCopies DEF PoolInv, Safe

-----------------------------------------------------------------------------
(* The folds: sorting changes the order only.                              *)

Sorting == INSTANCE SequenceLemmas WITH Op <- Insert, Holds <- InOrder

LEMMA SortedCopies ==
  ASSUME NEW s, Copies(s)
  PROVE  /\ Copies(Sorted(s)) /\ ToSet(Sorted(s)) = ToSet(s) /\ IdsOf(Sorted(s)) = IdsOf(s)
         /\ NoneTwice(s) => NoneTwice(Sorted(s))
<1>1. Sorting!FoldLeft(Insert, <<>>, s) = FoldLeft(Insert, <<>>, s)
  BY DEF FoldLeft, MapThenFoldSet, Max, Sorting!FoldLeft, Sorting!MapThenFoldSet, Sorting!Max
<1>2. PICK n \in Nat :
        /\ n = Len(s) /\ s \in Seq(ToSet(s))
        /\ ToSet(s) = {s[i] : i \in 1..n}
        /\ \A i \in 1..n : s[i].id \in Ids
        /\ NoneTwice(s) => \A i, j \in 1..n : s[i].id = s[j].id => i = j
  BY CopiesAre, NoneTwiceIs DEF Copies
<1>3. InOrder(0, s, <<>>, 0)
  BY NoCopies DEF InOrder
<1>4. ASSUME NEW k \in 1..n, NEW v, InOrder(0, s, v, k - 1)
      PROVE  InOrder(0, s, Insert(v, s[k]), k)
  <2>0. k \in Nat /\ 1 <= k /\ k <= n /\ s[k].id \in Ids
    BY <1>2
  <2>1. Copies(v) /\ ToSet(v) = {s[i] : i \in 1..k - 1} /\ (NoneTwice(s) => NoneTwice(v))
    BY <1>4 DEF InOrder
  <2>2. /\ Copies(Insert(v, s[k])) /\ ToSet(Insert(v, s[k])) = ToSet(v) \cup {s[k]}
        /\ NoneTwice(v) /\ s[k].id \notin IdsOf(v) => NoneTwice(Insert(v, s[k]))
    BY <2>0, <2>1, InsertCopies
  <2>3. 1..k = (1..k - 1) \cup {k} /\ \A i \in 1..k - 1 : i \in 1..n /\ i # k
    BY <2>0
  <2>4. ToSet(Insert(v, s[k])) = {s[i] : i \in 1..k}
    BY <2>1, <2>2, <2>3
  <2>5. IdsOf(v) = {y.id : y \in ToSet(v)}
    BY <2>1, IdsAre
  <2>6. ASSUME NoneTwice(s) PROVE s[k].id \notin IdsOf(v)
    BY <1>2, <2>1, <2>3, <2>5, <2>6
  <2> QED
    BY <2>1, <2>2, <2>4, <2>6 DEF InOrder
<1>5. InOrder(0, s, FoldLeft(Insert, <<>>, s), n)
  <2>1. s \in Seq(ToSet(s)) /\ n = Len(s)
    BY <1>2
  <2>2. \A k \in 1..Len(s) : \A v : InOrder(0, s, v, k - 1) => InOrder(0, s, Insert(v, s[k]), k)
    BY <1>4, <2>1
  <2>3. InOrder(0, s, Sorting!FoldLeft(Insert, <<>>, s), Len(s))
    BY <1>3, <2>1, <2>2, Sorting!FoldHolds
  <2> QED
    BY <1>1, <2>1, <2>3
<1>6. InOrder(0, s, Sorted(s), n)
  BY <1>5 DEF Sorted
<1>7. Copies(Sorted(s)) /\ ToSet(Sorted(s)) = ToSet(s) /\ (NoneTwice(s) => NoneTwice(Sorted(s)))
  BY <1>2, <1>6 DEF InOrder
<1> QED
  BY <1>7, IdsAre

-----------------------------------------------------------------------------
(* The queue is a fold of a step of sorting.                               *)

LEMMA QueueGoes ==
  ASSUME NEW m, PoolOK(m), NEW x, x.id \in Ids
  PROVE  Goes(m, QueuePush(m, x)) /\ QueuePush(m, x).pool = m.pool /\ Takes(m, x, QueuePush(m, x))
<1>1. PICK q : q = Sorted(Append(m.queue, x))
  OBVIOUS
<1>2. Copies(Append(m.queue, x)) /\ IdsOf(Append(m.queue, x)) = IdsOf(m.queue) \cup {x.id}
  BY AppendCopies DEF PoolOK
<1>3. Copies(q) /\ IdsOf(q) = IdsOf(m.queue) \cup {x.id}
  BY <1>1, <1>2, SortedCopies
<1>4. PICK one : one = <<x>>
  OBVIOUS
<1>5. Copies(one) /\ IdsOf(one) = {x.id}
  <2>1. one \in Seq({x}) /\ Len(one) = 1 /\ one[1] = x
    BY <1>4
  <2>2. Copies(one)
    BY <2>1, AreCopies
  <2>3. IdsOf(one) = {one[i].id : i \in 1..1}
    BY <2>1, <2>2, CopiesAre
  <2> QED
    BY <2>1, <2>2, <2>3
<1>6. PICK v, w : v = [m EXCEPT !.queue = one, !.ticks = @ + 1] /\ w = [m EXCEPT !.queue = q]
  OBVIOUS
<1>7. /\ DOMAIN v = DOMAIN m /\ v.queue = one /\ v.pool = m.pool /\ v.ledger = m.ledger
      /\ v.bySender = m.bySender /\ v.byRecipient = m.byRecipient
  BY <1>6 DEF PoolOK, Fields
<1>8. /\ DOMAIN w = DOMAIN m /\ w.queue = q /\ w.pool = m.pool /\ w.ledger = m.ledger
      /\ w.bySender = m.bySender /\ w.byRecipient = m.byRecipient
  BY <1>6 DEF PoolOK, Fields
<1>9. Goes(m, m) /\ Goes(m, v) /\ Goes(m, w)
  BY <1>3, <1>5, <1>7, <1>8 DEF Goes, PoolOK
<1>10. QueuePush(m, x) = IF x.id \in IdsOf(m.queue) THEN m ELSE IF m.queue = <<>> THEN v ELSE w
  BY <1>1, <1>4, <1>6 DEF QueuePush
<1>11. /\ x.id \in IdsOf(m.queue) => Takes(m, x, m)
       /\ m.queue = <<>> => Takes(m, x, v)
       /\ Takes(m, x, w)
  BY <1>3, <1>5, <1>7, <1>8, NoCopies DEF Takes, InMemory
<1> QED
  BY <1>7, <1>8, <1>9, <1>10, <1>11

LEMMA PushBackGoes ==
  ASSUME NEW m, PoolOK(m), NEW x, x.id \in Ids, NEW skip
  PROVE  Goes(m, PushBack(m, x, skip)) /\ Takes(m, x, PushBack(m, x, skip))
<1>1. CASE VerifyUnconfirmed(m.ledger, x, skip)
  <2>1. x.id \notin m.ledger.stored
    BY <1>1 DEF VerifyUnconfirmed
  <2> QED
    BY <1>1, <2>1, PushGoes DEF PushBack
<1>2. CASE ~VerifyUnconfirmed(m.ledger, x, skip)
  BY <1>2, QueueGoes DEF PushBack
<1> QED
  BY <1>1, <1>2

-----------------------------------------------------------------------------
(* The folds over the memory.                                              *)

Emptied(p, s, v, k) ==
  PoolOK(p) /\ Shrinks(p, v) /\ Gone(s, v, k) /\ Loses(p, v, First(s, k))

Emptying == INSTANCE SequenceLemmas WITH Op <- PoolRemove, Holds <- Emptied

LEMMA RemoveAll ==
  ASSUME NEW m, PoolOK(m), NEW s, Copies(s)
  PROVE  /\ Shrinks(m, FoldLeft(PoolRemove, m, s))
         /\ IdsOf(s) \cap IdsOf(FoldLeft(PoolRemove, m, s).pool) = {}
         /\ Loses(m, FoldLeft(PoolRemove, m, s), IdsOf(s))
<1>1. Emptying!FoldLeft(PoolRemove, m, s) = FoldLeft(PoolRemove, m, s)
  BY DEF FoldLeft, MapThenFoldSet, Max, Emptying!FoldLeft, Emptying!MapThenFoldSet, Emptying!Max
<1>2. s \in Seq(ToSet(s)) /\ Len(s) \in Nat /\ IdsOf(s) = {s[i].id : i \in 1..Len(s)}
  BY CopiesAre DEF Copies
<1>3. Emptied(m, s, m, 0)
  BY DEF Emptied, Shrinks, Goes, Gone, Loses
<1>4. ASSUME NEW k \in 1..Len(s), NEW v, Emptied(m, s, v, k - 1)
      PROVE  Emptied(m, s, PoolRemove(v, s[k]), k)
  <2>1. k \in Nat /\ k >= 1
    BY <1>2
  <2>2. PoolOK(v) /\ Gone(s, v, k - 1) /\ Shrinks(m, v) /\ Loses(m, v, First(s, k - 1))
    BY <1>4 DEF Emptied, Shrinks, Goes
  <2>3. PICK w : w = PoolRemove(v, s[k])
    OBVIOUS
  <2>4. Shrinks(v, w) /\ s[k].id \notin IdsOf(w.pool) /\ Loses(v, w, {s[k].id})
    BY <2>2, <2>3, RemoveGoes
  <2>5. Gone(s, w, k) /\ Shrinks(m, w)
    BY <2>1, <2>2, <2>4, GoneOn, ShrinksOn
  <2>6. Loses(m, w, First(s, k))
    BY <2>1, <2>2, <2>4, FirstGrows DEF Loses
  <2> QED
    BY <2>3, <2>5, <2>6 DEF Emptied
<1>5. Emptied(m, s, Emptying!FoldLeft(PoolRemove, m, s), Len(s))
  BY <1>2, <1>3, <1>4, Emptying!FoldHolds
<1>6. Emptied(m, s, FoldLeft(PoolRemove, m, s), Len(s))
  BY <1>1, <1>5
<1> QED
  BY <1>2, <1>6, FirstEnds DEF Emptied, Gone

\* What leaves the memory of a batch is among what was taken out.
Carries(c, w) ==
  /\ Copies(w.removed) /\ IdsOf(c.removed) \subseteq IdsOf(w.removed)
  /\ Loses(c.m, w.m, IdsOf(w.removed))

LEMMA CarriesOn ==
  ASSUME NEW c, NEW v, NEW w, Carries(c, v), Carries(v, w)
  PROVE  Carries(c, w)
BY DEF Carries, Loses

\* The memory of a batch shrinks, and what it took out are copies.
TakenOut(p, s, v, k) ==
  /\ PoolOK(p.m) /\ Copies(s) /\ Shrinks(p.m, v.m) /\ Carries(p, v)
  /\ Gone(s, v.m, k)

Taking == INSTANCE SequenceLemmas WITH Op <- RemoveOne, Holds <- TakenOut

LEMMA RemoveFiled ==
  ASSUME NEW c, PoolOK(c.m), Copies(c.removed), NEW s, Copies(s)
  PROVE  TakenOut(c, s, FoldLeft(RemoveOne, c, s), Len(s))
<1>1. Taking!FoldLeft(RemoveOne, c, s) = FoldLeft(RemoveOne, c, s)
  BY DEF FoldLeft, MapThenFoldSet, Max, Taking!FoldLeft, Taking!MapThenFoldSet, Taking!Max
<1>2. s \in Seq(ToSet(s)) /\ Len(s) \in Nat /\ \A i \in 1..Len(s) : s[i].id \in Ids
  BY CopiesAre DEF Copies
<1>3. TakenOut(c, s, c, 0)
  BY DEF TakenOut, Shrinks, Goes, Gone, Carries, Loses
<1>4. ASSUME NEW k \in 1..Len(s), NEW v, TakenOut(c, s, v, k - 1)
      PROVE  TakenOut(c, s, RemoveOne(v, s[k]), k)
  <2>1. k \in Nat /\ k >= 1 /\ s[k].id \in Ids
    BY <1>2
  <2>2. PoolOK(v.m) /\ Gone(s, v.m, k - 1) /\ Shrinks(c.m, v.m) /\ Carries(c, v)
    BY <1>4 DEF TakenOut, Shrinks, Goes
  <2>3. PICK w : w = PoolRemove(v.m, s[k])
    OBVIOUS
  <2>4. Shrinks(v.m, w) /\ s[k].id \notin IdsOf(w.pool) /\ Loses(v.m, w, {s[k].id})
    BY <2>2, <2>3, RemoveGoes
  <2>5. Gone(s, w, k) /\ Shrinks(c.m, w)
    BY <2>1, <2>2, <2>4, GoneOn, ShrinksOn
  <2>6. PICK t : /\ t = Append(v.removed, s[k]) /\ Copies(t)
                 /\ IdsOf(t) = IdsOf(v.removed) \cup {s[k].id}
    BY <2>1, <2>2, AppendCopies DEF Carries
  <2>7. RemoveOne(v, s[k]).m = w /\ RemoveOne(v, s[k]).removed = t
    BY <2>3, <2>6 DEF RemoveOne
  <2>8. Carries(v, RemoveOne(v, s[k]))
    BY <2>4, <2>6, <2>7 DEF Carries, Loses
  <2> QED
    BY <1>4, <2>2, <2>5, <2>7, <2>8, CarriesOn DEF TakenOut
<1>5. TakenOut(c, s, Taking!FoldLeft(RemoveOne, c, s), Len(s))
  BY <1>2, <1>3, <1>4, Taking!FoldHolds
<1> QED
  BY <1>1, <1>5

LEMMA AroundTakes ==
  ASSUME NEW c, PoolOK(c.m), Copies(c.removed), NEW x, x.id \in Ids,
         NEW w, w = RemoveAround(c, x)
  PROVE  Shrinks(c.m, w.m) /\ Carries(c, w) /\ x.id \notin IdsOf(w.m.pool)
<1>1. PICK a : a = Trs[x.id].sender /\ a \in Address
  BY TrsAssumption
<1>2. PICK s : s = Reverse(c.m.bySender[a])
  OBVIOUS
<1>3. Copies(s) /\ ToSet(s) = ToSet(c.m.bySender[a])
  BY <1>1, <1>2, ReverseCopies DEF PoolOK, Indexed
<1>4. PICK v : v = RemoveBySender(c, a)
  OBVIOUS
<1>5. TakenOut(c, s, v, Len(s))
  BY <1>2, <1>3, <1>4, RemoveFiled DEF RemoveBySender
<1>6. x.id \notin IdsOf(v.m.pool)
  <2>1. SUFFICES ASSUME x.id \in IdsOf(v.m.pool) PROVE FALSE
    OBVIOUS
  <2>2. Copies(v.m.pool)
    BY <1>5 DEF TakenOut, Shrinks, Goes, PoolOK
  <2>3. PICK y \in ToSet(v.m.pool) : y.id = x.id
    BY <2>1, <2>2, IdsAre
  <2>4. y \in ToSet(c.m.pool)
    BY <1>5, <2>3 DEF TakenOut, Shrinks
  <2>5. y \in ToSet(s)
    BY <1>1, <1>3, <2>3, <2>4 DEF PoolOK
  <2>6. PICK i \in 1..Len(s) : y = s[i]
    BY <1>3, <2>5, CopiesAre
  <2> QED
    BY <1>5, <2>1, <2>3, <2>6 DEF TakenOut, Gone
<1>7. PoolOK(v.m) /\ Shrinks(c.m, v.m) /\ Copies(v.removed) /\ Carries(c, v)
  BY <1>5 DEF TakenOut, Shrinks, Goes, Carries
<1>8. PICK r : r = Reverse(v.m.byRecipient[a])
  OBVIOUS
<1>9. Copies(r)
  BY <1>1, <1>7, <1>8, ReverseCopies DEF PoolOK, Indexed
<1>10. w = FoldLeft(RemoveOne, v, r)
  BY <1>1, <1>4, <1>8 DEF RemoveAround, RemoveByRecipient
<1>11. TakenOut(v, r, w, Len(r))
  BY <1>7, <1>9, <1>10, RemoveFiled
<1>12. Shrinks(v.m, w.m) /\ Carries(v, w)
  BY <1>11 DEF TakenOut
<1>13. x.id \notin IdsOf(w.m.pool) /\ Shrinks(c.m, w.m) /\ Carries(c, w)
  BY <1>6, <1>7, <1>12, ShrinkingIds, ShrinksOn, CarriesOn
<1> QED
  BY <1>13

Batching == INSTANCE SequenceLemmas WITH Op <- RemoveAround, Holds <- TakenOut

LEMMA BatchTakes ==
  ASSUME NEW m, PoolOK(m), NEW txs, Copies(txs), NEW w, w = BatchRemove(m, txs)
  PROVE  /\ Shrinks(m, w.m) /\ Copies(w.removed) /\ IdsOf(txs) \cap IdsOf(w.m.pool) = {}
         /\ Loses(m, w.m, IdsOf(w.removed))
<1>0. PICK c, s : c = [m |-> m, removed |-> <<>>] /\ s = Reverse(txs)
  OBVIOUS
<1>1. Batching!FoldLeft(RemoveAround, c, s) = FoldLeft(RemoveAround, c, s)
  BY DEF FoldLeft, MapThenFoldSet, Max, Batching!FoldLeft, Batching!MapThenFoldSet, Batching!Max
<1>2. Copies(s) /\ IdsOf(s) = IdsOf(txs)
  BY <1>0, ReverseCopies
<1>3. /\ s \in Seq(ToSet(s)) /\ Len(s) \in Nat /\ \A i \in 1..Len(s) : s[i].id \in Ids
      /\ IdsOf(s) = {s[i].id : i \in 1..Len(s)}
  BY <1>2, CopiesAre DEF Copies
<1>4. TakenOut(c, s, c, 0)
  BY <1>0, <1>2, NoCopies DEF TakenOut, Shrinks, Goes, Gone, Carries, Loses
<1>5. ASSUME NEW k \in 1..Len(s), NEW v, TakenOut(c, s, v, k - 1)
      PROVE  TakenOut(c, s, RemoveAround(v, s[k]), k)
  <2>1. k \in Nat /\ k >= 1 /\ s[k].id \in Ids
    BY <1>3
  <2>2. /\ PoolOK(v.m) /\ Gone(s, v.m, k - 1) /\ Shrinks(c.m, v.m) /\ Carries(c, v)
        /\ Copies(v.removed)
    BY <1>5 DEF TakenOut, Shrinks, Goes, Carries
  <2>3. PICK u : u = RemoveAround(v, s[k])
    OBVIOUS
  <2>4. Shrinks(v.m, u.m) /\ Carries(v, u) /\ s[k].id \notin IdsOf(u.m.pool)
    BY <2>1, <2>2, <2>3, AroundTakes
  <2>5. Gone(s, u.m, k) /\ Shrinks(c.m, u.m) /\ Carries(c, u)
    BY <2>1, <2>2, <2>4, GoneOn, ShrinksOn, CarriesOn
  <2> QED
    BY <1>2, <1>5, <2>3, <2>5 DEF TakenOut
<1>6. TakenOut(c, s, Batching!FoldLeft(RemoveAround, c, s), Len(s))
  BY <1>3, <1>4, <1>5, Batching!FoldHolds
<1>7. w = FoldLeft(RemoveAround, c, s)
  BY <1>0 DEF BatchRemove
<1>8. TakenOut(c, s, w, Len(s))
  BY <1>1, <1>6, <1>7
<1>9. c.m = m
  BY <1>0
<1> QED
  BY <1>2, <1>3, <1>8, <1>9 DEF TakenOut, Gone, Carries

-----------------------------------------------------------------------------
(* What goes back to the pool or to the queue.                             *)

\* All that goes back is in the memory, and so is what was there before.
Gains(p, ids, v) == Goes(p, v) /\ InMemory(p) \cup ids \subseteq InMemory(v)

GoesSoFar(p, s, v, k) == PoolOK(p) /\ Gains(p, First(s, k), v)

LEMMA GainsOne ==
  ASSUME NEW p, NEW s, NEW k \in Nat, k >= 1, NEW v, GoesSoFar(p, s, v, k - 1),
         NEW w, Goes(v, w), Takes(v, s[k], w)
  PROVE  GoesSoFar(p, s, w, k)
BY FirstGrows DEF GoesSoFar, Gains, Goes, Takes

LEMMA GainsNone ==
  ASSUME NEW p, PoolOK(p), NEW s, Copies(s)
  PROVE  GoesSoFar(p, s, p, 0)
BY FirstEnds DEF GoesSoFar, Gains, Goes

LEMMA GainsAll ==
  ASSUME NEW p, NEW s, Copies(s), NEW v, GoesSoFar(p, s, v, Len(s))
  PROVE  Gains(p, IdsOf(s), v)
BY FirstEnds DEF GoesSoFar

Unsigned == INSTANCE SequenceLemmas WITH Op <- PushUnsigned, Holds <- GoesSoFar

Signing == INSTANCE SequenceLemmas WITH Op <- PushSigned, Holds <- GoesSoFar

Queueing == INSTANCE SequenceLemmas WITH Op <- QueuePush, Holds <- GoesSoFar

Undoing == INSTANCE SequenceLemmas WITH Op <- UndoOne, Holds <- GoesSoFar

LEMMA PushInPoolGoes ==
  ASSUME NEW m, PoolOK(m), NEW s, Copies(s)
  PROVE  Gains(m, IdsOf(s), PushInPool(m, s))
<1>1. Unsigned!FoldLeft(PushUnsigned, m, s) = FoldLeft(PushUnsigned, m, s)
  BY DEF FoldLeft, MapThenFoldSet, Max, Unsigned!FoldLeft, Unsigned!MapThenFoldSet, Unsigned!Max
<1>2. s \in Seq(ToSet(s)) /\ Len(s) \in Nat /\ \A i \in 1..Len(s) : s[i].id \in Ids
  BY CopiesAre DEF Copies
<1>3. GoesSoFar(m, s, m, 0)
  BY GainsNone
<1>4. ASSUME NEW k \in 1..Len(s), NEW v, GoesSoFar(m, s, v, k - 1)
      PROVE  GoesSoFar(m, s, PushUnsigned(v, s[k]), k)
  <2>1. Goes(v, PushUnsigned(v, s[k])) /\ Takes(v, s[k], PushUnsigned(v, s[k]))
    BY <1>2, <1>4, PushBackGoes DEF PushUnsigned, GoesSoFar, Gains, Goes
  <2>2. k \in Nat /\ k >= 1
    BY <1>2
  <2> QED
    BY <1>4, <2>1, <2>2, GainsOne
<1>5. GoesSoFar(m, s, Unsigned!FoldLeft(PushUnsigned, m, s), Len(s))
  BY <1>2, <1>3, <1>4, Unsigned!FoldHolds
<1> QED
  BY <1>1, <1>5, GainsAll DEF PushInPool

LEMMA PushSignedGoes ==
  ASSUME NEW m, PoolOK(m), NEW s, Copies(s)
  PROVE  Gains(m, IdsOf(s), FoldLeft(PushSigned, m, s))
<1>1. Signing!FoldLeft(PushSigned, m, s) = FoldLeft(PushSigned, m, s)
  BY DEF FoldLeft, MapThenFoldSet, Max, Signing!FoldLeft, Signing!MapThenFoldSet, Signing!Max
<1>2. s \in Seq(ToSet(s)) /\ Len(s) \in Nat /\ \A i \in 1..Len(s) : s[i].id \in Ids
  BY CopiesAre DEF Copies
<1>3. GoesSoFar(m, s, m, 0)
  BY GainsNone
<1>4. ASSUME NEW k \in 1..Len(s), NEW v, GoesSoFar(m, s, v, k - 1)
      PROVE  GoesSoFar(m, s, PushSigned(v, s[k]), k)
  <2>1. Goes(v, PushSigned(v, s[k])) /\ Takes(v, s[k], PushSigned(v, s[k]))
    BY <1>2, <1>4, PushBackGoes DEF PushSigned, GoesSoFar, Gains, Goes
  <2>2. k \in Nat /\ k >= 1
    BY <1>2
  <2> QED
    BY <1>4, <2>1, <2>2, GainsOne
<1>5. GoesSoFar(m, s, Signing!FoldLeft(PushSigned, m, s), Len(s))
  BY <1>2, <1>3, <1>4, Signing!FoldHolds
<1> QED
  BY <1>1, <1>5, GainsAll

LEMMA QueueAllGoes ==
  ASSUME NEW m, PoolOK(m), NEW s, Copies(s)
  PROVE  Gains(m, IdsOf(s), FoldLeft(QueuePush, m, s))
<1>1. Queueing!FoldLeft(QueuePush, m, s) = FoldLeft(QueuePush, m, s)
  BY DEF FoldLeft, MapThenFoldSet, Max, Queueing!FoldLeft, Queueing!MapThenFoldSet, Queueing!Max
<1>2. s \in Seq(ToSet(s)) /\ Len(s) \in Nat /\ \A i \in 1..Len(s) : s[i].id \in Ids
  BY CopiesAre DEF Copies
<1>3. GoesSoFar(m, s, m, 0)
  BY GainsNone
<1>4. ASSUME NEW k \in 1..Len(s), NEW v, GoesSoFar(m, s, v, k - 1)
      PROVE  GoesSoFar(m, s, QueuePush(v, s[k]), k)
  <2>1. Goes(v, QueuePush(v, s[k])) /\ Takes(v, s[k], QueuePush(v, s[k]))
    BY <1>2, <1>4, QueueGoes DEF GoesSoFar, Gains, Goes
  <2>2. k \in Nat /\ k >= 1
    BY <1>2
  <2> QED
    BY <1>4, <2>1, <2>2, GainsOne
<1>5. GoesSoFar(m, s, Queueing!FoldLeft(QueuePush, m, s), Len(s))
  BY <1>2, <1>3, <1>4, Queueing!FoldHolds
<1> QED
  BY <1>1, <1>5, GainsAll

LEMMA UndoOneGoes ==
  ASSUME NEW m, PoolOK(m), NEW x, x.id \in Ids
  PROVE  Goes(m, UndoOne(m, x)) /\ Takes(m, x, UndoOne(m, x))
<1>1. PICK l : l = UndoUnconfirmed(m.ledger, x)
  OBVIOUS
<1>2. HasStored(l) /\ l.stored = m.ledger.stored
  BY <1>1, UnconfirmedStored DEF PoolOK, SameStored
<1>3. PICK w : w = [m EXCEPT !.ledger = l]
  OBVIOUS
<1>4. /\ DOMAIN w = DOMAIN m /\ w.queue = m.queue /\ w.pool = m.pool /\ w.ledger = l
      /\ w.bySender = m.bySender /\ w.byRecipient = m.byRecipient
  BY <1>3 DEF PoolOK, Fields
<1>5. Goes(m, w) /\ PoolOK(w) /\ InMemory(w) = InMemory(m)
  BY <1>2, <1>4 DEF Goes, PoolOK, InMemory
<1>6. UndoOne(m, x) = QueuePush(w, x)
  BY <1>1, <1>3 DEF UndoOne
<1>7. Goes(w, UndoOne(m, x)) /\ Takes(w, x, UndoOne(m, x))
  BY <1>5, <1>6, QueueGoes
<1> QED
  BY <1>5, <1>7, GoesOn DEF Takes

LEMMA UndoAppliedGoes ==
  ASSUME NEW m, PoolOK(m), NEW txs, Copies(txs)
  PROVE  Gains(m, IdsOf(txs), UndoApplied(m, txs))
<1>0. PICK s : s = Reverse(txs)
  OBVIOUS
<1>1. Undoing!FoldLeft(UndoOne, m, s) = FoldLeft(UndoOne, m, s)
  BY DEF FoldLeft, MapThenFoldSet, Max, Undoing!FoldLeft, Undoing!MapThenFoldSet, Undoing!Max
<1>6. Copies(s) /\ IdsOf(s) = IdsOf(txs)
  BY <1>0, ReverseCopies
<1>2. s \in Seq(ToSet(s)) /\ Len(s) \in Nat /\ \A i \in 1..Len(s) : s[i].id \in Ids
  BY <1>6, CopiesAre DEF Copies
<1>3. GoesSoFar(m, s, m, 0)
  BY <1>6, GainsNone
<1>4. ASSUME NEW k \in 1..Len(s), NEW v, GoesSoFar(m, s, v, k - 1)
      PROVE  GoesSoFar(m, s, UndoOne(v, s[k]), k)
  <2>1. Goes(v, UndoOne(v, s[k])) /\ Takes(v, s[k], UndoOne(v, s[k]))
    BY <1>2, <1>4, UndoOneGoes DEF GoesSoFar, Gains, Goes
  <2>2. k \in Nat /\ k >= 1
    BY <1>2
  <2> QED
    BY <1>4, <2>1, <2>2, GainsOne
<1>5. GoesSoFar(m, s, Undoing!FoldLeft(UndoOne, m, s), Len(s))
  BY <1>2, <1>3, <1>4, Undoing!FoldHolds
<1> QED
  BY <1>0, <1>1, <1>5, <1>6, GainsAll DEF UndoApplied

LEMMA ReturnGoes ==
  ASSUME NEW m, PoolOK(m)
  PROVE  Gains(m, {}, ReturnToQueueConflicted(m))
<1>1. PICK all, s : all = Sorted(m.pool) /\ s = Reverse(all)
  OBVIOUS
<1>2. Copies(all)
  BY <1>1, SortedCopies DEF PoolOK
<1>3. Copies(s) /\ IdsOf(s) = IdsOf(all)
  BY <1>1, <1>2, ReverseCopies
<1>4. PICK v : v = FoldLeft(PoolRemove, m, s)
  OBVIOUS
<1>5. Goes(m, v) /\ PoolOK(v) /\ Loses(m, v, IdsOf(all))
  BY <1>3, <1>4, RemoveAll DEF Shrinks, Goes
<1>6. ReturnToQueueConflicted(m) = FoldLeft(PushSigned, v, all)
  BY <1>1, <1>4 DEF ReturnToQueueConflicted
<1>7. Gains(v, IdsOf(all), ReturnToQueueConflicted(m))
  BY <1>2, <1>5, <1>6, PushSignedGoes
<1> QED
  BY <1>5, <1>7, GoesOn DEF Gains, Loses

OthersSoFar(p, s, v, k) ==
  /\ PoolOK(p.m) /\ {"m", "block"} \subseteq DOMAIN v /\ v.block = p.block
  /\ Gains(p.m, First(s, k) \ p.block, v.m)

Others == INSTANCE SequenceLemmas WITH Op <- PushOther, Holds <- OthersSoFar

LEMMA PushOthersGoes ==
  ASSUME NEW m, PoolOK(m), NEW s, Copies(s), NEW block
  PROVE  Gains(m, IdsOf(s) \ IdsOf(block), PushOthers(m, s, block))
<1>0. PICK c : c = [m |-> m, block |-> IdsOf(block)]
  OBVIOUS
<1>1. Others!FoldLeft(PushOther, c, s) = FoldLeft(PushOther, c, s)
  BY DEF FoldLeft, MapThenFoldSet, Max, Others!FoldLeft, Others!MapThenFoldSet, Others!Max
<1>2. s \in Seq(ToSet(s)) /\ Len(s) \in Nat /\ \A i \in 1..Len(s) : s[i].id \in Ids
  BY CopiesAre DEF Copies
<1>3. OthersSoFar(c, s, c, 0)
  BY <1>0, FirstEnds DEF OthersSoFar, Gains, Goes
<1>4. ASSUME NEW k \in 1..Len(s), NEW v, OthersSoFar(c, s, v, k - 1)
      PROVE  OthersSoFar(c, s, PushOther(v, s[k]), k)
  <2>1. PICK u : u = PushUnsigned(v.m, s[k])
    OBVIOUS
  <2>2. Goes(v.m, u) /\ Goes(c.m, v.m) /\ Takes(v.m, s[k], u)
    BY <1>2, <1>4, <2>1, PushBackGoes DEF PushUnsigned, OthersSoFar, Gains, Goes
  <2>3. Goes(c.m, u)
    BY <2>2, GoesOn
  <2>4. PICK w : w = [v EXCEPT !.m = u]
    OBVIOUS
  <2>5. w.m = u /\ DOMAIN w = DOMAIN v /\ w.block = v.block
    BY <1>4, <2>4 DEF OthersSoFar
  <2>6. PushOther(v, s[k]) = IF s[k].id \in v.block THEN v ELSE w
    BY <2>1, <2>4 DEF PushOther
  <2>7. First(s, k) = First(s, k - 1) \cup {s[k].id}
    BY <1>2, FirstGrows
  <2>8. CASE s[k].id \in v.block
    BY <1>4, <2>6, <2>7, <2>8 DEF OthersSoFar, Gains
  <2>9. CASE s[k].id \notin v.block
    <3>1. InMemory(c.m) \cup (First(s, k) \ c.block) \subseteq InMemory(u)
      BY <1>4, <2>2, <2>7 DEF OthersSoFar, Gains, Takes
    <3> QED
      BY <1>4, <2>3, <2>5, <2>6, <2>9, <3>1 DEF OthersSoFar, Gains
  <2> QED
    BY <2>8, <2>9
<1>5. OthersSoFar(c, s, Others!FoldLeft(PushOther, c, s), Len(s))
  BY <1>2, <1>3, <1>4, Others!FoldHolds
<1>6. c.m = m /\ c.block = IdsOf(block) /\ First(s, Len(s)) = IdsOf(s)
  BY <1>0, FirstEnds
<1> QED
  BY <1>0, <1>1, <1>5, <1>6 DEF OthersSoFar, PushOthers

-----------------------------------------------------------------------------
(* The folds over the ledger.                                              *)

KeptSoFar(p, s, v, k) == HasStored(p) /\ SameStored(p, v)

Reverting == INSTANCE SequenceLemmas WITH Op <- UndoUnconfirmed, Holds <- KeptSoFar

LEMMA UndoAllStored ==
  ASSUME NEW l, HasStored(l), NEW s, Copies(s)
  PROVE  SameStored(l, FoldLeft(UndoUnconfirmed, l, s))
<1>1. Reverting!FoldLeft(UndoUnconfirmed, l, s) = FoldLeft(UndoUnconfirmed, l, s)
  BY DEF FoldLeft, MapThenFoldSet, Max, Reverting!FoldLeft, Reverting!MapThenFoldSet,
         Reverting!Max
<1>2. s \in Seq(ToSet(s)) /\ \A i \in 1..Len(s) : s[i].id \in Ids
  BY CopiesAre DEF Copies
<1>3. KeptSoFar(l, s, l, 0)
  BY DEF KeptSoFar, SameStored
<1>4. ASSUME NEW k \in 1..Len(s), NEW v, KeptSoFar(l, s, v, k - 1)
      PROVE  KeptSoFar(l, s, UndoUnconfirmed(v, s[k]), k)
  BY <1>2, <1>4, UnconfirmedStored DEF KeptSoFar, SameStored
<1>5. KeptSoFar(l, s, Reverting!FoldLeft(UndoUnconfirmed, l, s), Len(s))
  BY <1>2, <1>3, <1>4, Reverting!FoldHolds
<1> QED
  BY <1>1, <1>5 DEF KeptSoFar

ConfirmedSoFar(p, s, v, k) ==
  HasStored(v) /\ v.stored = p.stored \cup {s[i].id : i \in 1..k}

Confirming == INSTANCE SequenceLemmas WITH Op <- ApplyConfirmed, Holds <- ConfirmedSoFar

LEMMA ConfirmedAllStored ==
  ASSUME NEW l, HasStored(l), NEW s, Copies(s)
  PROVE  HasStored(Confirmed(l, s)) /\ Confirmed(l, s).stored = l.stored \cup IdsOf(s)
<1>0. PICK b : b = [l EXCEPT !.height = @ + 1]
  OBVIOUS
<1>1. Confirming!FoldLeft(ApplyConfirmed, b, s) = FoldLeft(ApplyConfirmed, b, s)
  BY DEF FoldLeft, MapThenFoldSet, Max, Confirming!FoldLeft, Confirming!MapThenFoldSet,
         Confirming!Max
<1>2. s \in Seq(ToSet(s)) /\ Len(s) \in Nat /\ IdsOf(s) = {s[i].id : i \in 1..Len(s)}
  BY CopiesAre DEF Copies
<1>3. HasStored(b) /\ b.stored = l.stored
  BY <1>0 DEF HasStored
<1>4. ConfirmedSoFar(l, s, b, 0)
  BY <1>3 DEF ConfirmedSoFar
<1>5. ASSUME NEW k \in 1..Len(s), NEW v, ConfirmedSoFar(l, s, v, k - 1)
      PROVE  ConfirmedSoFar(l, s, ApplyConfirmed(v, s[k]), k)
  <2>0. k \in Nat /\ k >= 1
    BY <1>2
  <2>1. PICK w : w = ApplyConfirmed(v, s[k])
    OBVIOUS
  <2>2. HasStored(w) /\ w.stored = v.stored \cup {s[k].id}
    BY <1>5, <2>1, ConfirmedStored DEF ConfirmedSoFar
  <2>3. 1..k = (1..k - 1) \cup {k}
    BY <2>0
  <2>4. w.stored = l.stored \cup {s[i].id : i \in 1..k}
    BY <1>5, <2>2, <2>3 DEF ConfirmedSoFar
  <2> QED
    BY <2>1, <2>2, <2>4 DEF ConfirmedSoFar
<1>6. ConfirmedSoFar(l, s, Confirming!FoldLeft(ApplyConfirmed, b, s), Len(s))
  BY <1>2, <1>4, <1>5, Confirming!FoldHolds
<1>7. Confirmed(l, s) = FoldLeft(ApplyConfirmed, b, s)
  BY <1>0 DEF Confirmed
<1> QED
  BY <1>1, <1>2, <1>6, <1>7 DEF ConfirmedSoFar

DeletedSoFar(p, s, v, k) ==
  Copies(s) /\ HasStored(v) /\ v.stored = p.stored \ {s[i].id : i \in 1..k}

Deleting == INSTANCE SequenceLemmas WITH Op <- DeleteOne, Holds <- DeletedSoFar

LEMMA DeleteStored ==
  ASSUME NEW l, HasStored(l), Copies(Last(chain))
  PROVE  /\ HasStored(DeleteLast(l))
         /\ DeleteLast(l).stored = l.stored \ IdsOf(Last(chain))
<1>0. PICK b, s : b = [l EXCEPT !.height = @ - 1] /\ s = Reverse(Last(chain))
  OBVIOUS
<1>1. Deleting!FoldLeft(DeleteOne, b, s) = FoldLeft(DeleteOne, b, s)
  BY DEF FoldLeft, MapThenFoldSet, Max, Deleting!FoldLeft, Deleting!MapThenFoldSet,
         Deleting!Max
<1>2. Copies(s) /\ IdsOf(s) = IdsOf(Last(chain))
  BY <1>0, ReverseCopies
<1>3. /\ s \in Seq(ToSet(s)) /\ Len(s) \in Nat /\ IdsOf(s) = {s[i].id : i \in 1..Len(s)}
      /\ \A i \in 1..Len(s) : s[i].id \in Ids
  BY <1>2, CopiesAre DEF Copies
<1>4. HasStored(b) /\ b.stored = l.stored
  BY <1>0 DEF HasStored
<1>5. DeletedSoFar(l, s, b, 0)
  BY <1>2, <1>4 DEF DeletedSoFar
<1>6. ASSUME NEW k \in 1..Len(s), NEW v, DeletedSoFar(l, s, v, k - 1)
      PROVE  DeletedSoFar(l, s, DeleteOne(v, s[k]), k)
  <2>0. k \in Nat /\ k >= 1 /\ s[k].id \in Ids
    BY <1>3
  <2>1. PICK u, w : u = UndoConfirmed(v, s[k]) /\ w = UndoUnconfirmed(u, s[k])
    OBVIOUS
  <2>2. HasStored(u) /\ u.stored = v.stored \ {s[k].id}
    BY <1>6, <2>1, ConfirmedStored DEF DeletedSoFar
  <2>3. HasStored(w) /\ w.stored = u.stored
    BY <2>0, <2>1, <2>2, UnconfirmedStored DEF SameStored
  <2>4. 1..k = (1..k - 1) \cup {k}
    BY <2>0
  <2>5. w.stored = l.stored \ {s[i].id : i \in 1..k}
    BY <1>6, <2>2, <2>3, <2>4 DEF DeletedSoFar
  <2> QED
    BY <1>2, <2>1, <2>3, <2>5 DEF DeletedSoFar, DeleteOne
<1>7. DeletedSoFar(l, s, Deleting!FoldLeft(DeleteOne, b, s), Len(s))
  BY <1>3, <1>5, <1>6, Deleting!FoldHolds
<1>8. DeleteLast(l) = FoldLeft(DeleteOne, b, s)
  BY <1>0 DEF DeleteLast
<1> QED
  BY <1>1, <1>2, <1>3, <1>7, <1>8 DEF DeletedSoFar

-----------------------------------------------------------------------------
(* The folds that check the transactions of a block.                       *)

Verifying == INSTANCE SequenceLemmas WITH Op <- CheckVerified, Holds <- Unconfirmed

Applying == INSTANCE SequenceLemmas WITH Op <- CheckUnverified, Holds <- Complete

LEMMA UndoneChecked ==
  ASSUME NEW p, NEW s, NEW v, Checked(p, s, v, Len(s))
  PROVE  /\ Checked(p, s, UndoneUnlessOk(v), Len(s)) /\ UndoneUnlessOk(v).ok = v.ok
         /\ UndoneUnlessOk(v).done = v.done /\ UndoneUnlessOk(v).threw = v.threw
<1>1. PICK l : l = FoldLeft(UndoUnconfirmed, v.l, Reverse(v.done))
  OBVIOUS
<1>2. PICK w : w = [v EXCEPT !.l = l]
  OBVIOUS
<1>3. DOMAIN w = DOMAIN v /\ w.l = l /\ w.done = v.done /\ w.ok = v.ok /\ w.threw = v.threw
  BY <1>2 DEF Checked
<1>4. Copies(Reverse(v.done))
  BY ReverseCopies DEF Checked
<1>5. HasStored(v.l) => SameStored(v.l, l)
  BY <1>1, <1>4, UndoAllStored
<1>6. Checked(p, s, w, Len(s))
  BY <1>3, <1>5 DEF Checked, SameStored
<1>7. UndoneUnlessOk(v) = IF v.ok THEN v ELSE w
  BY <1>1, <1>2 DEF UndoneUnlessOk
<1> QED
  BY <1>3, <1>6, <1>7

LEMMA CheckVerifiedAll ==
  ASSUME NEW l, NEW s, Copies(s)
  PROVE  Unconfirmed(l, s, FoldLeft(CheckVerified, Begin(l), s), Len(s))
<1>1. Verifying!FoldLeft(CheckVerified, Begin(l), s) = FoldLeft(CheckVerified, Begin(l), s)
  BY DEF FoldLeft, MapThenFoldSet, Max, Verifying!FoldLeft, Verifying!MapThenFoldSet,
         Verifying!Max
<1>2. s \in Seq(ToSet(s)) /\ Len(s) \in Nat
  BY CopiesAre DEF Copies
<1>3. Unconfirmed(l, s, Begin(l), 0)
  BY BeginChecked
<1>4. ASSUME NEW k \in 1..Len(s), NEW v, Unconfirmed(l, s, v, k - 1)
      PROVE  Unconfirmed(l, s, CheckVerified(v, s[k]), k)
  <2>0. Checked(l, s, v, k - 1)
    BY <1>4 DEF Unconfirmed
  <2>1. CASE ~v.ok
    <3>1. CheckVerified(v, s[k]) = v
      BY <2>1 DEF CheckVerified
    <3> QED
      BY <2>0, <2>1, <3>1, CheckedOn DEF Unconfirmed
  <2>2. CASE v.ok /\ ~VerifyUnconfirmed(v.l, s[k], FALSE)
    <3>1. PICK w : w = [v EXCEPT !.ok = FALSE]
      OBVIOUS
    <3>2. DOMAIN w = DOMAIN v /\ w.l = v.l /\ w.done = v.done /\ w.ok = FALSE
      BY <2>0, <3>1 DEF Checked
    <3>3. Checked(l, s, v, k)
      BY <2>0, CheckedOn
    <3>4. Checked(l, s, w, k)
      BY <3>2, <3>3 DEF Checked
    <3>5. CheckVerified(v, s[k]) = w
      BY <2>2, <3>1 DEF CheckVerified
    <3> QED
      BY <3>2, <3>4, <3>5 DEF Unconfirmed
  <2>3. CASE v.ok /\ VerifyUnconfirmed(v.l, s[k], FALSE)
    <3>1. PICK w : w = Applied(v, s[k])
      OBVIOUS
    <3>2. Checked(l, s, w, k)
      BY <2>0, <3>1, AppliedChecked
    <3>3. s[k].id \notin v.l.stored
      BY <2>3 DEF VerifyUnconfirmed
    <3>4. HasStored(l) => \A i \in 1..k : s[i].id \notin l.stored
      <4>1. \A i \in 1..k : i = k \/ i \in 1..k - 1
        BY <1>2
      <4> QED
        BY <1>4, <2>0, <2>3, <3>3, <4>1 DEF Unconfirmed, Checked, SameStored
    <3>5. CheckVerified(v, s[k]) = w
      BY <2>3, <3>1 DEF CheckVerified
    <3> QED
      BY <3>2, <3>4, <3>5 DEF Unconfirmed
  <2> QED
    BY <2>1, <2>2, <2>3
<1>5. Unconfirmed(l, s, Verifying!FoldLeft(CheckVerified, Begin(l), s), Len(s))
  BY <1>2, <1>3, <1>4, Verifying!FoldHolds
<1> QED
  BY <1>1, <1>5

LEMMA CheckUnverifiedAll ==
  ASSUME NEW l, NEW s, Copies(s)
  PROVE  Complete(l, s, FoldLeft(CheckUnverified, Begin(l), s), Len(s))
<1>1. Applying!FoldLeft(CheckUnverified, Begin(l), s) = FoldLeft(CheckUnverified, Begin(l), s)
  BY DEF FoldLeft, MapThenFoldSet, Max, Applying!FoldLeft, Applying!MapThenFoldSet,
         Applying!Max
<1>2. s \in Seq(ToSet(s)) /\ Len(s) \in Nat
  BY CopiesAre DEF Copies
<1>3. Complete(l, s, Begin(l), 0)
  BY BeginChecked
<1>4. ASSUME NEW k \in 1..Len(s), NEW v, Complete(l, s, v, k - 1)
      PROVE  Complete(l, s, CheckUnverified(v, s[k]), k)
  <2>1. PICK x : x = IF Type(s[k]) = "VOTE" THEN Copy(v.l, s[k].id) ELSE s[k]
    OBVIOUS
  <2>2. x.id = s[k].id
    BY <2>1 DEF Copy
  <2>3. Checked(l, s, v, k - 1)
    BY <1>4 DEF Complete
  <2>4. PICK w : w = Applied(v, x)
    OBVIOUS
  <2>5. /\ Checked(l, s, w, k) /\ Checked(l, s, v, k)
        /\ IdsOf(w.done) = IdsOf(v.done) \cup {s[k].id}
    BY <2>2, <2>3, <2>4, AppliedChecked, CheckedOn
  <2>6. First(s, k) = First(s, k - 1) \cup {s[k].id}
    BY <1>2, FirstGrows
  <2>7. CheckUnverified(v, s[k]) = IF v.threw THEN v ELSE w
    BY <2>1, <2>4 DEF CheckUnverified
  <2> QED
    BY <1>4, <2>5, <2>6, <2>7 DEF Complete
<1>5. Complete(l, s, Applying!FoldLeft(CheckUnverified, Begin(l), s), Len(s))
  BY <1>2, <1>3, <1>4, Applying!FoldHolds
<1> QED
  BY <1>1, <1>5

LEMMA CheckOutcome ==
  ASSUME NEW l, NEW s, Copies(s), NEW verify \in BOOLEAN
  PROVE  Outcome(l, s, verify, Check(l, s, verify))
<1>1. PICK v, u : /\ v = FoldLeft(CheckVerified, Begin(l), s)
                  /\ u = FoldLeft(CheckUnverified, Begin(l), s)
  OBVIOUS
<1>2. Unconfirmed(l, s, v, Len(s)) /\ Complete(l, s, u, Len(s))
  BY <1>1, CheckVerifiedAll, CheckUnverifiedAll
<1>3. IdsOf(s) = {s[i].id : i \in 1..Len(s)}
  BY CopiesAre
<1>4. CASE verify
  <2>1. Check(l, s, verify) = UndoneUnlessOk(v)
    BY <1>1, <1>4 DEF Check, Begin
  <2>2. PICK w : w = Check(l, s, verify)
    OBVIOUS
  <2>3. Checked(l, s, w, Len(s)) /\ w.ok = v.ok
    BY <1>2, <2>1, <2>2, UndoneChecked DEF Unconfirmed
  <2>4. HasStored(l) /\ w.ok => IdsOf(s) \cap l.stored = {}
    BY <1>2, <1>3, <2>3 DEF Unconfirmed
  <2> QED
    BY <1>3, <1>4, <2>2, <2>3, <2>4 DEF Outcome, Checked
<1>5. CASE ~verify
  <2>1. Check(l, s, verify) = UndoneUnlessOk(u)
    BY <1>1, <1>5 DEF Check, Begin
  <2>2. /\ Checked(l, s, UndoneUnlessOk(u), Len(s))
        /\ UndoneUnlessOk(u).done = u.done /\ UndoneUnlessOk(u).threw = u.threw
    BY <1>2, UndoneChecked DEF Complete
  <2>3. ~u.threw => IdsOf(s) \subseteq IdsOf(u.done)
    BY <1>2, FirstEnds DEF Complete
  <2> QED
    BY <1>3, <1>5, <2>1, <2>2, <2>3 DEF Outcome, Checked
<1> QED
  BY <1>4, <1>5

\* A block that is forged contains copies, none of them twice.
LEMMA ForgedCopies ==
  ASSUME NEW l, NEW ids \in SUBSET Ids
  PROVE  Copies(Forged(l, ids)) /\ NoneTwice(Forged(l, ids))
<1>1. PICK S : S = {Copy(Genesis, id) : id \in ids}
  OBVIOUS
<1>2. IsFiniteSet(S)
  <2>1. PICK f : f = [id \in ids |-> Copy(Genesis, id)]
    OBVIOUS
  <2>2. DOMAIN f = ids /\ f = [x \in ids |-> f[x]] /\ S = {f[x] : x \in ids}
    BY <1>1, <2>1
  <2>3. IsFiniteSet(ids)
    BY IdsFinite, FS_Subset
  <2> QED
    BY <2>2, <2>3, ValuesFinite
<1>3. \A id \in ids : Copy(Genesis, id).id = id
  BY DEF Copy
<1>4. /\ \A x \in S : x.id \in Ids
      /\ \A x, y \in S : x.id = y.id => x = y
  BY <1>1, <1>3
<1>5. Copies(SetToSeq(S)) /\ NoneTwice(SetToSeq(S))
  BY <1>2, <1>4, SetCopies
<1>6. PICK s : s = Sorted(SetToSeq(S))
  OBVIOUS
<1>7. Copies(s) /\ NoneTwice(s)
  BY <1>5, <1>6, SortedCopies
<1>8. Outcome(l, s, FALSE, Check(l, s, FALSE))
  BY <1>7, CheckOutcome
<1>9. Forged(l, ids) = Check(l, s, FALSE).done
  BY <1>1, <1>6 DEF Forged
<1> QED
  BY <1>7, <1>8, <1>9 DEF Outcome

\* What is popped out of the pool leaves it.
LEMMA PopGoes ==
  ASSUME NEW m, PoolOK(m), NEW limit \in Nat, NEW popped, popped = PopSorted(m, limit)
  PROVE  /\ Shrinks(m, popped.m) /\ Copies(popped.taken) /\ NoneTwice(popped.taken)
         /\ IdsOf(popped.taken) \subseteq IdsOf(m.pool)
         /\ IdsOf(popped.taken) \cap IdsOf(popped.m.pool) = {}
         /\ Loses(m, popped.m, IdsOf(popped.taken))
<1>1. PICK all : all = Sorted(m.pool)
  OBVIOUS
<1>2. Copies(all) /\ NoneTwice(all) /\ ToSet(all) = ToSet(m.pool) /\ Len(all) \in Nat
  BY <1>1, SortedCopies, CopiesAre DEF PoolOK
<1>3. PICK n \in Nat : n = (IF Len(all) < limit THEN Len(all) ELSE limit) /\ n <= Len(all)
  BY <1>2
<1>4. PICK t, b : Cut(all, n, n, t, b)
  BY DEF Cut
<1>5. Parts(all, n, n, t, b)
  BY <1>2, <1>3, <1>4, PartsCopies
<1>6. Copies(t) /\ NoneTwice(t)
  BY <1>2, <1>5 DEF Parts
<1>7. IdsOf(t) \subseteq IdsOf(m.pool)
  <2>1. ToSet(t) \subseteq ToSet(all)
    <3>1. ToSet(t) = {all[i] : i \in 1..n} /\ ToSet(all) = {all[i] : i \in 1..Len(all)}
      BY <1>2, <1>5, CopiesAre DEF Parts
    <3>2. 1..n \subseteq 1..Len(all)
      BY <1>2, <1>3
    <3> QED
      BY <3>1, <3>2
  <2>2. IdsOf(t) = {y.id : y \in ToSet(t)} /\ IdsOf(m.pool) = {y.id : y \in ToSet(m.pool)}
    BY <1>6, IdsAre DEF PoolOK
  <2> QED
    BY <1>2, <2>1, <2>2
<1>8. PICK w : w = FoldLeft(PoolRemove, m, Reverse(t))
  OBVIOUS
<1>9. popped.taken = t /\ popped.m = w
  BY <1>1, <1>3, <1>4, <1>8 DEF PopSorted, Cut
<1>10. Copies(Reverse(t)) /\ IdsOf(Reverse(t)) = IdsOf(t)
  BY <1>6, ReverseCopies
<1>11. Shrinks(m, w) /\ IdsOf(t) \cap IdsOf(w.pool) = {} /\ Loses(m, w, IdsOf(t))
  BY <1>8, <1>10, RemoveAll
<1> QED
  BY <1>6, <1>7, <1>9, <1>11

-----------------------------------------------------------------------------
(* The steps that remove, check, return or undo transactions.              *)

LEMMA UnlockOK ==
  ASSUME NEW m, PoolOK(m), Copies(conflicted), Unlock(m)
  PROVE  /\ PoolOK(Memory') /\ Memory'.ledger.stored = m.ledger.stored
         /\ Copies(conflicted')
         /\ InMemory(m) \cup IdsOf(conflicted) \subseteq InMemory(Memory')
<1>1. PICK q : q = Sorted(m.queue \o conflicted)
  OBVIOUS
<1>2. Copies(q) /\ IdsOf(q) = IdsOf(m.queue) \cup IdsOf(conflicted)
  <2>1. PICK u : u = m.queue \o conflicted
    OBVIOUS
  <2>2. Copies(u) /\ IdsOf(u) = IdsOf(m.queue) \cup IdsOf(conflicted)
    BY <2>1, ConcatCopies DEF PoolOK
  <2> QED
    BY <1>1, <2>1, <2>2, SortedCopies
<1>3. PICK w : w = WithQueue(m, q, 1)
  OBVIOUS
<1>4. PoolOK(w) /\ w.ledger = m.ledger /\ w.queue = q /\ w.pool = m.pool
  BY <1>2, <1>3, WithQueueIs
<1>5. Become(w) /\ conflicted' = <<>>
  BY <1>1, <1>3 DEF Unlock, WithQueue
<1>6. InMemory(w) = InMemory(m) \cup IdsOf(conflicted)
  BY <1>2, <1>4 DEF InMemory
<1> QED
  BY <1>4, <1>5, <1>6, BecomeOK, NoCopies

LEMMA Landing ==
  ASSUME NEW m, PoolOK(m), Copies(conflicted), Unlock(m), NEW c, ChainIs(c, m.ledger.stored),
         NEW task, task.task \in {"idle", "syncWait", "sync"}
  PROVE  Safe(Memory', conflicted', locked', c, task)
BY UnlockOK, Landed DEF Safe

LEMMA LandingKeeps ==
  ASSUME NEW m, PoolOK(m), Copies(conflicted), Unlock(m),
         InMemory(Memory) \cup Carried(main) \subseteq InMemory(m) \cup m.ledger.stored
  PROVE  Keeps
BY UnlockOK DEF Keeps, Holding

\* A block that is received is on its way to the chain, or is refused.
LEMMA ReceivingSafe ==
  ASSUME NEW m, PoolOK(m), Copies(conflicted), NEW c, ChainIs(c, m.ledger.stored),
         NEW txs, Copies(txs), NoneTwice(txs), NEW good,
         NEW task \in {"receive", "syncReceive"}, NEW deleted,
         Receiving(m, txs, good, task, deleted)
  PROVE  /\ Safe(Memory', conflicted', locked', c, main')
         /\ InMemory(m) \cup IdsOf(conflicted) \subseteq Holding(Memory', conflicted', main')
<1>1. PICK emptied, k :
        /\ emptied = BatchRemove(m, txs) /\ k = Check(emptied.m.ledger, txs, TRUE)
        /\ \/ /\ good /\ k.ok
              /\ Become(WithLedger(emptied.m, k.l))
              /\ main' = [task |-> task, block |-> txs, removed |-> emptied.removed]
              /\ locked' = TRUE
              /\ UNCHANGED conflicted
           \/ /\ Unlock(PushInPool(WithLedger(emptied.m, IF good THEN k.l ELSE emptied.m.ledger),
                                   emptied.removed))
              /\ main' = IF task = "receive" THEN Idle ELSE [task |-> "sync"]
  BY DEF Receiving, WithLedger
<1>2. /\ Shrinks(m, emptied.m) /\ Copies(emptied.removed)
      /\ Loses(m, emptied.m, IdsOf(emptied.removed))
      /\ IdsOf(txs) \cap IdsOf(emptied.m.pool) = {}
  BY <1>1, BatchTakes
<1>3. PoolOK(emptied.m) /\ emptied.m.ledger.stored = m.ledger.stored /\ HasStored(emptied.m.ledger)
  BY <1>2 DEF Shrinks, Goes, PoolOK
<1>4. Outcome(emptied.m.ledger, txs, TRUE, k)
  BY <1>1, CheckOutcome
<1>5. HasStored(k.l) /\ k.l.stored = m.ledger.stored
  BY <1>3, <1>4 DEF Outcome, SameStored
<1>6. PICK l : l = IF good THEN k.l ELSE emptied.m.ledger
  OBVIOUS
<1>7. HasStored(l) /\ l.stored = m.ledger.stored
  BY <1>3, <1>5, <1>6
<1>8. IdsOf(emptied.m.pool) \cap m.ledger.stored = {}
  BY <1>3 DEF PoolOK
<1>9. CASE /\ k.ok
           /\ Become(WithLedger(emptied.m, k.l))
           /\ main' = [task |-> task, block |-> txs, removed |-> emptied.removed]
           /\ locked' = TRUE
           /\ UNCHANGED conflicted
  <2>1. PICK w : w = WithLedger(emptied.m, k.l)
    OBVIOUS
  <2>2. /\ PoolOK(w) /\ w.ledger = k.l /\ w.pool = emptied.m.pool
        /\ InMemory(w) = InMemory(emptied.m)
    BY <1>3, <1>5, <1>8, <2>1, WithLedgerIs
  <2>3. /\ PoolOK(Memory') /\ Memory'.ledger.stored = m.ledger.stored
        /\ IdsOf(Memory'.pool) = IdsOf(emptied.m.pool)
        /\ InMemory(Memory') = InMemory(emptied.m)
    BY <1>5, <1>9, <2>1, <2>2, BecomeOK
  <2>4. IdsOf(txs) \cap m.ledger.stored = {}
    BY <1>3, <1>4, <1>9 DEF Outcome
  <2>5. main'.task = task /\ main'.block = txs /\ main'.removed = emptied.removed
    BY <1>9
  <2>6. FlightIs(main', locked', c, Memory')
    BY <1>2, <1>9, <2>3, <2>4, <2>5 DEF FlightIs, Tasks, Saving
  <2>7. InMemory(m) \cup IdsOf(conflicted) \subseteq Holding(Memory', conflicted', main')
    BY <1>2, <1>9, <2>3, <2>5 DEF Holding, Carried, Loses
  <2> QED
    BY <1>9, <2>3, <2>6, <2>7 DEF Safe
<1>10. CASE /\ Unlock(PushInPool(WithLedger(emptied.m, l), emptied.removed))
            /\ main' = IF task = "receive" THEN Idle ELSE [task |-> "sync"]
  <2>1. PICK w, u : w = WithLedger(emptied.m, l) /\ u = PushInPool(w, emptied.removed)
    OBVIOUS
  <2>2. PoolOK(w) /\ w.ledger = l /\ InMemory(w) = InMemory(emptied.m)
    BY <1>3, <1>7, <1>8, <2>1, WithLedgerIs
  <2>3. /\ PoolOK(u) /\ u.ledger.stored = m.ledger.stored
        /\ InMemory(w) \cup IdsOf(emptied.removed) \subseteq InMemory(u)
    BY <1>2, <1>7, <2>1, <2>2, PushInPoolGoes DEF Gains, Goes
  <2>4. Unlock(u) /\ main'.task \in {"idle", "syncWait", "sync"}
    BY <1>10, <2>1 DEF Idle
  <2>5. InMemory(m) \cup IdsOf(conflicted) \subseteq Holding(Memory', conflicted', main')
    <3>1. InMemory(u) \cup IdsOf(conflicted) \subseteq InMemory(Memory')
      BY <2>3, <2>4, UnlockOK
    <3> QED
      BY <1>2, <2>2, <2>3, <3>1 DEF Holding, Loses
  <2> QED
    BY <2>3, <2>4, <2>5, Landing
<1> QED
  BY <1>1, <1>6, <1>9, <1>10

LEMMA ArrivalStep ==
  ASSUME PoolInv, NEW id \in Ids, ReceiveTransaction(id) \/ CreatePreparedTransaction(id)
  PROVE  PoolInv' /\ Keeps
<1>1. Arrive(id) /\ Become(QueuePush(Memory, Copy(ledger, id)))
  BY DEF ReceiveTransaction, CreatePreparedTransaction
<1>2. PICK w : w = QueuePush(Memory, Copy(ledger, id))
  OBVIOUS
<1>3. Copy(ledger, id).id \in Ids
  BY DEF Copy
<1>4. Goes(Memory, w) /\ w.pool = pool /\ InMemory(Memory) \subseteq InMemory(w)
  BY <1>2, <1>3, InvParts, QueueGoes, MemoryIs DEF Takes
<1>5. CountOK' /\ Copies(conflicted') /\ UNCHANGED <<locked, chain, main>>
  BY <1>1, InvParts, ArriveStays DEF Arrive
<1>6. Become(w)
  BY <1>1, <1>2
<1>7. /\ Safe(Memory', conflicted', locked', chain', main')
      /\ InMemory(Memory') = InMemory(w) /\ Carried(main') = Carried(main)
  BY <1>4, <1>5, <1>6, MemoryChanges
<1>8. conflicted' = conflicted
  BY <1>1 DEF Arrive
<1>9. Keeps
  BY <1>4, <1>7, <1>8 DEF Keeps, Holding
<1> QED
  BY <1>5, <1>7, <1>9, InvAfter

LEMMA GenerateStep == ASSUME PoolInv, GenerateBlock PROVE PoolInv' /\ Kept
<1>1. PICK popped, c :
        /\ popped = PopSorted(Memory, MaxPerBlock)
        /\ c = Check(popped.m.ledger, popped.taken, FALSE)
        /\ Become(WithLedger(popped.m, c.l))
        /\ main' = IF c.threw THEN Idle ELSE [task |-> "generate", block |-> c.done]
        /\ locked' = TRUE /\ UNCHANGED <<conflicted, chain>>
  BY DEF GenerateBlock, WithLedger
<1>2. MaxPerBlock \in Nat /\ PoolOK(Memory)
  BY PoolAssumption, InvParts
<1>3. /\ Shrinks(Memory, popped.m) /\ Copies(popped.taken) /\ NoneTwice(popped.taken)
      /\ IdsOf(popped.taken) \subseteq IdsOf(pool)
      /\ IdsOf(popped.taken) \cap IdsOf(popped.m.pool) = {}
      /\ Loses(Memory, popped.m, IdsOf(popped.taken))
  BY <1>1, <1>2, PopGoes, MemoryIs
<1>4. PoolOK(popped.m) /\ popped.m.ledger.stored = ledger.stored /\ HasStored(popped.m.ledger)
  BY <1>3, MemoryIs DEF Shrinks, Goes, PoolOK
<1>5. Outcome(popped.m.ledger, popped.taken, FALSE, c)
  BY <1>1, <1>3, CheckOutcome
<1>6. /\ HasStored(c.l) /\ c.l.stored = ledger.stored
      /\ Copies(c.done) /\ NoneTwice(c.done) /\ IdsOf(c.done) \subseteq IdsOf(popped.taken)
  BY <1>3, <1>4, <1>5 DEF Outcome, SameStored
<1>7. PICK w : w = WithLedger(popped.m, c.l)
  OBVIOUS
<1>8. /\ PoolOK(w) /\ w.ledger = c.l /\ w.pool = popped.m.pool
      /\ InMemory(w) = InMemory(popped.m)
  BY <1>4, <1>6, <1>7, WithLedgerIs DEF PoolOK
<1>9. /\ PoolOK(Memory') /\ Memory'.ledger.stored = ledger.stored
      /\ IdsOf(Memory'.pool) = IdsOf(popped.m.pool)
      /\ InMemory(Memory') = InMemory(popped.m)
  BY <1>1, <1>6, <1>7, <1>8, BecomeOK
<1>10. IdsOf(c.done) \cap (ledger.stored \cup IdsOf(popped.m.pool)) = {}
  BY <1>3, <1>6, InvParts
<1>11. FlightIs(main', locked', chain', Memory')
  <2>1. CASE c.threw
    <3>1. main'.task \in {"idle", "syncWait", "sync"}
      BY <1>1, <2>1 DEF Idle
    <3> QED
      BY <3>1, Landed
  <2>2. CASE ~c.threw
    <3>1. main'.task = "generate" /\ main'.block = c.done
      BY <1>1, <2>2
    <3> QED
      BY <1>1, <1>6, <1>9, <1>10, <3>1 DEF FlightIs, Tasks, Saving
  <2> QED
    BY <2>1, <2>2
<1>12. CountOK'
  <2>1. count' = [count EXCEPT !.blocks = @ - 1]
    BY DEF GenerateBlock, NewBlock
  <2> QED
    BY <2>1, InvParts DEF CountOK
<1>13. ChainIs(chain', Memory'.ledger.stored) /\ Copies(conflicted')
  BY <1>1, <1>9, InvParts
<1>14. Carried(main) = {} /\ conflicted' = conflicted
  BY <1>1 DEF GenerateBlock, Idle, Carried
<1>15. Kept
  <2>1. CASE c.threw
    <3>1. NextBlock = popped.taken
      BY <1>1 DEF NextBlock
    <3>2. \A id \in IdsOf(popped.taken) : Thrown(id)
      BY <1>1, <2>1, <3>1 DEF Thrown
    <3> QED
      BY <1>3, <1>9, <1>14, <3>2 DEF Kept, Holding, Loses
  <2>2. CASE ~c.threw
    <3>1. main'.task = "generate" /\ main'.block = c.done
      BY <1>1, <2>2
    <3>2. Carried(main') = IdsOf(c.done) /\ IdsOf(popped.taken) \subseteq IdsOf(c.done)
      BY <1>5, <2>2, <3>1 DEF Carried, Outcome
    <3>3. Keeps
      BY <1>3, <1>9, <1>14, <3>2 DEF Keeps, Holding, Loses
    <3> QED
      BY <3>3, KeepsAll
  <2> QED
    BY <2>1, <2>2
<1> QED
  BY <1>9, <1>11, <1>12, <1>13, <1>15, InvAfter DEF Safe

\* The block on its way to the chain is confirmed.
LEMMA ConfirmGoes ==
  ASSUME PoolInv, main.task \in Saving,
         NEW w, w = WithLedger(Memory, Confirmed(ledger, main.block))
  PROVE  /\ PoolOK(w) /\ ChainIs(Append(chain, main.block), w.ledger.stored)
         /\ InMemory(w) = InMemory(Memory) /\ IdsOf(main.block) \subseteq w.ledger.stored
<1>1. /\ Copies(main.block) /\ NoneTwice(main.block)
      /\ IdsOf(main.block) \cap (ledger.stored \cup IdsOf(pool)) = {}
  BY InvParts, MemoryIs DEF FlightIs
<1>2. PICK l : l = Confirmed(ledger, main.block)
  OBVIOUS
<1>3. HasStored(l) /\ l.stored = ledger.stored \cup IdsOf(main.block)
  BY <1>1, <1>2, InvParts, ConfirmedAllStored
<1>4. IdsOf(Memory.pool) \cap l.stored = {}
  BY <1>1, <1>3, InvParts, MemoryIs
<1>5. PoolOK(w) /\ w.ledger = l /\ InMemory(w) = InMemory(Memory)
  BY <1>2, <1>3, <1>4, InvParts, WithLedgerIs
<1>6. ChainIs(Append(chain, main.block), ledger.stored \cup IdsOf(main.block))
  BY <1>1, InvParts, ChainAppend
<1> QED
  BY <1>3, <1>5, <1>6

LEMMA GeneratedStep == ASSUME PoolInv, BlockGenerated PROVE PoolInv' /\ Keeps
<1>1. PICK w : w = WithLedger(Memory, Confirmed(ledger, main.block))
  OBVIOUS
<1>2. /\ main.task = "generate" /\ main.task \in Saving /\ Unlock(w) /\ chain' = Append(chain, main.block)
      /\ main' = Idle /\ count' = count
  BY <1>1, MemoryIs DEF BlockGenerated, WithLedger, Saving
<1>3. /\ PoolOK(w) /\ ChainIs(chain', w.ledger.stored)
      /\ InMemory(w) = InMemory(Memory) /\ IdsOf(main.block) \subseteq w.ledger.stored
  BY <1>1, <1>2, ConfirmGoes
<1>4. main'.task \in {"idle", "syncWait", "sync"}
  BY <1>2 DEF Idle
<1>5. Keeps
  BY <1>2, <1>3, InvParts, LandingKeeps DEF Carried
<1> QED
  BY <1>2, <1>3, <1>4, <1>5, InvParts, Landing, InvAfter DEF CountOK

LEMMA GenerateFailedStep == ASSUME PoolInv, GenerateFailed PROVE PoolInv' /\ Keeps
<1>1. PICK v, w : v = UndoApplied(Memory, main.block) /\ w = ReturnToQueueConflicted(v)
  OBVIOUS
<1>2. /\ main.task = "generate" /\ main.task \in Saving /\ Unlock(w) /\ main' = Idle /\ chain' = chain
      /\ count' = [count EXCEPT !.faults = @ - 1]
  BY <1>1 DEF GenerateFailed, Fault, Saving
<1>3. Gains(Memory, IdsOf(main.block), v) /\ Goes(Memory, v) /\ PoolOK(v)
  BY <1>1, <1>2, InvParts, UndoAppliedGoes DEF FlightIs, Gains, Goes
<1>4. Gains(v, {}, w) /\ Goes(Memory, w)
  BY <1>1, <1>3, ReturnGoes, GoesOn DEF Gains
<1>5. PoolOK(w) /\ ChainIs(chain', w.ledger.stored) /\ CountOK'
  BY <1>2, <1>4, InvParts, MemoryIs DEF Goes, CountOK
<1>6. main'.task \in {"idle", "syncWait", "sync"}
  BY <1>2 DEF Idle
<1>7. Keeps
  <2>1. InMemory(Memory) \cup Carried(main) \subseteq InMemory(w)
    BY <1>2, <1>3, <1>4 DEF Carried, Gains
  <2> QED
    BY <1>2, <1>5, <2>1, InvParts, LandingKeeps
<1> QED
  BY <1>2, <1>5, <1>6, <1>7, InvParts, Landing, InvAfter

LEMMA BlockReceivedStep == ASSUME PoolInv, BlockReceived PROVE PoolInv' /\ Keeps
<1>1. PICK w, v, u : /\ w = WithLedger(Memory, Confirmed(ledger, main.block))
                     /\ v = PushOthers(w, main.removed, main.block)
                     /\ u = ReturnToQueueConflicted(v)
  OBVIOUS
<1>2. /\ main.task \in {"receive", "syncReceive"} /\ Unlock(u)
      /\ chain' = Append(chain, main.block) /\ main' = NextMain /\ count' = count
  BY <1>1, MemoryIs DEF BlockReceived, WithLedger
<1>3. /\ PoolOK(w) /\ ChainIs(chain', w.ledger.stored)
      /\ InMemory(w) = InMemory(Memory) /\ IdsOf(main.block) \subseteq w.ledger.stored
  BY <1>1, <1>2, ConfirmGoes DEF Saving
<1>4. /\ Gains(w, IdsOf(main.removed) \ IdsOf(main.block), v)
      /\ Goes(w, v) /\ PoolOK(v)
  BY <1>1, <1>2, <1>3, InvParts, PushOthersGoes DEF FlightIs, Gains, Goes
<1>5. Gains(v, {}, u) /\ Goes(w, u)
  BY <1>1, <1>4, ReturnGoes, GoesOn DEF Gains
<1>6. PoolOK(u) /\ ChainIs(chain', u.ledger.stored) /\ CountOK'
  BY <1>2, <1>3, <1>5, InvParts DEF Goes, CountOK
<1>7. main'.task \in {"idle", "syncWait", "sync"}
  BY <1>2 DEF NextMain, Idle
<1>8. Keeps
  <2>1. Carried(main) = IdsOf(main.block) \cup IdsOf(main.removed)
    BY <1>2 DEF Carried
  <2>2. InMemory(Memory) \cup Carried(main) \subseteq InMemory(u) \cup u.ledger.stored
    BY <1>3, <1>4, <1>5, <2>1 DEF Gains, Goes
  <2> QED
    BY <1>2, <1>6, <2>2, InvParts, LandingKeeps
<1> QED
  BY <1>2, <1>6, <1>7, <1>8, InvParts, Landing, InvAfter

LEMMA ReceiveFailedStep == ASSUME PoolInv, ReceiveFailed PROVE PoolInv' /\ Keeps
<1>1. PICK v, w : v = UndoApplied(Memory, main.block) /\ w = PushInPool(v, main.removed)
  OBVIOUS
<1>2. /\ main.task \in {"receive", "syncReceive"} /\ Unlock(w) /\ main' = NextMain
      /\ chain' = chain /\ count' = [count EXCEPT !.faults = @ - 1]
  BY <1>1 DEF ReceiveFailed, Fault
<1>3. Gains(Memory, IdsOf(main.block), v) /\ Goes(Memory, v) /\ PoolOK(v)
  BY <1>1, <1>2, InvParts, UndoAppliedGoes DEF FlightIs, Gains, Goes, Saving
<1>4. Gains(v, IdsOf(main.removed), w) /\ Goes(Memory, w)
  BY <1>1, <1>2, <1>3, InvParts, PushInPoolGoes, GoesOn DEF FlightIs, Gains
<1>5. PoolOK(w) /\ ChainIs(chain', w.ledger.stored) /\ CountOK'
  BY <1>2, <1>4, InvParts, MemoryIs DEF Goes, CountOK
<1>6. main'.task \in {"idle", "syncWait", "sync"}
  BY <1>2 DEF NextMain, Idle
<1>7. Keeps
  <2>1. Carried(main) = IdsOf(main.block) \cup IdsOf(main.removed)
    BY <1>2 DEF Carried
  <2>2. InMemory(Memory) \cup Carried(main) \subseteq InMemory(w)
    BY <1>3, <1>4, <2>1 DEF Gains
  <2> QED
    BY <1>2, <1>5, <2>2, InvParts, LandingKeeps
<1> QED
  BY <1>2, <1>5, <1>6, <1>7, InvParts, Landing, InvAfter

LEMMA ReceiveBlockStep ==
  ASSUME PoolInv, NEW ids \in Contents, NEW good \in BOOLEAN,
         ReceiveBlock(ids, good) \/ SyncReceive(ids, good)
  PROVE  PoolInv' /\ Keeps
<1>1. PICK txs : txs = Forged(Replay(Genesis, chain), ids)
  OBVIOUS
<1>2. Copies(txs) /\ NoneTwice(txs)
  BY <1>1, ContentsAre, ForgedCopies
<1>3. PICK task \in {"receive", "syncReceive"} : Receiving(Memory, txs, good, task, FALSE)
  BY <1>1 DEF ReceiveBlock, SyncReceive
<1>4. chain' = chain /\ count' = [count EXCEPT !.blocks = @ - 1]
  BY DEF ReceiveBlock, SyncReceive, NewBlock
<1>5. /\ Safe(Memory', conflicted', locked', chain, main')
      /\ InMemory(Memory) \cup IdsOf(conflicted) \subseteq Holding(Memory', conflicted', main')
  BY <1>2, <1>3, InvParts, MemoryIs, ReceivingSafe
<1>6. CountOK'
  BY <1>4, InvParts DEF CountOK
<1>7. Keeps
  <2>1. main = Idle \/ main.task = "sync"
    BY DEF ReceiveBlock, SyncReceive
  <2>2. Carried(main) = {}
    BY <2>1 DEF Carried, Idle
  <2> QED
    BY <1>5, <2>2 DEF Keeps, Holding
<1> QED
  BY <1>4, <1>5, <1>6, <1>7, InvAfter

LEMMA ReplaceStep ==
  ASSUME PoolInv, NEW ids \in Contents, NEW good \in BOOLEAN, ReplaceBlock(ids, good)
  PROVE  PoolInv' /\ Keeps
<1>1. PICK txs : txs = Forged(Replay(Genesis, Front(chain)), ids)
  OBVIOUS
<1>2. Copies(txs) /\ NoneTwice(txs)
  BY <1>1, ContentsAre, ForgedCopies
<1>3. main' = [task |-> "replace", block |-> txs, good |-> good] /\ chain # <<>>
  BY <1>1 DEF ReplaceBlock, Deletion
<1>4. main'.task = "replace" /\ main'.block = txs
  BY <1>3
<1>5. FlightIs(main', locked, chain, Memory)
  BY <1>2, <1>3, <1>4 DEF FlightIs, Tasks, Saving
<1>6. CountOK'
  <2>1. count' = [count EXCEPT !.deletes = @ - 1, !.blocks = @ - 1]
    BY DEF ReplaceBlock
  <2> QED
    BY <2>1, InvParts DEF CountOK
<1>7. UNCHANGED <<node, chain>>
  BY DEF ReplaceBlock
<1>8. Carried(main') = Carried(main)
  BY <1>4 DEF ReplaceBlock, Idle, Carried
<1> QED
  BY <1>5, <1>6, <1>7, <1>8, OthersStep

\* The transactions of the last block are no longer confirmed.
LEMMA DeletedGoes ==
  ASSUME PoolInv, chain # <<>>, NEW w, w = WithLedger(Memory, DeleteLast(ledger))
  PROVE  PoolOK(w) /\ ChainIs(Front(chain), w.ledger.stored) /\ w.pool = pool /\ InMemory(w) = InMemory(Memory)
<1>1. /\ Copies(Last(chain))
      /\ ChainIs(Front(chain), ledger.stored \ IdsOf(Last(chain)))
  BY InvParts, ChainFront
<1>2. PICK l : l = DeleteLast(ledger)
  OBVIOUS
<1>3. HasStored(l) /\ l.stored = ledger.stored \ IdsOf(Last(chain))
  BY <1>1, <1>2, InvParts, DeleteStored
<1>4. IdsOf(Memory.pool) \cap l.stored = {}
  BY <1>3, InvParts, MemoryIs
<1>5. PoolOK(w) /\ w.ledger = l /\ w.pool = pool /\ InMemory(w) = InMemory(Memory)
  BY <1>2, <1>3, <1>4, InvParts, MemoryIs, WithLedgerIs
<1> QED
  BY <1>1, <1>3, <1>5

LEMMA DeletedStep == ASSUME PoolInv, BlockDeleted PROVE PoolInv' /\ Keeps
<1>1. PICK w : w = WithLedger(Memory, DeleteLast(ledger))
  OBVIOUS
<1>2. /\ main.task = "replace" /\ chain' = Front(chain) /\ count' = count
      /\ Receiving(w, main.block, main.good, "receive", pool # <<>>)
  BY <1>1, MemoryIs DEF BlockDeleted, WithLedger
<1>3. Copies(main.block) /\ NoneTwice(main.block) /\ chain # <<>>
  BY <1>2, InvParts DEF FlightIs
<1>4. PoolOK(w) /\ ChainIs(chain', w.ledger.stored) /\ InMemory(w) = InMemory(Memory)
  BY <1>1, <1>2, <1>3, DeletedGoes
<1>5. /\ Safe(Memory', conflicted', locked', chain', main')
      /\ InMemory(Memory) \cup IdsOf(conflicted) \subseteq Holding(Memory', conflicted', main')
  BY <1>2, <1>3, <1>4, InvParts, ReceivingSafe
<1>6. Keeps
  BY <1>2, <1>5 DEF Keeps, Holding, Carried
<1> QED
  BY <1>2, <1>5, <1>6, InvParts, InvAfter DEF CountOK

LEMMA DeleteFailedStep == ASSUME PoolInv, DeleteFailed PROVE PoolInv' /\ Keeps
<1>1. /\ main.task = "replace" /\ chain' = chain
      /\ count' = [count EXCEPT !.faults = @ - 1]
      /\ Receiving(Memory, main.block, FALSE, "receive", FALSE)
  BY DEF DeleteFailed, Fault
<1>2. Copies(main.block) /\ NoneTwice(main.block)
  BY <1>1, InvParts DEF FlightIs
<1>3. /\ Safe(Memory', conflicted', locked', chain, main')
      /\ InMemory(Memory) \cup IdsOf(conflicted) \subseteq Holding(Memory', conflicted', main')
  BY <1>1, <1>2, InvParts, MemoryIs, ReceivingSafe
<1>4. CountOK'
  BY <1>1, InvParts DEF CountOK
<1>5. Keeps
  BY <1>1, <1>3 DEF Keeps, Holding, Carried
<1> QED
  BY <1>1, <1>3, <1>4, <1>5, InvAfter

LEMMA SyncBeginStep == ASSUME PoolInv, SyncBegin PROVE PoolInv' /\ Keeps
<1>1. PICK popped, w : /\ popped = PopSorted(Memory, Len(pool))
                       /\ w = FoldLeft(QueuePush, popped.m, popped.taken)
  OBVIOUS
<1>2. /\ main.task = "syncWait" /\ Become(w) /\ main' = [task |-> "sync"]
      /\ UNCHANGED <<conflicted, chain, count>>
  BY <1>1 DEF SyncBegin
<1>3. Len(pool) \in Nat /\ PoolOK(Memory)
  BY InvParts, MemoryIs, CopiesAre DEF PoolOK
<1>4. /\ Shrinks(Memory, popped.m) /\ Copies(popped.taken)
      /\ Loses(Memory, popped.m, IdsOf(popped.taken))
  BY <1>1, <1>3, PopGoes
<1>5. PoolOK(popped.m) /\ Goes(Memory, popped.m)
  BY <1>4 DEF Shrinks, Goes
<1>6. Gains(popped.m, IdsOf(popped.taken), w) /\ Goes(Memory, w)
  BY <1>1, <1>4, <1>5, QueueAllGoes, GoesOn DEF Gains
<1>7. /\ PoolOK(Memory') /\ Memory'.ledger.stored = ledger.stored
      /\ InMemory(Memory') = InMemory(w)
  BY <1>2, <1>6, BecomeOK, MemoryIs DEF Goes
<1>8. main'.task \in {"idle", "syncWait", "sync"}
  BY <1>2
<1>9. FlightIs(main', locked', chain', Memory')
  BY <1>8, Landed
<1>10. Keeps
  BY <1>2, <1>4, <1>6, <1>7 DEF Keeps, Holding, Carried, Loses, Gains
<1> QED
  BY <1>2, <1>7, <1>9, <1>10, InvParts, InvAfter DEF Safe, CountOK

LEMMA SyncRollbackStep == ASSUME PoolInv, SyncRollback PROVE PoolInv' /\ Keeps
<1>1. PICK w : w = WithLedger(Memory, DeleteLast(ledger))
  OBVIOUS
<1>2. /\ main.task = "sync" /\ chain # <<>> /\ ledger' = DeleteLast(ledger)
      /\ chain' = Front(chain) /\ count' = [count EXCEPT !.deletes = @ - 1]
      /\ UNCHANGED <<queue, conflicted, locked, ticks, pool, bySender, byRecipient, main>>
  BY DEF SyncRollback, Deletion
<1>3. PoolOK(w) /\ ChainIs(chain', w.ledger.stored)
  BY <1>1, <1>2, DeletedGoes
<1>4. Become(w)
  BY <1>1, <1>2 DEF Become, WithLedger, Memory
<1>5. PoolOK(Memory') /\ ChainIs(chain', Memory'.ledger.stored)
  BY <1>3, <1>4, BecomeOK
<1>6. main'.task \in {"idle", "syncWait", "sync"}
  BY <1>2
<1>7. FlightIs(main', locked', chain', Memory')
  BY <1>6, Landed
<1>8. CountOK'
  BY <1>2, InvParts DEF CountOK
<1>9. Keeps
  BY <1>2 DEF Keeps, Holding, InMemory, Memory
<1> QED
  BY <1>2, <1>5, <1>7, <1>8, <1>9, InvParts, InvAfter DEF Safe

LEMMA SyncEndStep == ASSUME PoolInv, SyncEnd PROVE PoolInv' /\ Keeps
<1>1. main'.task \in {"idle", "syncWait", "sync"}
  BY DEF SyncEnd, Idle
<1>2. Unlock(Memory) /\ chain' = chain /\ count' = count
  BY DEF SyncEnd
<1>3. Safe(Memory', conflicted', locked', chain, main')
  BY <1>1, <1>2, InvParts, MemoryIs, Landing
<1>4. Carried(main) = {}
  BY DEF SyncEnd, Carried
<1>5. Keeps
  BY <1>2, <1>4, InvParts, LandingKeeps
<1> QED
  BY <1>2, <1>3, <1>5, InvParts, InvAfter DEF CountOK

\* Every step keeps the invariant.
LEMMA NextSafe == PoolInv /\ [Next]_vars => PoolInv' /\ Kept
<1> SUFFICES ASSUME PoolInv, [Next]_vars PROVE PoolInv' /\ Kept
  OBVIOUS
<1>1. CASE \E id \in Ids : ReceiveTransaction(id) \/ CreatePreparedTransaction(id)
  BY <1>1, ArrivalStep, KeepsAll
<1>2. CASE Process
  BY <1>2, ProcessStep
<1>3. CASE GenerateBlock
  BY <1>3, GenerateStep
<1>4. CASE BlockGenerated
  BY <1>4, GeneratedStep, KeepsAll
<1>5. CASE GenerateFailed
  BY <1>5, GenerateFailedStep, KeepsAll
<1>6. CASE \E ids \in Contents, good \in BOOLEAN :
              ReceiveBlock(ids, good) \/ ReplaceBlock(ids, good) \/ SyncReceive(ids, good)
  BY <1>6, ReceiveBlockStep, ReplaceStep, KeepsAll
<1>7. CASE BlockReceived
  BY <1>7, BlockReceivedStep, KeepsAll
<1>8. CASE ReceiveFailed
  BY <1>8, ReceiveFailedStep, KeepsAll
<1>9. CASE BlockDeleted
  BY <1>9, DeletedStep, KeepsAll
<1>10. CASE DeleteFailed
  BY <1>10, DeleteFailedStep, KeepsAll
<1>11. CASE SyncBegin
  BY <1>11, SyncBeginStep, KeepsAll
<1>12. CASE SyncRollback
  BY <1>12, SyncRollbackStep, KeepsAll
<1>13. CASE SyncEnd
  BY <1>13, SyncEndStep, KeepsAll
<1>14. CASE Disconnect \/ Connect \/ SyncStart \/ SyncConsensus \/ UNCHANGED vars
  BY <1>14, QuietStep, KeepsAll
<1> QED
  BY <1>1, <1>2, <1>3, <1>4, <1>5, <1>6, <1>7, <1>8, <1>9, <1>10, <1>11, <1>12, <1>13, <1>14
     DEF Next

\* A transaction is confirmed at most once and never waits in the pool for a
\* second confirmation, whatever arrives, whichever blocks are generated,
\* received, refused, replaced or rolled back, and whichever writes fail, for
\* every ledger to begin with and every set of transactions: batchRemove and
\* popSortedUnconfirmedTransactions empty the pool of what a block holds, and
\* what comes back is verified against the confirmed transactions.
THEOREM ConfirmedOnceHolds == Spec => []ConfirmedOnce
<1>1. Spec => []PoolInv
  BY InitSafe, NextSafe, PTL DEF Spec
<1> QED
  BY <1>1, InvOnce, PTL

LEMMA NextRemembers ==
  PoolInv /\ [Next]_vars =>
    [\A id \in Held :
        \/ id \in Held' \cup ledger'.stored
        \/ /\ queue # <<>> /\ id = Head(queue).id /\ queue' = Tail(queue)
           /\ ~VerifyUnconfirmed(ledger, AtProcessing(Head(queue)), FALSE)
        \/ GenerateBlock /\ main' = Idle /\ id \in IdsOf(NextBlock)]_vars
<1> SUFFICES ASSUME PoolInv, [Next]_vars, NEW id \in Held
             PROVE  id \in Held' \cup ledger'.stored \/ Refused(id) \/ Thrown(id)
  BY DEF Refused, Thrown
<1>1. PoolInv' /\ Kept
  BY NextSafe
<1>2. Held = Holding(Memory, conflicted, main) /\ Held' = Holding(Memory', conflicted', main')
  BY <1>1, HeldIs
<1>3. Memory'.ledger = ledger'
  BY DEF Memory
<1> QED
  BY <1>1, <1>2, <1>3 DEF Kept

\* A transaction that waits in the queue, in the pool or in a block being saved
\* is there after every step, or confirmed, or refused by its verification, for
\* every schedule of blocks that are generated, received, refused, replaced,
\* rolled back or not saved: what popSortedUnconfirmedTransactions, batchRemove
\* and returnToQueueConflicted take out, the block, the queue or the pool has
\* again.  The exception is a block whose generation throws.
THEOREM NothingForgottenHolds == Spec => NothingForgotten
<1>1. Spec => []PoolInv
  BY InitSafe, NextSafe, PTL DEF Spec
<1> QED
  BY <1>1, NextRemembers, PTL DEF Spec, NothingForgotten

=============================================================================
