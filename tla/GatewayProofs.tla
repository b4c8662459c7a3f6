---------------------------- MODULE GatewayProofs ----------------------------
(***************************************************************************)
(* Proofs about Gateway, for every set of wallets and requests and for     *)
(* every limit.                                                            *)
(***************************************************************************)
EXTENDS GatewayProps, SequenceFacts, SequenceTheorems, FiniteSetTheorems, TLAPS

-----------------------------------------------------------------------------
(* The inductive invariant.                                                *)

Ids == {r.id : r \in Requests}
Replies == {"refused", "timeout", "data", "event"}
Message == [id : Ids, request : Requests, type : {"request", "response"}]

TypeOK ==
    /\ online \subseteq Clients /\ sent \subseteq Requests
    /\ answers \in [Requests -> Seq(Replies)]
    /\ requests \in [DOMAIN requests -> Requests]
    /\ requestsPerSecond \in Nat /\ requestsQueue \in Seq(Requests)
    /\ cleaners \in Seq(Requests) /\ timedOut \subseteq Requests
    /\ reading \subseteq Requests /\ broken \subseteq Requests
    /\ link \in BOOLEAN /\ sendBuffer \in Seq(Requests)
    /\ toCore \in Seq(Message) /\ fromCore \in Seq([id : Ids \cup {0}, reply : Replies])
    /\ executed \subseteq Requests
    /\ arrived \in Seq(Requests) /\ emitted \in Seq(Requests) /\ withdrawn \subseteq Requests

\* Every request that waits for the core has its timer, and no timer runs else.
TimersOK ==
    /\ ToSet(cleaners) = Waiting /\ IsInjective(cleaners)
    /\ \A i \in DOMAIN requests : requests[i].id = i

\* The places exclude each other: a query is read, and only what must be
\* passed on is ever queued or waits for the core.
PlacesOK ==
    /\ IsInjective(requestsQueue)
    /\ ToSet(requestsQueue) \cap Waiting = {} /\ reading \cap broken = {}
    /\ \A r \in ToSet(requestsQueue) \cup Waiting : r.kind = "proxy"
    /\ \A r \in reading \cup broken : r.kind = "query"
    /\ \A r \in ToSet(requestsQueue) \cup Waiting \cup reading \cup broken :
         r \in sent /\ answers[r] = <<>>
    /\ \A r \in Requests : Len(answers[r]) <= 1 /\ (answers[r] # <<>> => r \in sent)
    /\ \A r \in sent : r.client \in online /\ answers[r] = <<>> =>
         r \in ToSet(requestsQueue) \cup Waiting \cup reading \cup broken

\* What has been passed on has left the queue for good.
EmittedOK ==
    /\ ToSet(emitted) \subseteq sent
    /\ ToSet(emitted) \cap ToSet(requestsQueue) = {}
    /\ Waiting \subseteq ToSet(emitted)

\* A message is passed on once: it is in the socket, on the wire or executed,
\* and what has timed out in the socket leaves it as a response.
WireOK ==
    /\ IF link THEN sendBuffer = <<>> ELSE toCore = <<>>
    /\ ToSet(sendBuffer) \cup executed \subseteq ToSet(emitted)
    /\ \A m \in ToSet(toCore) : m.request \in ToSet(emitted)
    /\ ToSet(sendBuffer) \cap executed = {}
    /\ withdrawn \subseteq timedOut \cap ToSet(emitted)
    /\ \A m \in ToSet(toCore) : m.type = "request" => m.request \notin withdrawn
    /\ WithdrawnNotExecuted

IInv == TypeOK /\ TimersOK /\ PlacesOK /\ NoOvertaking /\ EmittedOK /\ WireOK

-----------------------------------------------------------------------------
(* Lemmas about the operators the model is built from.                     *)

\* One answer to a request without one leaves it with at most one, and with one
\* if its wallet is there.
LEMMA AnswerOnce ==
  ASSUME TypeOK, NEW r \in Requests, NEW reply \in Replies, answers[r] = <<>>,
         Answer(r, reply)
  PROVE  /\ answers' \in [Requests -> Seq(Replies)]
         /\ \A q \in Requests : q # r => answers'[q] = answers[q]
         /\ Len(answers'[r]) <= 1
         /\ r.client \in online => answers'[r] # <<>>
<1>1. Append(answers[r], reply) = <<reply>>
  BY DEF TypeOK
<1>2. <<reply>> \in Seq(Replies) /\ Len(<<reply>>) = 1 /\ <<reply>> # <<>> /\ Len(<<>>) = 0
  OBVIOUS
<1>3. CASE r.client \in online
  <2>1. answers' = [answers EXCEPT ![r] = <<reply>>]
    BY <1>1, <1>3 DEF Answer
  <2> QED
    BY <1>2, <2>1 DEF TypeOK
<1>4. CASE r.client \notin online
  BY <1>2, <1>4 DEF Answer, TypeOK
<1> QED
  BY <1>3, <1>4

\* The sequences without an entry have no elements.
LEMMA EmptySets == ToSet(<<>>) = {}
BY DEF ToSet

\* A request is passed on under its own id, with a timer.
LEMMA PassedOn ==
  ASSUME TypeOK, TimersOK, NEW rs \in Seq(Requests), IsInjective(rs),
         ToSet(rs) \cap Waiting = {}, PassOn(rs)
  PROVE  /\ requests' \in [DOMAIN requests' -> Requests]
         /\ cleaners' \in Seq(Requests) /\ emitted' \in Seq(Requests)
         /\ emitted' = emitted \o rs
         /\ Waiting' = Waiting \cup ToSet(rs)
         /\ ToSet(emitted') = ToSet(emitted) \cup ToSet(rs)
         /\ TimersOK'
<1>1. ToSet(rs) \subseteq Requests
  BY SetOf
<1>2. PICK I : I = {r.id : r \in ToSet(rs)}
  OBVIOUS
<1>3. /\ DOMAIN requests' = DOMAIN requests \cup I
      /\ \A i \in DOMAIN requests' : requests'[i] = IF \E r \in ToSet(rs) : r.id = i
                                                  THEN CHOOSE r \in ToSet(rs) : r.id = i
                                                  ELSE requests[i]
  BY <1>2 DEF PassOn
<1>4. \A r \in ToSet(rs) : r.id \in DOMAIN requests' /\ requests'[r.id] = r
  <2> TAKE r \in ToSet(rs)
  <2>1. r.id \in I
    BY <1>2
  <2>2. (CHOOSE q \in ToSet(rs) : q.id = r.id) = r
    BY <1>1, RequestsAssumption
  <2> QED
    BY <1>3, <2>1, <2>2
<1>5. \A i \in DOMAIN requests : requests[i] \in Requests /\ requests[i].id = i
  BY DEF TypeOK, TimersOK
<1>6. \A i \in DOMAIN requests : requests'[i] = requests[i]
  <2> TAKE i \in DOMAIN requests
  <2>1. CASE \E r \in ToSet(rs) : r.id = i
    <3>1. PICK r \in ToSet(rs) : r.id = i
      BY <2>1
    <3>2. r = requests[i]
      BY <1>1, <1>5, <3>1, RequestsAssumption
    <3> QED
      BY <1>4, <3>1, <3>2
  <2> QED
    BY <1>3, <2>1
<1>7. \A i \in DOMAIN requests' : \/ i \in DOMAIN requests /\ requests'[i] = requests[i]
                                  \/ requests'[i] \in ToSet(rs) /\ requests'[i].id = i
  <2> TAKE i \in DOMAIN requests'
  <2>1. CASE i \in I
    <3>1. PICK r \in ToSet(rs) : r.id = i
      BY <1>2, <2>1
    <3> QED
      BY <1>4, <3>1
  <2>2. CASE i \notin I
    BY <1>3, <1>6, <2>2
  <2> QED
    BY <2>1, <2>2
<1>8. requests' = [i \in DOMAIN requests' |-> requests'[i]]
  BY <1>3 DEF PassOn
<1>9. requests' \in [DOMAIN requests' -> Requests]
  BY <1>1, <1>5, <1>7, <1>8
<1>10. Waiting' = Waiting \cup ToSet(rs)
  <2>1. ASSUME NEW r \in Waiting' PROVE r \in Waiting \cup ToSet(rs)
    BY <1>7 DEF Waiting, Range
  <2>2. ASSUME NEW r \in Waiting \cup ToSet(rs) PROVE r \in Waiting'
    BY <1>3, <1>4, <1>6 DEF Waiting, Range
  <2> QED
    BY <2>1, <2>2
<1>11. cleaners' = cleaners \o rs /\ emitted' = emitted \o rs
  BY DEF PassOn
<1>12. cleaners' \in Seq(Requests) /\ emitted' \in Seq(Requests)
  BY <1>11, ConcatProperties DEF TypeOK
<1>13. ToSet(emitted') = ToSet(emitted) \cup ToSet(rs)
  BY <1>11, ConcatSet DEF TypeOK
<1>14. ToSet(cleaners') = ToSet(cleaners) \cup ToSet(rs) /\ IsInjective(cleaners')
  BY <1>11, ConcatSet DEF TypeOK, TimersOK
<1>15. \A i \in DOMAIN requests' : requests'[i].id = i
  BY <1>5, <1>7
<1>16. TimersOK'
  BY <1>10, <1>14, <1>15 DEF TimersOK
<1> QED
  BY <1>9, <1>10, <1>11, <1>12, <1>13, <1>16

\* Messages are encoded one by one.
LEMMA Encoded ==
  ASSUME NEW rs \in Seq(Requests), NEW ms, ms = [i \in DOMAIN rs |-> Encode(rs[i])]
  PROVE  ms \in Seq(Message) /\ ToSet(ms) = {Encode(r) : r \in ToSet(rs)}
<1>1. /\ DOMAIN rs = 1..Len(rs) /\ Len(rs) \in Nat /\ ToSet(rs) = {rs[i] : i \in 1..Len(rs)}
      /\ \A i \in 1..Len(rs) : rs[i] \in Requests
  BY LenProperties, ElementOfSeq, SetOf
<1>2. \A r \in Requests : Encode(r) \in Message
  BY DEF Encode, Message, Ids
<1>3. ms \in [1..Len(rs) -> Message]
  BY <1>1, <1>2
<1>4. ms \in Seq(Message) /\ Len(ms) = Len(rs)
  BY <1>1, <1>3, FunctionIsSeq
<1>5. ToSet(ms) = {ms[i] : i \in 1..Len(rs)}
  <2>0. ms \in Seq(Message)
    BY <1>4
  <2>1. ToSet(ms) = {ms[i] : i \in 1..Len(ms)}
    BY <2>0, SetOf
  <2> QED
    BY <1>4, <2>1
<1> QED
  BY <1>1, <1>4, <1>5

\* What goes to the core goes into the socket or on the wire.
LEMMA SentToCore ==
  ASSUME TypeOK, NEW rs \in Seq(Requests), SendToCore(rs)
  PROVE  /\ link' = link /\ fromCore' = fromCore
         /\ sendBuffer' \in Seq(Requests) /\ toCore' \in Seq(Message)
         /\ link => /\ sendBuffer' = sendBuffer
                   /\ ToSet(toCore') = ToSet(toCore) \cup {Encode(r) : r \in ToSet(rs)}
         /\ ~link => /\ toCore' = toCore
                    /\ ToSet(sendBuffer') = ToSet(sendBuffer) \cup ToSet(rs)
<1>1. PICK ms : ms = [i \in DOMAIN rs |-> Encode(rs[i])]
  OBVIOUS
<1>2. ms \in Seq(Message) /\ ToSet(ms) = {Encode(r) : r \in ToSet(rs)}
  BY <1>1, Encoded
<1>3. CASE link
  <2>1. toCore' = toCore \o ms /\ sendBuffer' = sendBuffer /\ link' = link /\ fromCore' = fromCore
    BY <1>1, <1>3 DEF SendToCore
  <2>2. toCore' \in Seq(Message) /\ ToSet(toCore') = ToSet(toCore) \cup ToSet(ms)
    BY <1>2, <2>1, ConcatProperties, ConcatSet DEF TypeOK
  <2> QED
    BY <1>2, <1>3, <2>1, <2>2 DEF TypeOK
<1>4. CASE ~link
  <2>1. sendBuffer' = sendBuffer \o rs /\ toCore' = toCore /\ link' = link /\ fromCore' = fromCore
    BY <1>4 DEF SendToCore
  <2>2. sendBuffer' \in Seq(Requests) /\ ToSet(sendBuffer') = ToSet(sendBuffer) \cup ToSet(rs)
    BY <2>1, ConcatProperties, ConcatSet DEF TypeOK
  <2> QED
    BY <1>4, <2>1, <2>2 DEF TypeOK
<1> QED
  BY <1>3, <1>4

\* One id less in the Map is one request less that waits.
LEMMA Forgotten ==
  ASSUME TypeOK, TimersOK, NEW i \in DOMAIN requests, Forget(i)
  PROVE  /\ requests' \in [DOMAIN requests' -> Requests]
         /\ Waiting' = Waiting \ {requests[i]}
         /\ requests[i] \in Waiting /\ requests[i] \in Requests
         /\ \A j \in DOMAIN requests' : requests'[j].id = j
<1>1. \A j \in DOMAIN requests : requests[j] \in Requests /\ requests[j].id = j
  BY DEF TypeOK, TimersOK
<1>2. /\ DOMAIN requests' = DOMAIN requests \ {i}
      /\ \A j \in DOMAIN requests' : requests'[j] = requests[j]
      /\ requests' = [j \in DOMAIN requests' |-> requests'[j]]
  BY DEF Forget
<1>3. requests' \in [DOMAIN requests' -> Requests]
  BY <1>1, <1>2
<1>4. \A j \in DOMAIN requests : j # i => requests[j] # requests[i]
  BY <1>1
<1>5. Waiting' = Waiting \ {requests[i]}
  BY <1>2, <1>4 DEF Waiting, Range
<1> QED
  BY <1>1, <1>2, <1>3, <1>5 DEF Waiting, Range

\* The requests a tick pops are the oldest, each of them once, and the order of
\* the others does not change.
LEMMA PoppedAndLeft ==
  ASSUME TypeOK, IsInjective(requestsQueue), NEW n \in 0..Len(requestsQueue),
         NEW old, old = Oldest(n), NEW left, left = Remaining(n)
  PROVE  /\ old \in Seq(Requests) /\ left \in Seq(Requests)
         /\ Len(left) = Len(requestsQueue) - n
         /\ IsInjective(old) /\ IsInjective(left)
         /\ ToSet(old) \cup ToSet(left) = ToSet(requestsQueue)
         /\ ToSet(old) \cap ToSet(left) = {}
         /\ old \o Reverse(left) = Reverse(requestsQueue)
<1>1. PICK q : q = requestsQueue
  OBVIOUS
<1>2. PICK l \in Nat : l = Len(q)
  BY <1>1, LenProperties DEF TypeOK
<1>3. /\ q \in Seq(Requests) /\ n \in 0..l
      /\ \A i \in 1..l : q[i] \in Requests
      /\ ToSet(q) = {q[i] : i \in 1..l}
      /\ \A i, j \in 1..l : q[i] = q[j] => i = j
  <2>1. q \in Seq(Requests) /\ n \in 0..l /\ IsInjective(q)
    BY <1>1, <1>2 DEF TypeOK
  <2>2. \A i \in 1..l : q[i] \in Requests
    BY <1>2, <2>1, ElementOfSeq
  <2>3. ToSet(q) = {q[i] : i \in 1..l}
    BY <1>2, <2>1, SetOf
  <2>4. \A i, j \in 1..l : q[i] = q[j] => i = j
    BY <1>2, <2>1, Distinct
  <2> QED
    BY <2>1, <2>2, <2>3, <2>4
<1>4. old = [i \in 1..n |-> q[l + 1 - i]]
  BY <1>1, <1>2 DEF Oldest
<1>5. \A i \in 1..n : l + 1 - i \in 1..l /\ l + 1 - i > l - n
  BY <1>3
<1>6. old \in [1..n -> Requests]
  BY <1>3, <1>4, <1>5
<1>7. old \in Seq(Requests) /\ Len(old) = n /\ \A i \in 1..n : old[i] = q[l + 1 - i]
  BY <1>3, <1>4, <1>6, FunctionIsSeq
<1>8. /\ left \in Seq(Requests) /\ Len(left) = l - n
      /\ \A i \in 1..l - n : left[i] = q[i]
  <2>1. PICK k \in Nat : k = l - n
    BY <1>3
  <2>2. left = SubSeq(q, 1, k) /\ k <= Len(q)
    BY <1>1, <1>2, <1>3, <2>1 DEF Remaining
  <2>3. /\ left \in Seq(Requests) /\ Len(left) = IF 1 <= k THEN k - 1 + 1 ELSE 0
        /\ \A i \in 1..k - 1 + 1 : left[i] = q[1 + i - 1]
    BY <1>3, <2>2, Slice
  <2> QED
    BY <2>1, <2>3
<1>9. \A i \in 1..l - n : i \in 1..l
  BY <1>3
<1>10. IsInjective(left)
  BY <1>3, <1>8, <1>9, Distinct
<1>11. IsInjective(old)
  <2>1. \A i, j \in 1..n : old[i] = old[j] => i = j
    <3> TAKE i, j \in 1..n
    <3>1. old[i] = old[j] => l + 1 - i = l + 1 - j
      BY <1>3, <1>5, <1>7
    <3> QED
      BY <3>1
  <2> QED
    BY <1>7, <2>1, Distinct
<1>12. /\ ToSet(old) = {old[i] : i \in 1..n} /\ ToSet(left) = {left[i] : i \in 1..l - n}
  BY <1>7, <1>8, SetOf, SMTT(20)
<1>13. ToSet(old) \cap ToSet(left) = {}
  <2>1. \A i \in 1..n, j \in 1..l - n : old[i] # left[j]
    <3> TAKE i \in 1..n, j \in 1..l - n
    <3>1. l + 1 - i # j
      BY <1>5
    <3> QED
      BY <1>3, <1>5, <1>7, <1>8, <1>9, <3>1, ZenonT(30)
  <2> QED
    BY <1>12, <2>1
<1>14. ToSet(old) \cup ToSet(left) = ToSet(q)
  <2>1. ASSUME NEW x \in ToSet(q) PROVE x \in ToSet(old) \cup ToSet(left)
    <3>1. PICK i \in 1..l : x = q[i]
      BY <1>3
    <3>2. CASE i <= l - n
      BY <1>8, <1>12, <3>1, <3>2
    <3>3. CASE i > l - n
      <4>1. l + 1 - i \in 1..n /\ l + 1 - (l + 1 - i) = i
        BY <1>3, <3>3
      <4> QED
        BY <1>7, <1>12, <3>1, <4>1
    <3> QED
      BY <1>3, <3>2, <3>3
  <2>2. ASSUME NEW x \in ToSet(old) PROVE x \in ToSet(q)
    BY <1>3, <1>5, <1>7, <1>12
  <2>3. ASSUME NEW x \in ToSet(left) PROVE x \in ToSet(q)
    BY <1>3, <1>8, <1>9, <1>12
  <2> QED
    BY <2>1, <2>2, <2>3
<1>15. old \o Reverse(left) = Reverse(q)
  <2>1. PICK a, b : a = Reverse(left) /\ b = Reverse(q)
    OBVIOUS
  <2>2. /\ a \in Seq(Requests) /\ Len(a) = l - n
        /\ \A i \in 1..l - n : a[i] = q[l - n - i + 1]
    <3>1. a = [i \in 1..l - n |-> left[l - n - i + 1]]
      BY <1>8, <2>1 DEF Reverse
    <3>2. \A i \in 1..l - n : l - n - i + 1 \in 1..l - n
      BY <1>3
    <3>3. a \in [1..l - n -> Requests]
      BY <1>3, <1>8, <1>9, <3>1, <3>2
    <3>4. l - n \in Nat
      BY <1>3
    <3> QED
      BY <1>8, <3>1, <3>2, <3>3, <3>4, FunctionIsSeq
  <2>3. /\ b \in Seq(Requests) /\ Len(b) = l
        /\ \A i \in 1..l : b[i] = q[l - i + 1]
    <3>1. b = [i \in 1..l |-> q[l - i + 1]]
      BY <1>2, <2>1 DEF Reverse
    <3>2. \A i \in 1..l : l - i + 1 \in 1..l
      OBVIOUS
    <3>3. b \in [1..l -> Requests]
      BY <1>3, <3>1, <3>2
    <3> QED
      BY <3>1, <3>3, FunctionIsSeq
  <2>4. PICK c : c = old \o a
    OBVIOUS
  <2>5. /\ c \in Seq(Requests) /\ Len(c) = l
        /\ \A i \in 1..l : c[i] = IF i <= n THEN old[i] ELSE a[i - n]
    <3>1. /\ c \in Seq(Requests) /\ Len(c) = n + (l - n)
          /\ \A i \in 1..n + (l - n) : c[i] = IF i <= n THEN old[i] ELSE a[i - n]
      <4>1. /\ c \in Seq(Requests) /\ Len(c) = Len(old) + Len(a)
            /\ \A i \in 1..Len(old) + Len(a) :
                 c[i] = IF i <= Len(old) THEN old[i] ELSE a[i - Len(old)]
        BY <1>7, <2>2, <2>4, ConcatProperties, ZenonT(30)
      <4> QED
        BY <1>7, <2>2, <4>1
    <3>2. n + (l - n) = l
      BY <1>3
    <3> QED
      BY <3>1, <3>2
  <2>6. \A i \in 1..l : c[i] = b[i]
    <3> TAKE i \in 1..l
    <3>1. CASE i <= n
      <4>1. i \in 1..n /\ l + 1 - i = l - i + 1
        BY <1>3, <3>1
      <4> QED
        BY <1>7, <2>3, <2>5, <3>1, <4>1
    <3>2. CASE i > n
      <4>1. i - n \in 1..l - n /\ l - n - (i - n) + 1 = l - i + 1 /\ ~(i <= n)
        BY <1>3, <3>2
      <4> QED
        BY <2>2, <2>3, <2>5, <4>1
    <3> QED
      BY <1>3, <3>1, <3>2
  <2>7. c = b
    BY <2>3, <2>5, <2>6, SeqEqual
  <2> QED
    BY <2>1, <2>4, <2>7
<1> QED
  BY <1>1, <1>2, <1>7, <1>8, <1>10, <1>11, <1>13, <1>14, <1>15

\* The reverse of a sequence is a sequence.
LEMMA ReversedSeq ==
  ASSUME NEW S, NEW q \in Seq(S)
  PROVE  Reverse(q) \in Seq(S)
<1>1. Len(q) \in Nat /\ \A i \in 1..Len(q) : q[i] \in S
  BY LenProperties, ElementOfSeq
<1>2. \A i \in 1..Len(q) : Len(q) - i + 1 \in 1..Len(q)
  BY <1>1
<1>3. Reverse(q) \in [1..Len(q) -> S]
  BY <1>1, <1>2 DEF Reverse
<1> QED
  BY <1>1, <1>3, FunctionIsSeq

\* A request at the front of the queue is the last of its reverse.
LEMMA ReverseOfQueued ==
  ASSUME NEW S, NEW q \in Seq(S), NEW r \in S
  PROVE  /\ <<r>> \o q \in Seq(S) /\ <<r>> \o q # <<>>
         /\ ToSet(<<r>> \o q) = ToSet(q) \cup {r}
         /\ IsInjective(q) /\ r \notin ToSet(q) => IsInjective(<<r>> \o q)
         /\ Reverse(q) \in Seq(S)
         /\ Reverse(<<r>> \o q) = Append(Reverse(q), r)
<1>1. PICK t : t = <<r>> \o q
  OBVIOUS
<1>2. PICK l \in Nat : l = Len(q)
  BY LenProperties
<1>3. PICK o : o = <<r>>
  OBVIOUS
<1>4. o \in Seq(S) /\ Len(o) = 1 /\ o[1] = r
  BY <1>3
<1>5. /\ t \in Seq(S) /\ Len(t) = 1 + l
      /\ \A i \in 1..1 + l : t[i] = IF i <= 1 THEN o[i] ELSE q[i - 1]
  BY <1>1, <1>2, <1>3, <1>4, ConcatProperties
<1>6. t # <<>>
  BY <1>5, EmptySeq
<1>7. ToSet(o) = {r} /\ IsInjective(o)
  <2>1. ToSet(o) = {o[i] : i \in 1..1}
    BY <1>4, SetOf
  <2>2. \A i, j \in 1..1 : i = j
    OBVIOUS
  <2>3. IsInjective(o)
    BY <1>4, <2>2, Distinct
  <2> QED
    BY <1>4, <2>1, <2>3
<1>8. /\ ToSet(t) = ToSet(q) \cup {r}
      /\ IsInjective(q) /\ r \notin ToSet(q) => IsInjective(t)
  <2>1. t = o \o q
    BY <1>1, <1>3
  <2>2. ToSet(t) = ToSet(o) \cup ToSet(q)
    BY <1>4, <2>1, ConcatSet
  <2>3. IsInjective(q) /\ r \notin ToSet(q) => IsInjective(t)
    BY <1>4, <1>7, <2>1, ConcatSet
  <2> QED
    BY <1>7, <2>2, <2>3
<1>9. PICK a, b : a = Reverse(q) /\ b = Reverse(t)
  OBVIOUS
<1>10. \A i \in 1..l : q[i] \in S
  BY <1>2, ElementOfSeq
<1>11. a \in Seq(S) /\ Len(a) = l /\ \A i \in 1..l : a[i] = q[l - i + 1]
  <2>1. a = [i \in 1..l |-> q[l - i + 1]]
    BY <1>2, <1>9 DEF Reverse
  <2>2. \A i \in 1..l : l - i + 1 \in 1..l
    OBVIOUS
  <2>3. a \in [1..l -> S]
    BY <1>10, <2>1, <2>2
  <2> QED
    BY <2>1, <2>3, FunctionIsSeq
<1>12. b \in Seq(S) /\ Len(b) = l + 1 /\ \A i \in 1..l + 1 : b[i] = t[l + 1 - i + 1]
  <2>1. b = [i \in 1..l + 1 |-> t[l + 1 - i + 1]]
    BY <1>5, <1>9 DEF Reverse
  <2>2. \A i \in 1..l + 1 : l + 1 - i + 1 \in 1..1 + l
    OBVIOUS
  <2>3. \A i \in 1..1 + l : t[i] \in S
    BY <1>5, ElementOfSeq
  <2>4. b \in [1..l + 1 -> S]
    BY <2>1, <2>2, <2>3
  <2> QED
    BY <2>1, <2>4, FunctionIsSeq
<1>13. PICK c : c = Append(a, r)
  OBVIOUS
<1>14. /\ c \in Seq(S) /\ Len(c) = l + 1
       /\ \A i \in 1..l : c[i] = a[i]
       /\ c[l + 1] = r
  BY <1>11, <1>13, AppendProperties
<1>15. \A i \in 1..l + 1 : b[i] = c[i]
  <2> TAKE i \in 1..l + 1
  <2>1. CASE i = l + 1
    <3>1. l + 1 - i + 1 = 1 /\ 1 \in 1..1 + l
      BY <2>1
    <3>2. t[1] = r
      BY <1>4, <1>5, <3>1
    <3> QED
      BY <1>12, <1>14, <2>1, <3>1, <3>2
  <2>2. CASE i # l + 1
    <3>1. /\ i \in 1..l /\ l + 1 - i + 1 \in 1..1 + l /\ ~(l + 1 - i + 1 <= 1)
          /\ l + 1 - i + 1 - 1 = l - i + 1
      BY <2>2
    <3>2. b[i] = t[l + 1 - i + 1]
      BY <1>12
    <3>3. t[l + 1 - i + 1] = q[l - i + 1]
      BY <1>5, <3>1
    <3>4. c[i] = q[l - i + 1]
      BY <1>11, <1>14, <3>1
    <3> QED
      BY <3>2, <3>3, <3>4
  <2> QED
    BY <2>1, <2>2
<1>16. b = c
  BY <1>12, <1>14, <1>15, SeqEqual
<1> QED
  BY <1>1, <1>5, <1>6, <1>8, <1>9, <1>11, <1>13, <1>16

\* Append and concatenation.
LEMMA AppendToConcat ==
  ASSUME NEW S, NEW s \in Seq(S), NEW t \in Seq(S), NEW e \in S
  PROVE  Append(s \o t, e) = s \o Append(t, e)
<1>1. s \o t \in Seq(S)
  BY ConcatProperties
<1>2. PICK o : o = <<e>>
  OBVIOUS
<1>3. o \in Seq(S)
  BY <1>2
<1>4. Append(s \o t, e) = (s \o t) \o o /\ Append(t, e) = t \o o
  BY <1>1, <1>2, AppendIsConcat
<1> QED
  BY <1>3, <1>4, ConcatAssociative, SMTT(20)

-----------------------------------------------------------------------------
(* What passing requests on does to the connection, to the queue and to    *)
(* the places of the requests.                                             *)

\* Requests that were never passed on cannot be on the wire already.
LEMMA PassedOnWire ==
  ASSUME IInv, NEW rs \in Seq(Requests), ToSet(rs) \cap ToSet(emitted) = {}, PassOn(rs),
         ToSet(emitted') = ToSet(emitted) \cup ToSet(rs),
         UNCHANGED <<executed, timedOut, withdrawn>>
  PROVE  WireOK'
<1>1. /\ link' = link
      /\ link => /\ sendBuffer' = sendBuffer
                /\ ToSet(toCore') = ToSet(toCore) \cup {Encode(r) : r \in ToSet(rs)}
      /\ ~link => /\ toCore' = toCore
                 /\ ToSet(sendBuffer') = ToSet(sendBuffer) \cup ToSet(rs)
  BY SentToCore DEF IInv, PassOn
<1>2. \A m \in ToSet(toCore') : m \in ToSet(toCore) \/ m.request \in ToSet(rs)
  BY <1>1 DEF Encode
<1>3. \A r \in ToSet(sendBuffer') : r \in ToSet(sendBuffer) \/ r \in ToSet(rs)
  BY <1>1
<1>4. ToSet(rs) \cap executed = {} /\ ToSet(rs) \cap withdrawn = {}
  BY DEF IInv, WireOK
<1>5. IF link' THEN sendBuffer' = <<>> ELSE toCore' = <<>>
  BY <1>1 DEF IInv, WireOK, TypeOK
<1>6. /\ ToSet(sendBuffer') \cup executed' \subseteq ToSet(emitted')
      /\ ToSet(sendBuffer') \cap executed' = {}
  BY <1>3, <1>4 DEF IInv, WireOK
<1>7. /\ \A m \in ToSet(toCore') : m.request \in ToSet(emitted')
      /\ \A m \in ToSet(toCore') : m.type = "request" => m.request \notin withdrawn'
  BY <1>2, <1>4 DEF IInv, WireOK
<1>8. withdrawn' \subseteq timedOut' \cap ToSet(emitted') /\ WithdrawnNotExecuted'
  BY DEF IInv, WireOK, WithdrawnNotExecuted
<1> QED
  BY <1>5, <1>6, <1>7, <1>8 DEF WireOK

-----------------------------------------------------------------------------
(* The invariant holds at first and in every step.                         *)

\* No request has been sent when the process starts.
LEMMA IInvInit == Init => IInv
<1> SUFFICES ASSUME Init PROVE IInv
  OBVIOUS
<1> USE DEF Init
<1>1. TypeOK
  <2>1. requests \in [DOMAIN requests -> Requests]
    OBVIOUS
  <2>2. <<>> \in Seq(Requests) /\ <<>> \in Seq(Message) /\ <<>> \in Seq(Replies)
        /\ <<>> \in Seq([id : Ids \cup {0}, reply : Replies])
    BY EmptySeq
  <2>3. answers \in [Requests -> Seq(Replies)]
    BY <2>2
  <2> QED
    BY <2>1, <2>2, <2>3 DEF TypeOK
<1>2. TimersOK
  <2>1. DOMAIN requests = {} /\ DOMAIN cleaners = {}
    OBVIOUS
  <2> QED
    BY <2>1, EmptySets DEF TimersOK, Waiting, Range, IsInjective
<1>3. PlacesOK
  <2>1. Waiting = {}
    BY DEF Waiting, Range
  <2>2. DOMAIN requestsQueue = {} /\ Len(<<>>) = 0
    OBVIOUS
  <2> QED
    BY <2>1, <2>2, EmptySets DEF PlacesOK, IsInjective
<1>4. NoOvertaking
  <2>1. Reverse(requestsQueue) = <<>>
    BY DEF Reverse
  <2> QED
    BY <2>1, LimitAssumption DEF NoOvertaking
<1>5. EmittedOK
  <2>1. Waiting = {}
    BY DEF Waiting, Range
  <2> QED
    BY <2>1, EmptySets DEF EmittedOK
<1>6. WireOK
  BY EmptySets DEF WireOK, WithdrawnNotExecuted
<1> QED
  BY <1>1, <1>2, <1>3, <1>4, <1>5, <1>6 DEF IInv

\* A request that has not arrived is in no place, and has not been passed on.
LEMMA Unknown ==
  ASSUME IInv, NEW r \in Requests \ sent
  PROVE  /\ answers[r] = <<>> /\ r \notin ToSet(emitted)
         /\ r \notin ToSet(requestsQueue) \cup Waiting \cup reading \cup broken
BY DEF IInv, PlacesOK, EmittedOK

\* A request that the process answers itself.
LEMMA RefuseStep ==
  ASSUME IInv, NEW r \in Requests, Refuse(r)
  PROVE  IInv'
<1>1. /\ r \in Requests \ sent /\ r.kind = "refused" /\ sent' = sent \cup {r}
      /\ Answer(r, "refused")
      /\ UNCHANGED <<online, gateway, wire, executed, faults, history>>
  BY DEF Refuse, Receive, Accepted
<1>2. /\ answers[r] = <<>>
      /\ r \notin ToSet(requestsQueue) \cup Waiting \cup reading \cup broken
  BY <1>1, Unknown
<1>3. /\ answers' \in [Requests -> Seq(Replies)]
      /\ \A q \in Requests : q # r => answers'[q] = answers[q]
      /\ Len(answers'[r]) <= 1
      /\ r.client \in online => answers'[r] # <<>>
  BY <1>1, <1>2, AnswerOnce DEF IInv, Replies
<1>4. Waiting' = Waiting
  BY <1>1 DEF Waiting, gateway
<1>5. TypeOK'
  BY <1>1, <1>3 DEF IInv, TypeOK, gateway, wire, history
<1>6. TimersOK'
  BY <1>1, <1>4 DEF IInv, TimersOK, gateway
<1>7. PlacesOK'
  BY <1>1, <1>2, <1>3, <1>4 DEF IInv, PlacesOK, TypeOK, gateway
<1>8. NoOvertaking'
  BY <1>1 DEF IInv, NoOvertaking, gateway, history
<1>9. EmittedOK'
  BY <1>1, <1>4 DEF IInv, EmittedOK, gateway, history
<1>10. WireOK'
  BY <1>1 DEF IInv, WireOK, WithdrawnNotExecuted, gateway, wire, history
<1> QED
  BY <1>5, <1>6, <1>7, <1>8, <1>9, <1>10 DEF IInv

\* A request that reads the database.
LEMMA QueryStep ==
  ASSUME IInv, NEW r \in Requests, Query(r)
  PROVE  IInv'
<1>1. /\ r \in Requests \ sent /\ r.kind = "query" /\ sent' = sent \cup {r}
      /\ reading' = reading \cup {r}
      /\ UNCHANGED <<online, answers, requests, requestsPerSecond, requestsQueue, cleaners,
                     timedOut, broken, wire, executed, history>>
  BY DEF Query, Receive
<1>2. /\ answers[r] = <<>>
      /\ r \notin ToSet(requestsQueue) \cup Waiting \cup reading \cup broken
  BY <1>1, Unknown
<1>3. Waiting' = Waiting
  BY <1>1 DEF Waiting
<1>4. TypeOK'
  BY <1>1 DEF IInv, TypeOK, wire, history
<1>5. TimersOK'
  BY <1>1, <1>3 DEF IInv, TimersOK
<1>6. PlacesOK'
  BY <1>1, <1>2, <1>3 DEF IInv, PlacesOK, TypeOK
<1>7. NoOvertaking'
  BY <1>1 DEF IInv, NoOvertaking, history
<1>8. EmittedOK'
  BY <1>1, <1>3 DEF IInv, EmittedOK, history
<1>9. WireOK'
  BY <1>1 DEF IInv, WireOK, WithdrawnNotExecuted, wire, history
<1> QED
  BY <1>4, <1>5, <1>6, <1>7, <1>8, <1>9 DEF IInv

\* A request beyond the limit goes to the front of the queue.
LEMMA QueueStep ==
  ASSUME IInv, NEW r \in Requests, Proxy(r), requestsPerSecond >= Limit
  PROVE  IInv'
<1>1. /\ r \in Requests \ sent /\ sent' = sent \cup {r}
      /\ arrived' = Append(arrived, r) /\ requestsQueue' = <<r>> \o requestsQueue
      /\ UNCHANGED <<online, answers, requests, requestsPerSecond, cleaners, timedOut,
                     reading, broken, wire, executed, emitted, withdrawn>>
  BY DEF Proxy, Receive, EmitToCore, Queued
<1>2. r.kind = "proxy"
  BY DEF Proxy
<1>3. /\ answers[r] = <<>> /\ r \notin ToSet(emitted)
      /\ r \notin ToSet(requestsQueue) \cup Waiting \cup reading \cup broken
  BY <1>1, Unknown
<1>4. /\ requestsQueue' \in Seq(Requests)
      /\ ToSet(requestsQueue') = ToSet(requestsQueue) \cup {r}
      /\ IsInjective(requestsQueue')
      /\ Reverse(requestsQueue) \in Seq(Requests)
      /\ Reverse(requestsQueue') = Append(Reverse(requestsQueue), r)
  <2>1. requestsQueue \in Seq(Requests) /\ IsInjective(requestsQueue)
    BY DEF IInv, TypeOK, PlacesOK
  <2>2. /\ <<r>> \o requestsQueue \in Seq(Requests)
        /\ ToSet(<<r>> \o requestsQueue) = ToSet(requestsQueue) \cup {r}
        /\ IsInjective(<<r>> \o requestsQueue)
        /\ Reverse(requestsQueue) \in Seq(Requests)
        /\ Reverse(<<r>> \o requestsQueue) = Append(Reverse(requestsQueue), r)
    BY <1>3, <2>1, ReverseOfQueued
  <2> QED
    BY <1>1, <2>2
<1>5. Waiting' = Waiting
  BY <1>1 DEF Waiting
<1>6. TypeOK'
  <2>1. arrived' \in Seq(Requests)
    BY <1>1, AppendProperties DEF IInv, TypeOK
  <2> QED
    BY <1>1, <1>4, <2>1 DEF IInv, TypeOK, wire
<1>7. TimersOK'
  BY <1>1, <1>5 DEF IInv, TimersOK
<1>8. PlacesOK'
  <2>1. /\ ToSet(requestsQueue') \cap Waiting' = {}
        /\ \A q \in ToSet(requestsQueue') \cup Waiting' : q.kind = "proxy"
        /\ \A q \in ToSet(requestsQueue') \cup Waiting' \cup reading' \cup broken' :
             q \in sent' /\ answers'[q] = <<>>
    BY <1>1, <1>2, <1>3, <1>4, <1>5, SMTT(20) DEF IInv, PlacesOK
  <2>2. /\ reading' \cap broken' = {}
        /\ \A q \in reading' \cup broken' : q.kind = "query"
        /\ \A q \in Requests : Len(answers'[q]) <= 1 /\ (answers'[q] # <<>> => q \in sent')
    BY <1>1 DEF IInv, PlacesOK
  <2>3. \A q \in sent' : q.client \in online' /\ answers'[q] = <<>> =>
          q \in ToSet(requestsQueue') \cup Waiting' \cup reading' \cup broken'
    BY <1>1, <1>4, <1>5 DEF IInv, PlacesOK
  <2> QED
    BY <1>4, <2>1, <2>2, <2>3 DEF PlacesOK
<1>9. NoOvertaking'
  <2>0. PICK v : v = Reverse(requestsQueue)
    OBVIOUS
  <2>1. arrived' = emitted \o Append(Reverse(requestsQueue), r)
    <3>1. PICK e : e = emitted
      OBVIOUS
    <3>2. v \in Seq(Requests) /\ e \in Seq(Requests)
      BY <1>4, <2>0, <3>1 DEF IInv, TypeOK
    <3>3. Append(e \o v, r) = e \o Append(v, r)
      <4>1. v \in Seq(Requests) /\ e \in Seq(Requests) /\ r \in Requests
        BY <3>2
      <4>2. \A x, y \in Seq(Requests), z \in Requests : Append(x \o y, z) = x \o Append(y, z)
        BY AppendToConcat, SMTT(20)
      <4> QED
        BY <4>1, <4>2
    <3>4. arrived = e \o v
      BY <2>0, <3>1 DEF IInv, NoOvertaking
    <3> QED
      BY <1>1, <2>0, <3>1, <3>3, <3>4
  <2> QED
    BY <1>1, <1>4, <2>1 DEF IInv, NoOvertaking
<1>10. EmittedOK'
  BY <1>1, <1>3, <1>4, <1>5 DEF IInv, EmittedOK
<1>11. WireOK'
  BY <1>1 DEF IInv, WireOK, WithdrawnNotExecuted, wire
<1> QED
  BY <1>6, <1>7, <1>8, <1>9, <1>10, <1>11 DEF IInv

\* A request within the limit is passed on at once, for the queue is empty.
LEMMA ProxyStep ==
  ASSUME IInv, NEW r \in Requests, Proxy(r), ~(requestsPerSecond >= Limit)
  PROVE  IInv'
<1>1. /\ r \in Requests \ sent /\ sent' = sent \cup {r} /\ PassOn(<<r>>)
      /\ arrived' = Append(arrived, r) /\ requestsPerSecond' = requestsPerSecond + 1
      /\ UNCHANGED <<online, answers, requestsQueue, timedOut, reading, broken, executed,
                     withdrawn>>
  BY DEF Proxy, Receive, EmitToCore
<1>2. r.kind = "proxy"
  BY DEF Proxy
<1>3. /\ answers[r] = <<>> /\ r \notin ToSet(emitted)
      /\ r \notin ToSet(requestsQueue) \cup Waiting \cup reading \cup broken
  BY <1>1, Unknown
<1>4. PICK rs : rs = <<r>>
  OBVIOUS
<1>5. rs \in Seq(Requests) /\ ToSet(rs) = {r} /\ IsInjective(rs) /\ PassOn(rs)
  <2>1. rs \in Seq(Requests) /\ Len(rs) = 1 /\ rs[1] = r /\ PassOn(rs)
    BY <1>1, <1>4
  <2>2. ToSet(rs) = {rs[i] : i \in 1..1}
    BY <2>1, SetOf
  <2>3. \A i, j \in 1..1 : i = j
    OBVIOUS
  <2>4. IsInjective(rs)
    BY <2>1, <2>3, Distinct
  <2> QED
    BY <2>1, <2>2, <2>4
<1>6. /\ requests' \in [DOMAIN requests' -> Requests]
      /\ cleaners' \in Seq(Requests) /\ emitted' \in Seq(Requests)
      /\ emitted' = emitted \o rs
      /\ Waiting' = Waiting \cup {r} /\ ToSet(emitted') = ToSet(emitted) \cup {r}
      /\ TimersOK'
  BY <1>3, <1>5, PassedOn DEF IInv
<1>7. TypeOK'
  <2>1. /\ link' = link /\ fromCore' = fromCore
        /\ sendBuffer' \in Seq(Requests) /\ toCore' \in Seq(Message)
    BY <1>5, SentToCore DEF IInv, PassOn
  <2>2. arrived' \in Seq(Requests)
    BY <1>1, AppendProperties DEF IInv, TypeOK
  <2> QED
    BY <1>1, <1>6, <2>1, <2>2, SMTT(20) DEF IInv, TypeOK
<1>8. PlacesOK'
  BY <1>1, <1>2, <1>3, <1>6 DEF IInv, PlacesOK, TypeOK
<1>9. NoOvertaking'
  <2>1. requestsQueue = <<>> /\ requestsQueue' = <<>>
    BY <1>1 DEF IInv, NoOvertaking
  <2>2. Reverse(<<>>) = <<>>
    BY DEF Reverse
  <2>3. arrived = emitted
    BY <2>1, <2>2, ConcatEmptySeq DEF IInv, NoOvertaking, TypeOK
  <2>4. arrived' = emitted'
    BY <1>1, <1>4, <1>6, <2>3, AppendIsConcat DEF IInv, TypeOK
  <2>5. arrived' = emitted' \o Reverse(requestsQueue')
    BY <1>6, <2>1, <2>2, <2>4, ConcatEmptySeq
  <2>6. requestsPerSecond' <= Limit
    BY <1>1, LimitAssumption DEF IInv, TypeOK
  <2> QED
    BY <2>1, <2>5, <2>6 DEF NoOvertaking
<1>10. EmittedOK'
  BY <1>1, <1>3, <1>6 DEF IInv, EmittedOK
<1>11. WireOK'
  BY <1>1, <1>3, <1>5, <1>6, PassedOnWire
<1> QED
  BY <1>6, <1>7, <1>8, <1>9, <1>10, <1>11 DEF IInv

\* The interval passes the oldest requests of the queue on, as many as fit.
LEMMA TickStep ==
  ASSUME IInv, Tick
  PROVE  IInv'
<1>1. PICK n : n = Popped
  OBVIOUS
<1>2. PICK old, left : old = Oldest(n) /\ left = Remaining(n)
  OBVIOUS
<1>3. /\ requestsPerSecond' = n /\ requestsQueue' = left /\ PassOn(old)
      /\ UNCHANGED <<online, sent, answers, timedOut, reading, broken, executed, arrived,
                     withdrawn>>
  BY <1>1, <1>2 DEF Tick, wallet
<1>4. /\ n \in 0..Len(requestsQueue) /\ n <= Limit
      /\ n # Limit => n = Len(requestsQueue)
  <2>1. Len(requestsQueue) \in Nat
    BY LenProperties DEF IInv, TypeOK
  <2> QED
    BY <1>1, <2>1, LimitAssumption DEF Popped
<1>5. /\ old \in Seq(Requests) /\ left \in Seq(Requests)
      /\ Len(left) = Len(requestsQueue) - n
      /\ IsInjective(old) /\ IsInjective(left)
      /\ ToSet(old) \cup ToSet(left) = ToSet(requestsQueue)
      /\ ToSet(old) \cap ToSet(left) = {}
      /\ old \o Reverse(left) = Reverse(requestsQueue)
  BY <1>2, <1>4, PoppedAndLeft DEF IInv, PlacesOK
<1>6. ToSet(old) \cap Waiting = {} /\ ToSet(old) \cap ToSet(emitted) = {}
  BY <1>5 DEF IInv, PlacesOK, EmittedOK
<1>7. /\ requests' \in [DOMAIN requests' -> Requests]
      /\ cleaners' \in Seq(Requests) /\ emitted' \in Seq(Requests)
      /\ emitted' = emitted \o old
      /\ Waiting' = Waiting \cup ToSet(old)
      /\ ToSet(emitted') = ToSet(emitted) \cup ToSet(old)
      /\ TimersOK'
  BY <1>3, <1>5, <1>6, PassedOn DEF IInv
<1>8. TypeOK'
  <2>1. /\ link' = link /\ fromCore' = fromCore
        /\ sendBuffer' \in Seq(Requests) /\ toCore' \in Seq(Message)
    BY <1>3, <1>5, SentToCore DEF IInv, PassOn
  <2>2. n \in Nat
    BY <1>4
  <2> QED
    BY <1>3, <1>5, <1>7, <2>1, <2>2 DEF IInv, TypeOK
<1>9. PlacesOK'
  <2>1. ToSet(requestsQueue') \cup Waiting' = ToSet(requestsQueue) \cup Waiting
    BY <1>3, <1>5, <1>7
  <2>2. ToSet(requestsQueue') \cap Waiting' = {}
    BY <1>3, <1>5, <1>7 DEF IInv, PlacesOK
  <2>3. IsInjective(requestsQueue')
    BY <1>3, <1>5
  <2> QED
    BY <1>3, <2>1, <2>2, <2>3 DEF IInv, PlacesOK
<1>10. NoOvertaking'
  <2>1. Reverse(left) \in Seq(Requests)
    BY <1>5, ReversedSeq
  <2>2. arrived = emitted \o (old \o Reverse(left))
    BY <1>5 DEF IInv, NoOvertaking
  <2>3. arrived' = emitted' \o Reverse(requestsQueue')
    <3>1. PICK v : v = Reverse(left)
      OBVIOUS
    <3>2. v \in Seq(Requests) /\ emitted \in Seq(Requests)
      BY <2>1, <3>1 DEF IInv, TypeOK
    <3>4. old \in Seq(Requests)
      BY <1>5
    <3>3. (emitted \o old) \o v = emitted \o (old \o v)
      BY <3>2, <3>4, ConcatAssociative
    <3> QED
      BY <1>3, <1>7, <2>2, <3>1, <3>3
  <2>4. requestsQueue' # <<>> => requestsPerSecond' >= Limit
    <3>1. Len(requestsQueue) \in Nat
      BY LenProperties DEF IInv, TypeOK
    <3>2. left # <<>> => Len(left) # 0
      BY <1>5, EmptySeq
    <3> QED
      BY <1>3, <1>4, <1>5, <3>1, <3>2, LimitAssumption
  <2> QED
    BY <1>3, <1>4, <2>3, <2>4 DEF NoOvertaking
<1>11. EmittedOK'
  BY <1>3, <1>5, <1>7 DEF IInv, EmittedOK, PlacesOK
<1>12. WireOK'
  BY <1>3, <1>5, <1>6, <1>7, PassedOnWire
<1> QED
  BY <1>7, <1>8, <1>9, <1>10, <1>11, <1>12 DEF IInv

\* A request that is answered leaves its place; the others stay.
LEMMA LeftPlace ==
  ASSUME IInv, NEW r \in Requests, answers[r] = <<>>, r \in Waiting \cup reading,
         /\ answers' \in [Requests -> Seq(Replies)]
         /\ \A q \in Requests : q # r => answers'[q] = answers[q]
         /\ Len(answers'[r]) <= 1
         /\ r.client \in online => answers'[r] # <<>>,
         UNCHANGED <<online, sent, requestsQueue, broken>>,
         Waiting' = Waiting \ {r}, reading' = reading \ {r}
  PROVE  PlacesOK'
<1>1. /\ r \in sent /\ r \notin ToSet(requestsQueue) /\ r \notin broken
  BY DEF IInv, PlacesOK
<1>2. ToSet(requestsQueue) \cup Waiting \cup reading \cup broken \subseteq Requests
  BY DEF IInv, PlacesOK, TypeOK
<1>3. \A q \in ToSet(requestsQueue') \cup Waiting' \cup reading' \cup broken' :
        q \in sent' /\ answers'[q] = <<>>
  BY <1>1, <1>2 DEF IInv, PlacesOK
<1>4. \A q \in Requests : Len(answers'[q]) <= 1 /\ (answers'[q] # <<>> => q \in sent')
  BY <1>1 DEF IInv, PlacesOK
<1>5. \A q \in sent' : q.client \in online' /\ answers'[q] = <<>> =>
        q \in ToSet(requestsQueue') \cup Waiting' \cup reading' \cup broken'
  BY DEF IInv, PlacesOK, TypeOK
<1> QED
  BY <1>3, <1>4, <1>5 DEF IInv, PlacesOK

\* A request that has an entry under its id in the Map.
LEMMA EntryOf ==
  ASSUME IInv, NEW r \in Waiting
  PROVE  r \in Requests /\ r.id \in DOMAIN requests /\ requests[r.id] = r /\ answers[r] = <<>>
BY DEF IInv, TimersOK, TypeOK, PlacesOK, Waiting, Range

\* A request whose core is silent is answered, and its timer is gone.
LEMMA CleanerStep ==
  ASSUME IInv, Cleaner
  PROVE  IInv'
<1>1. PICK r : r = Head(cleaners)
  OBVIOUS
<1>2. /\ cleaners # <<>> /\ cleaners' = Tail(cleaners)
      /\ timedOut' = timedOut \cup {r}
      /\ withdrawn' = IF r \in ToSet(sendBuffer) THEN withdrawn \cup {r} ELSE withdrawn
      /\ Forget(r.id) /\ Answer(r, "timeout")
      /\ UNCHANGED <<online, sent, requestsPerSecond, requestsQueue, reading, broken, wire,
                     executed, arrived, emitted>>
  BY <1>1 DEF Cleaner
<1>3. /\ ToSet(cleaners) = {r} \cup ToSet(cleaners')
      /\ r \notin ToSet(cleaners') /\ IsInjective(cleaners')
      /\ cleaners' \in Seq(Requests)
  <2>1. cleaners \in Seq(Requests) /\ IsInjective(cleaners)
    BY DEF IInv, TypeOK, TimersOK
  <2>2. /\ ToSet(cleaners) = {Head(cleaners)} \cup ToSet(Tail(cleaners))
        /\ Head(cleaners) \notin ToSet(Tail(cleaners)) /\ IsInjective(Tail(cleaners))
    BY <1>2, <2>1, TailSet
  <2>3. Tail(cleaners) \in Seq(Requests)
    BY <1>2, <2>1, HeadTailProperties
  <2> QED
    BY <1>1, <1>2, <2>2, <2>3
<1>4. r \in Waiting
  BY <1>3 DEF IInv, TimersOK
<1>5. r \in Requests /\ r.id \in DOMAIN requests /\ requests[r.id] = r /\ answers[r] = <<>>
  BY <1>4, EntryOf
<1>6. /\ requests' \in [DOMAIN requests' -> Requests]
      /\ Waiting' = Waiting \ {r}
      /\ \A j \in DOMAIN requests' : requests'[j].id = j
  BY <1>2, <1>5, Forgotten DEF IInv
<1>7. /\ answers' \in [Requests -> Seq(Replies)]
      /\ \A q \in Requests : q # r => answers'[q] = answers[q]
      /\ Len(answers'[r]) <= 1
      /\ r.client \in online => answers'[r] # <<>>
  BY <1>2, <1>5, AnswerOnce DEF IInv, Replies
<1>8. TypeOK'
  BY <1>2, <1>3, <1>5, <1>6, <1>7 DEF IInv, TypeOK, wire
<1>9. TimersOK'
  BY <1>3, <1>6 DEF IInv, TimersOK
<1>10. PlacesOK'
  <2>1. reading' = reading \ {r}
    BY <1>2, <1>4, <1>5 DEF IInv, PlacesOK
  <2> QED
    BY <1>2, <1>4, <1>5, <1>6, <1>7, <2>1, LeftPlace
<1>11. NoOvertaking'
  BY <1>2 DEF IInv, NoOvertaking
<1>12. EmittedOK'
  BY <1>2, <1>6 DEF IInv, EmittedOK
<1>13. WireOK'
  <2>1. r \in ToSet(emitted)
    BY <1>4 DEF IInv, EmittedOK
  <2>2. CASE r \in ToSet(sendBuffer)
    <3>1. ~link /\ r \notin executed
      BY <2>2, EmptySets DEF IInv, WireOK
    <3>2. toCore = <<>>
      BY <3>1 DEF IInv, WireOK
    <3> QED
      BY <1>2, <2>1, <2>2, <3>1, <3>2, EmptySets DEF IInv, WireOK, WithdrawnNotExecuted, wire
  <2>3. CASE r \notin ToSet(sendBuffer)
    BY <1>2, <2>3 DEF IInv, WireOK, WithdrawnNotExecuted, wire
  <2> QED
    BY <2>2, <2>3
<1> QED
  BY <1>8, <1>9, <1>10, <1>11, <1>12, <1>13 DEF IInv

\* The database answers.
LEMMA ReadStep ==
  ASSUME IInv, NEW r \in Requests, Read(r)
  PROVE  IInv'
<1>1. /\ r \in reading /\ reading' = reading \ {r} /\ Answer(r, "data")
      /\ UNCHANGED <<online, sent, requests, requestsPerSecond, requestsQueue, cleaners,
                     timedOut, broken, wire, executed, history>>
  BY DEF Read
<1>2. /\ answers[r] = <<>> /\ r.kind = "query"
      /\ r \notin ToSet(requestsQueue) \cup Waiting \cup broken
  BY <1>1 DEF IInv, PlacesOK
<1>3. /\ answers' \in [Requests -> Seq(Replies)]
      /\ \A q \in Requests : q # r => answers'[q] = answers[q]
      /\ Len(answers'[r]) <= 1
      /\ r.client \in online => answers'[r] # <<>>
  BY <1>1, <1>2, AnswerOnce DEF IInv, Replies
<1>4. Waiting' = Waiting
  BY <1>1 DEF Waiting
<1>5. TypeOK'
  BY <1>1, <1>3 DEF IInv, TypeOK, wire, history
<1>6. TimersOK'
  BY <1>1, <1>4 DEF IInv, TimersOK
<1>7. PlacesOK'
  <2>1. Waiting' = Waiting \ {r}
    BY <1>2, <1>4
  <2> QED
    BY <1>1, <1>2, <1>3, <2>1, LeftPlace
<1>8. NoOvertaking'
  BY <1>1 DEF IInv, NoOvertaking, history
<1>9. EmittedOK'
  BY <1>1, <1>4 DEF IInv, EmittedOK, history
<1>10. WireOK'
  BY <1>1 DEF IInv, WireOK, WithdrawnNotExecuted, wire, history
<1> QED
  BY <1>5, <1>6, <1>7, <1>8, <1>9, <1>10 DEF IInv

\* The database rejects a query.
LEMMA ReadFailsStep ==
  ASSUME IInv, NEW r \in Requests, ReadFails(r)
  PROVE  IInv'
<1>1. /\ r \in reading /\ reading' = reading \ {r} /\ broken' = broken \cup {r}
      /\ UNCHANGED <<wallet, requests, requestsPerSecond, requestsQueue, cleaners,
                     timedOut, wire, executed, history>>
  BY DEF ReadFails
<1>2. Waiting' = Waiting
  BY <1>1 DEF Waiting
<1>3. TypeOK'
  BY <1>1 DEF IInv, TypeOK, wallet, wire, history
<1>4. TimersOK'
  BY <1>1, <1>2 DEF IInv, TimersOK
<1>5. PlacesOK'
  BY <1>1, <1>2 DEF IInv, PlacesOK, wallet
<1>6. NoOvertaking'
  BY <1>1 DEF IInv, NoOvertaking, history
<1>7. EmittedOK'
  BY <1>1, <1>2 DEF IInv, EmittedOK, wallet, history
<1>8. WireOK'
  BY <1>1 DEF IInv, WireOK, WithdrawnNotExecuted, wire, history
<1> QED
  BY <1>3, <1>4, <1>5, <1>6, <1>7, <1>8 DEF IInv

\* A wallet that goes is owed nothing.
LEMMA LeaveStep ==
  ASSUME IInv, NEW c \in Clients, Leave(c)
  PROVE  IInv'
<1>1. /\ online' = online \ {c}
      /\ UNCHANGED <<sent, answers, gateway, wire, executed, history>>
  BY DEF Leave
<1>2. Waiting' = Waiting
  BY <1>1 DEF Waiting, gateway
<1>3. TypeOK'
  BY <1>1 DEF IInv, TypeOK, gateway, wire, history
<1>4. TimersOK'
  BY <1>1, <1>2 DEF IInv, TimersOK, gateway
<1>5. PlacesOK'
  BY <1>1, <1>2 DEF IInv, PlacesOK, gateway
<1>6. NoOvertaking'
  BY <1>1 DEF IInv, NoOvertaking, gateway, history
<1>7. EmittedOK'
  BY <1>1, <1>2 DEF IInv, EmittedOK, gateway, history
<1>8. WireOK'
  BY <1>1 DEF IInv, WireOK, WithdrawnNotExecuted, gateway, wire, history
<1> QED
  BY <1>3, <1>4, <1>5, <1>6, <1>7, <1>8 DEF IInv

\* What happens in the core and on the connection leaves the process alone.
LEMMA WireStep ==
  ASSUME IInv, UNCHANGED <<wallet, gateway, history>>,
         link' \in BOOLEAN, sendBuffer' \in Seq(Requests), toCore' \in Seq(Message),
         fromCore' \in Seq([id : Ids \cup {0}, reply : Replies]),
         executed' \subseteq Requests, WireOK'
  PROVE  IInv'
<1>1. Waiting' = Waiting
  BY DEF Waiting, gateway
<1>2. TypeOK'
  BY DEF IInv, TypeOK, wallet, gateway, history
<1>3. TimersOK'
  BY <1>1 DEF IInv, TimersOK, gateway
<1>4. PlacesOK'
  BY <1>1 DEF IInv, PlacesOK, wallet, gateway
<1>5. NoOvertaking'
  BY DEF IInv, NoOvertaking, gateway, history
<1>6. EmittedOK'
  BY <1>1 DEF IInv, EmittedOK, wallet, gateway, history
<1> QED
  BY <1>2, <1>3, <1>4, <1>5, <1>6 DEF IInv

\* The core takes a message; only what is still a request is executed.
LEMMA ExecuteStep ==
  ASSUME IInv, toCore # <<>>, Execute(Head(toCore)),
         UNCHANGED <<wallet, gateway, link, sendBuffer, history>>,
         fromCore' \in Seq([id : Ids \cup {0}, reply : Replies])
  PROVE  IInv'
<1>1. PICK m : m = Head(toCore)
  OBVIOUS
<1>2. /\ executed' = IF m.type = "request" THEN executed \cup {m.request} ELSE executed
      /\ toCore' = Tail(toCore)
  BY <1>1 DEF Execute
<1>3. /\ m \in Message /\ toCore' \in Seq(Message)
      /\ ToSet(toCore) = {m} \cup ToSet(toCore')
  BY <1>1, <1>2, HeadTailProperties, TailSet DEF IInv, TypeOK
<1>4. link /\ sendBuffer = <<>>
  BY DEF IInv, WireOK
<1>5. executed' \subseteq Requests
  BY <1>2, <1>3 DEF IInv, TypeOK, Message
<1>6. m.request \in ToSet(emitted) /\ (m.type = "request" => m.request \notin withdrawn)
  BY <1>3 DEF IInv, WireOK
<1>7. WireOK'
  BY <1>2, <1>3, <1>4, <1>6, EmptySets
  DEF IInv, WireOK, WithdrawnNotExecuted, gateway, history
<1>8. link' \in BOOLEAN /\ sendBuffer' \in Seq(Requests)
  BY DEF IInv, TypeOK
<1> QED
  BY <1>3, <1>5, <1>7, <1>8, WireStep

\* An answer of the core goes to whoever waits under its id.
LEMMA OnCoreMessageStep ==
  ASSUME IInv, OnCoreMessage
  PROVE  IInv'
<1>1. PICK m : m = Head(fromCore)
  OBVIOUS
<1>2. /\ fromCore # <<>> /\ fromCore' = Tail(fromCore)
      /\ IF m.id \in DOMAIN requests
         THEN /\ Answer(requests[m.id], m.reply) /\ ClearTimeout(requests[m.id])
              /\ Forget(m.id)
         ELSE UNCHANGED <<answers, cleaners, requests>>
      /\ UNCHANGED <<online, sent, requestsPerSecond, requestsQueue, timedOut, reading,
                     broken, link, sendBuffer, toCore, executed, history>>
  BY <1>1 DEF OnCoreMessage
<1>3. /\ m \in [id : Ids \cup {0}, reply : Replies]
      /\ fromCore' \in Seq([id : Ids \cup {0}, reply : Replies])
  BY <1>1, <1>2, HeadTailProperties DEF IInv, TypeOK
<1>4. NoOvertaking'
  BY <1>2 DEF IInv, NoOvertaking, history
<1>5. WireOK'
  BY <1>2 DEF IInv, WireOK, WithdrawnNotExecuted, history
<1>6. CASE m.id \in DOMAIN requests
  <2>1. PICK r : r = requests[m.id]
    OBVIOUS
  <2>2. /\ requests' \in [DOMAIN requests' -> Requests]
        /\ Waiting' = Waiting \ {r} /\ r \in Waiting
        /\ \A j \in DOMAIN requests' : requests'[j].id = j
    BY <1>2, <1>6, <2>1, Forgotten DEF IInv
  <2>3. r \in Requests /\ answers[r] = <<>>
    BY <2>2, EntryOf
  <2>4. /\ answers' \in [Requests -> Seq(Replies)]
        /\ \A q \in Requests : q # r => answers'[q] = answers[q]
        /\ Len(answers'[r]) <= 1
        /\ r.client \in online => answers'[r] # <<>>
    <3>1. m.reply \in Replies /\ Answer(r, m.reply)
      BY <1>2, <1>3, <1>6, <2>1
    <3> QED
      BY <2>3, <3>1, AnswerOnce DEF IInv
  <2>5. /\ cleaners' \in Seq(Requests) /\ IsInjective(cleaners')
        /\ ToSet(cleaners') = ToSet(cleaners) \ {r}
    <3>1. cleaners' = RemoveFirst(cleaners, r)
      BY <1>2, <1>6, <2>1 DEF ClearTimeout
    <3>2. cleaners \in Seq(Requests) /\ IsInjective(cleaners)
      BY DEF IInv, TypeOK, TimersOK
    <3> QED
      BY <3>1, <3>2, RemoveSet
  <2>6. TypeOK'
    BY <1>2, <1>3, <2>2, <2>4, <2>5 DEF IInv, TypeOK, history
  <2>7. TimersOK'
    BY <2>2, <2>5 DEF IInv, TimersOK
  <2>8. PlacesOK'
    <3>1. reading' = reading \ {r}
      BY <1>2, <2>2, <2>3 DEF IInv, PlacesOK
    <3> QED
      BY <1>2, <2>2, <2>3, <2>4, <3>1, LeftPlace
  <2>9. EmittedOK'
    BY <1>2, <2>2 DEF IInv, EmittedOK, history
  <2> QED
    BY <1>4, <1>5, <2>6, <2>7, <2>8, <2>9 DEF IInv
<1>7. CASE m.id \notin DOMAIN requests
  <2>1. UNCHANGED <<answers, cleaners, requests>>
    BY <1>2, <1>7
  <2>2. Waiting' = Waiting
    BY <2>1 DEF Waiting
  <2>3. TypeOK'
    BY <1>2, <1>3, <2>1 DEF IInv, TypeOK, history
  <2>4. TimersOK'
    BY <2>1, <2>2 DEF IInv, TimersOK
  <2>5. PlacesOK'
    BY <1>2, <2>1, <2>2 DEF IInv, PlacesOK
  <2>6. EmittedOK'
    BY <1>2, <2>2 DEF IInv, EmittedOK, history
  <2> QED
    BY <1>4, <1>5, <2>3, <2>4, <2>5, <2>6 DEF IInv
<1> QED
  BY <1>6, <1>7

\* Every step keeps the invariant.
LEMMA IInvNext == IInv /\ [Next]_vars => IInv'
<1> SUFFICES ASSUME IInv, [Next]_vars PROVE IInv'
  OBVIOUS
<1> DEFINE Reply == [id : Ids \cup {0}, reply : Replies]
<1>0. link \in BOOLEAN /\ fromCore \in Seq(Reply) /\ toCore \in Seq(Message)
  BY DEF IInv, TypeOK
<1>1. CASE OnMessage
  <2>1. toCore # <<>> /\ Head(toCore) \in Message
    BY <1>0, <1>1, HeadTailProperties DEF OnMessage
  <2>2. PICK x : x = [id |-> Head(toCore).id,
                      reply |-> IF Head(toCore).type = "request" THEN "data" ELSE "refused"]
    OBVIOUS
  <2>3. x \in Reply /\ fromCore' = Append(fromCore, x)
    BY <1>1, <2>1, <2>2 DEF OnMessage, Message, Replies
  <2>4. fromCore' \in Seq(Reply)
    BY <1>0, <2>3, AppendProperties
  <2>5. Execute(Head(toCore)) /\ UNCHANGED <<wallet, gateway, link, sendBuffer, history>>
    BY <1>1 DEF OnMessage
  <2> QED
    BY <2>1, <2>4, <2>5, ExecuteStep
<1>2. CASE OnMessageThrows
  <2>1. /\ toCore # <<>> /\ Execute(Head(toCore)) /\ fromCore' \in Seq(Reply)
        /\ UNCHANGED <<wallet, gateway, link, sendBuffer, history>>
    BY <1>0, <1>2 DEF OnMessageThrows
  <2> QED
    BY <2>1, ExecuteStep
<1>3. CASE EmitEvent
  <2>1. PICK x : x = [id |-> 0, reply |-> "event"]
    OBVIOUS
  <2>2. x \in Reply /\ fromCore' = Append(fromCore, x)
    BY <1>3, <2>1 DEF EmitEvent, Replies
  <2>3. fromCore' \in Seq(Reply)
    BY <1>0, <2>2, AppendProperties
  <2>4. UNCHANGED <<wallet, gateway, link, sendBuffer, toCore, executed, history>>
    BY <1>3 DEF EmitEvent
  <2>5. WireOK'
    BY <2>4 DEF IInv, WireOK, WithdrawnNotExecuted, gateway, history
  <2> QED
    BY <1>0, <2>3, <2>4, <2>5, WireStep DEF IInv, TypeOK
<1>4. CASE Connect
  <2>1. /\ ~link /\ link' = TRUE /\ sendBuffer' = <<>>
        /\ toCore' = [i \in DOMAIN sendBuffer |-> Encode(sendBuffer[i])]
        /\ UNCHANGED <<wallet, gateway, fromCore, executed, history>>
    BY <1>4 DEF Connect
  <2>2. /\ toCore' \in Seq(Message)
        /\ ToSet(toCore') = {Encode(r) : r \in ToSet(sendBuffer)}
    BY <2>1, Encoded DEF IInv, TypeOK
  <2>3. WireOK'
    BY <2>1, <2>2, EmptySets
    DEF IInv, WireOK, WithdrawnNotExecuted, Encode, gateway, history
  <2>4. sendBuffer' \in Seq(Requests)
    BY <2>1, EmptySeq
  <2> QED
    BY <1>0, <2>1, <2>2, <2>3, <2>4, WireStep DEF IInv, TypeOK
<1>5. CASE Disconnect
  <2>1. /\ link /\ link' = FALSE /\ toCore' = <<>> /\ fromCore' = <<>>
        /\ UNCHANGED <<wallet, gateway, sendBuffer, executed, history>>
    BY <1>5 DEF Disconnect
  <2>2. WireOK'
    BY <2>1, EmptySets DEF IInv, WireOK, WithdrawnNotExecuted, gateway, history
  <2>3. toCore' \in Seq(Message) /\ fromCore' \in Seq(Reply)
    BY <2>1, EmptySeq
  <2> QED
    BY <2>1, <2>2, <2>3, WireStep DEF IInv, TypeOK
<1>6. ASSUME NEW r \in Requests, Proxy(r) PROVE IInv'
  BY <1>6, QueueStep, ProxyStep
<1>7. CASE UNCHANGED vars
  <2>1. UNCHANGED <<wallet, gateway, wire, executed, history>>
    BY <1>7 DEF vars
  <2>2. WireOK'
    BY <2>1 DEF IInv, WireOK, WithdrawnNotExecuted, gateway, wire, history
  <2> QED
    BY <2>1, <2>2, WireStep DEF IInv, TypeOK, wire
<1>8. CASE Next
  BY <1>1, <1>2, <1>3, <1>4, <1>5, <1>6, <1>8, RefuseStep, QueryStep, ReadStep, ReadFailsStep,
     LeaveStep, TickStep, CleanerStep, OnCoreMessageStep DEF Next
<1> QED
  BY <1>7, <1>8

-----------------------------------------------------------------------------
(* The theorems.                                                           *)

\* The process keeps its Map, its queue, its timers and its messages in step.
THEOREM IInvariant == Spec => []IInv
<1> QED
  BY IInvInit, IInvNext, PTL DEF Spec

\* At most one of several facts about a request that exclude each other.
LEMMA OnePlace ==
  ASSUME NEW P, NEW x, P \subseteq {x}
  PROVE  Cardinality(P) <= 1
<1>1. CASE P = {}
  BY <1>1, FS_EmptySet
<1>2. CASE P = {x}
  <2>1. Cardinality({x}) = 1
    BY FS_Singleton
  <2> QED
    BY <1>2, <2>1
<1>3. P = {} \/ P = {x}
  OBVIOUS
<1> QED
  BY <1>1, <1>2, <1>3

\* Every request is in one place: queued, waiting for the core with a timer,
\* waiting for the database, or answered, once, whatever the order of answers,
\* timers, lost connections and wallets that go (emitToCore, emitAndClear,
\* buildRequestCleaner).
THEOREM AccountedHolds == Spec => []Accounted
<1>1. IInv => Accounted
  <2> SUFFICES ASSUME IInv PROVE Accounted
    OBVIOUS
  <2>1. /\ ToSet(cleaners) = Waiting /\ IsInjective(cleaners)
        /\ \A i \in DOMAIN requests : requests[i].id = i
    BY DEF IInv, TimersOK
  <2>2. ASSUME NEW r \in Requests,
               NEW P, P = { p \in {"queue", "core", "database", "answered", "broken"} :
                   \/ p = "queue"    /\ r \in ToSet(requestsQueue)
                   \/ p = "core"     /\ r \in Waiting
                   \/ p = "database" /\ r \in reading
                   \/ p = "answered" /\ answers[r] # <<>>
                   \/ p = "broken"   /\ r \in broken }
        PROVE  Cardinality(P) <= 1 /\ (r \in sent /\ r.client \in online => P # {})
    <3>1. PlacesOK
      BY DEF IInv
    <3>2. \E x : P \subseteq {x}
      <4>1. CASE r \in ToSet(requestsQueue)
        BY <2>2, <3>1, <4>1 DEF PlacesOK
      <4>2. CASE r \in Waiting
        BY <2>2, <3>1, <4>2 DEF PlacesOK
      <4>3. CASE r \in reading
        BY <2>2, <3>1, <4>3 DEF PlacesOK
      <4>4. CASE r \in broken
        BY <2>2, <3>1, <4>4 DEF PlacesOK
      <4>5. CASE r \notin ToSet(requestsQueue) \cup Waiting \cup reading \cup broken
        BY <2>2, <4>5
      <4> QED
        BY <4>1, <4>2, <4>3, <4>4, <4>5
    <3>3. r \in sent /\ r.client \in online => P # {}
      BY <2>2, <3>1 DEF PlacesOK
    <3> QED
      BY <3>2, <3>3, OnePlace
  <2>3. \A r \in Requests : Len(answers[r]) <= 1
    BY DEF IInv, PlacesOK
  <2> QED
    BY <2>1, <2>2, <2>3 DEF Accounted
<1> QED
  BY <1>1, IInvariant, PTL

\* Requests reach the core in the order in which they came, and none waits while
\* there is quota left (emitToCore, processQueue).
THEOREM NoOvertakingHolds == Spec => []NoOvertaking
<1>1. IInv => NoOvertaking
  BY DEF IInv
<1> QED
  BY <1>1, IInvariant, PTL

\* What has timed out before it left the process is never executed
\* (buildRequestCleaner).
THEOREM WithdrawnNotExecutedHolds == Spec => []WithdrawnNotExecuted
<1>1. IInv => WithdrawnNotExecuted
  BY DEF IInv, WireOK
<1> QED
  BY <1>1, IInvariant, PTL
=============================================================================
