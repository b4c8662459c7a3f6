------------------------------ MODULE PeersProofs ------------------------------
(***************************************************************************)
(* That the two repositories of a node and its listeners agree, that a     *)
(* banned peer is not heard, and that no connection is left over.  The     *)
(* operators of Peers lead from world to world, and the lemmas say what    *)
(* each of them keeps of an invariant that is stated of a world.           *)
(*                                                                         *)
(* The first half proves the invariant IInv of the repositories, the       *)
(* second one the invariant Hand of the handshake on each socket: what its *)
(* queues hold says which of its ends are connected and listed.            *)
(***************************************************************************)
EXTENDS PeersProps, SequenceFacts

-----------------------------------------------------------------------------
(* The inductive invariant, of a world w of the nodes N with the ban lists *)
(* b.                                                                      *)

Entries(w, n) == DOMAIN w.network[n]
EndOf(w, s, e) == IF e = "client" THEN w.link[s].client ELSE w.link[s].server

IsSequence(q) == \E S : q \in Seq(S)
IsRecord(w) ==
  w = [memory |-> w.memory, network |-> w.network, posted |-> w.posted, link |-> w.link,
       wire |-> w.wire]
IsLink(l) ==
  l = [client |-> l.client, server |-> l.server, up |-> l.up, ears |-> l.ears,
       hello |-> l.hello]
IsEntry(x) == x = [s |-> x.s, e |-> x.e, flag |-> x.flag]

Shape(N, w) ==
  /\ IsRecord(w)
  /\ DOMAIN w.memory = N /\ DOMAIN w.network = N /\ DOMAIN w.posted = N
  /\ DOMAIN w.link = Sockets
  /\ \A n \in N : IsSequence(w.posted[n])
  /\ \A s \in Sockets : IsLink(w.link[s])
  /\ \A n \in N : \A p \in Entries(w, n) : IsEntry(w.network[n][p])

\* Headers that wait to be handled came by a socket that still is there.
Announced(w, n, v) ==
  v.kind = "HEADERS_RECEIVE" =>
    /\ v.s \in Sockets /\ v.e \in Ends
    /\ EndOf(w, v.s, v.e) = n /\ EndOf(w, v.s, Other(v.e)) = v.peer
Posted(N, w) == \A n \in N : \A v \in ToSet(w.posted[n]) : Announced(w, n, v)

Listed(w, n, p, s, e) ==
  p \in Entries(w, n) /\ w.network[n][p].s = s /\ w.network[n][p].e = e
Agreed(N, w) ==
  /\ \A n \in N : DOMAIN w.memory[n] = Entries(w, n)
  /\ \A s \in Sockets : \A e \in Ends \cap w.link[s].ears :
       EndOf(w, s, e) \in N => Listed(w, EndOf(w, s, e), EndOf(w, s, Other(e)), s, e)
Silenced(N, b, w) ==
  \A n \in N : \A p \in b[n] \cap Entries(w, n) : w.network[n][p].flag

Consistent(N, b, w) ==
  Shape(N, w) /\ Posted(N, w) /\ Agreed(N, w) /\ Silenced(N, b, w)

PlanInv ==
  /\ "plan" \in DOMAIN count /\ plan \in Plans
  /\ DOMAIN banned = Nodes
IInv == PlanInv /\ Consistent(Nodes, banned, World)

-----------------------------------------------------------------------------
(* Sequences of whatever there is.                                         *)

LEMMA AppendAny ==
  ASSUME NEW q, IsSequence(q), NEW e
  PROVE  /\ IsSequence(Append(q, e))
         /\ ToSet(Append(q, e)) = ToSet(q) \cup {e}
<1>1. PICK S : q \in Seq(S)
  BY DEF IsSequence
<1>2. PICK T : T = S \cup {e}
  OBVIOUS
<1>3. q \in Seq(T) /\ e \in T
  BY <1>1, <1>2
<1>4. Append(q, e) \in Seq(T)
  BY <1>3, AppendProperties
<1>5. ToSet(Append(q, e)) = ToSet(q) \cup {e}
  BY <1>3, AppendSet
<1> QED
  BY <1>4, <1>5 DEF IsSequence

LEMMA TailAny ==
  ASSUME NEW q, IsSequence(q), q # <<>>
  PROVE  /\ IsSequence(Tail(q))
         /\ ToSet(q) = {Head(q)} \cup ToSet(Tail(q))
<1>1. PICK S : q \in Seq(S)
  BY DEF IsSequence
<1>2. Tail(q) \in Seq(S)
  BY <1>1, HeadTailProperties
<1>3. ToSet(q) = {Head(q)} \cup ToSet(Tail(q))
  BY <1>1, TailSet
<1> QED
  BY <1>2, <1>3 DEF IsSequence

-----------------------------------------------------------------------------
(* What the operators of Peers do to a world.                              *)

\* At most a socket is closed, a message sent and listeners gone.
Calmer(w, v) ==
  /\ IsRecord(v)
  /\ v.memory = w.memory /\ v.network = w.network /\ v.posted = w.posted
  /\ DOMAIN v.link = DOMAIN w.link
  /\ \A s \in DOMAIN w.link :
       /\ IsLink(v.link[s])
       /\ v.link[s].client = w.link[s].client /\ v.link[s].server = w.link[s].server
       /\ v.link[s].ears \subseteq w.link[s].ears

LEMMA CalmerKeeps ==
  ASSUME NEW N, NEW b, NEW w, NEW v, Consistent(N, b, w), Calmer(w, v)
  PROVE  Consistent(N, b, v)
<1>1. /\ DOMAIN v.link = Sockets /\ IsRecord(v)
      /\ \A n : Entries(v, n) = Entries(w, n)
      /\ \A s \in Sockets : \A e : EndOf(v, s, e) = EndOf(w, s, e)
  BY DEF Consistent, Shape, Calmer, Entries, EndOf
<1>2. Shape(N, v)
  BY <1>1 DEF Consistent, Shape, Calmer
<1>3. Posted(N, v)
  BY <1>1 DEF Consistent, Posted, Calmer, Announced
<1>4. Agreed(N, v)
  BY <1>1 DEF Consistent, Shape, Agreed, Calmer, Listed
<1>5. Silenced(N, b, v)
  BY <1>1 DEF Consistent, Silenced, Calmer
<1> QED
  BY <1>2, <1>3, <1>4, <1>5 DEF Consistent

LEMMA CalmerTwice ==
  ASSUME NEW u, NEW v, NEW w, Calmer(u, v), Calmer(v, w) PROVE Calmer(u, w)
  BY DEF Calmer

\* Only messages differ.
LEMMA WireCalmer ==
  ASSUME NEW N, NEW w, Shape(N, w), NEW x PROVE Calmer(w, [w EXCEPT !.wire = x])
<1>1. PICK v : v = [w EXCEPT !.wire = x]
  OBVIOUS
<1>2. v = [memory |-> w.memory, network |-> w.network, posted |-> w.posted, link |-> w.link,
           wire |-> x]
  BY <1>1 DEF Shape, IsRecord
<1>3. IsRecord(v)
  BY <1>2 DEF IsRecord
<1> QED
  BY <1>1, <1>2, <1>3 DEF Calmer, Shape

LEMMA SendCalmer ==
  ASSUME NEW N, NEW w, Shape(N, w), NEW s, NEW e, NEW m
  PROVE  Calmer(w, Send(w, s, e, m))
<1>1. Calmer(w, w)
  BY DEF Calmer, Shape
<1>2. PICK x : x = [w.wire EXCEPT ![s][Other(e)] = Append(@, m)]
  OBVIOUS
<1>3. Calmer(w, [w EXCEPT !.wire = x])
  BY WireCalmer
<1>4. [w EXCEPT !.wire[s][Other(e)] = Append(@, m)] = [w EXCEPT !.wire = x]
  BY <1>2
<1> QED
  BY <1>1, <1>3, <1>4 DEF Send

\* The shape of a world that is calmer.
LEMMA CalmerShape ==
  ASSUME NEW N, NEW w, NEW v, Shape(N, w), Calmer(w, v) PROVE Shape(N, v)
<1>1. /\ DOMAIN v.link = Sockets /\ IsRecord(v)
      /\ \A n : Entries(v, n) = Entries(w, n)
  BY DEF Shape, Calmer, Entries
<1> QED
  BY <1>1 DEF Shape, Calmer

\* The state of an end of a socket, and its listeners.
LEMMA EndCalmer ==
  ASSUME NEW N, NEW w, Shape(N, w), NEW s, NEW up, NEW ears, ears \subseteq w.link[s].ears
  PROVE  /\ Calmer(w, [w EXCEPT !.link[s].up = up])
         /\ Calmer(w, [w EXCEPT !.link[s].ears = ears])
         /\ Calmer(w, [w EXCEPT !.link[s].up = up, !.link[s].ears = ears])
<1>1. ASSUME NEW l, DOMAIN l = Sockets,
             \A t \in Sockets : t # s => l[t] = w.link[t],
             s \in Sockets => /\ IsLink(l[s])
                              /\ l[s].client = w.link[s].client
                              /\ l[s].server = w.link[s].server
                              /\ l[s].ears \subseteq w.link[s].ears
      PROVE  Calmer(w, [w EXCEPT !.link = l])
  <2>1. PICK v : v = [w EXCEPT !.link = l]
    OBVIOUS
  <2>2. v = [memory |-> w.memory, network |-> w.network, posted |-> w.posted, link |-> l,
             wire |-> w.wire]
    BY <2>1 DEF Shape, IsRecord
  <2>3. IsRecord(v)
    BY <2>2 DEF IsRecord
  <2>4. ASSUME NEW t \in Sockets
        PROVE  /\ IsLink(l[t])
               /\ l[t].client = w.link[t].client /\ l[t].server = w.link[t].server
               /\ l[t].ears \subseteq w.link[t].ears
    BY <1>1 DEF Shape
  <2> QED
    BY <1>1, <2>1, <2>2, <2>3, <2>4 DEF Calmer, Shape
<1>2. PICK k : k = w.link[s]
  OBVIOUS
<1>3. DOMAIN w.link = Sockets /\ (s \in Sockets => IsLink(k))
  BY <1>2 DEF Shape
<1>4. ASSUME IsLink(k)
      PROVE  /\ [k EXCEPT !.up = up] = [client |-> k.client, server |-> k.server, up |-> up,
                                        ears |-> k.ears, hello |-> k.hello]
             /\ [k EXCEPT !.ears = ears] =
                  [client |-> k.client, server |-> k.server, up |-> k.up, ears |-> ears,
                   hello |-> k.hello]
             /\ [k EXCEPT !.up = up, !.ears = ears] =
                  [client |-> k.client, server |-> k.server, up |-> up, ears |-> ears,
                   hello |-> k.hello]
  <2>1. DOMAIN k = {"client", "server", "up", "ears", "hello"}
    BY <1>4 DEF IsLink
  <2>2. [k EXCEPT !.up = up] = [client |-> k.client, server |-> k.server, up |-> up,
                                ears |-> k.ears, hello |-> k.hello]
    BY <2>1
  <2>3. [k EXCEPT !.ears = ears] = [client |-> k.client, server |-> k.server, up |-> k.up,
                                    ears |-> ears, hello |-> k.hello]
    BY <2>1
  <2>4. [k EXCEPT !.up = up, !.ears = ears] =
          [client |-> k.client, server |-> k.server, up |-> up, ears |-> ears,
           hello |-> k.hello]
    <3>1. PICK j : j = [k EXCEPT !.up = up]
      OBVIOUS
    <3>2. j = [client |-> k.client, server |-> k.server, up |-> up, ears |-> k.ears,
               hello |-> k.hello]
      BY <2>2, <3>1
    <3>3. [j EXCEPT !.ears = ears] = [client |-> k.client, server |-> k.server, up |-> up,
                                      ears |-> ears, hello |-> k.hello]
      BY <3>2
    <3> QED
      BY <3>1, <3>3
  <2> QED
    BY <2>2, <2>3, <2>4
<1>5. Calmer(w, [w EXCEPT !.link[s].up = up])
  <2>1. PICK l : l = [w.link EXCEPT ![s] = [k EXCEPT !.up = up]]
    OBVIOUS
  <2>2. [w EXCEPT !.link[s].up = up] = [w EXCEPT !.link = l]
    BY <1>2, <2>1
  <2>3. s \in Sockets => l[s] = [client |-> k.client, server |-> k.server, up |-> up,
                                 ears |-> k.ears, hello |-> k.hello]
    BY <1>3, <1>4, <2>1
  <2>4. Calmer(w, [w EXCEPT !.link = l])
    BY <1>1, <1>2, <1>3, <2>1, <2>3 DEF IsLink
  <2> QED
    BY <2>2, <2>4
<1>6. Calmer(w, [w EXCEPT !.link[s].ears = ears])
  <2>1. PICK l : l = [w.link EXCEPT ![s] = [k EXCEPT !.ears = ears]]
    OBVIOUS
  <2>2. [w EXCEPT !.link[s].ears = ears] = [w EXCEPT !.link = l]
    BY <1>2, <2>1
  <2>3. s \in Sockets => l[s] = [client |-> k.client, server |-> k.server, up |-> k.up,
                                 ears |-> ears, hello |-> k.hello]
    BY <1>3, <1>4, <2>1
  <2>4. Calmer(w, [w EXCEPT !.link = l])
    BY <1>1, <1>2, <1>3, <2>1, <2>3 DEF IsLink
  <2> QED
    BY <2>2, <2>4
<1>7. Calmer(w, [w EXCEPT !.link[s].up = up, !.link[s].ears = ears])
  <2>1. PICK l : l = [w.link EXCEPT ![s] = [k EXCEPT !.up = up, !.ears = ears]]
    OBVIOUS
  <2>2. [w EXCEPT !.link[s].up = up, !.link[s].ears = ears] = [w EXCEPT !.link = l]
    BY <1>2, <2>1 DEF Shape, IsRecord
  <2>3. s \in Sockets => l[s] = [client |-> k.client, server |-> k.server, up |-> up,
                                 ears |-> ears, hello |-> k.hello]
    BY <1>3, <1>4, <2>1
  <2>4. Calmer(w, [w EXCEPT !.link = l])
    BY <1>1, <1>2, <1>3, <2>1, <2>3 DEF IsLink
  <2> QED
    BY <2>2, <2>4
<1> QED
  BY <1>5, <1>6, <1>7

LEMMA DisconnectCalmer ==
  ASSUME NEW N, NEW w, Shape(N, w), NEW s, NEW e
  PROVE  Calmer(w, Disconnect(w, s, e))
<1>1. PICK v : v = Send(w, s, e, [kind |-> "close"])
  OBVIOUS
<1>2. Calmer(w, v)
  BY <1>1, SendCalmer
<1>3. Shape(N, v)
  BY <1>2, CalmerShape
<1>4. Calmer(v, [v EXCEPT !.link[s].up = @ \ {e}])
  <2>1. PICK x : x = v.link[s].up \ {e}
    OBVIOUS
  <2>2. Calmer(v, [v EXCEPT !.link[s].up = x])
    BY <1>3, EndCalmer
  <2> QED
    BY <2>1, <2>2
<1> QED
  BY <1>1, <1>2, <1>4, CalmerTwice DEF Disconnect

LEMMA HangupCalmer ==
  ASSUME NEW N, NEW w, Shape(N, w), NEW s, NEW e
  PROVE  /\ Calmer(w, Hangup(w, s, e))
         /\ s \in Sockets => e \notin Hangup(w, s, e).link[s].ears
<1>1. PICK x : x = w.link[s].ears \ {e}
  OBVIOUS
<1>2. PICK v : v = [w EXCEPT !.link[s].ears = x]
  OBVIOUS
<1>3. Calmer(w, v)
  BY <1>1, <1>2, EndCalmer
<1>4. Shape(N, v)
  BY <1>3, CalmerShape
<1>5. Calmer(v, Disconnect(v, s, e))
  BY <1>4, DisconnectCalmer
<1>6. Hangup(w, s, e) = Disconnect(v, s, e)
  BY <1>1, <1>2 DEF Hangup
<1>7. s \in Sockets => v.link[s].ears = x
  BY <1>2 DEF Shape, IsRecord, IsLink
<1>8. s \in Sockets => Hangup(w, s, e).link[s].ears \subseteq x
  BY <1>4, <1>5, <1>6, <1>7 DEF Calmer, Shape
<1> QED
  BY <1>1, <1>3, <1>5, <1>6, <1>8, CalmerTwice

\* A message to all.
LEMMA ToAllCalmer ==
  ASSUME NEW N, NEW w, Shape(N, w), NEW n, NEW m PROVE Calmer(w, ToAll(w, n, m))
<1>1. PICK x : x = [s \in DOMAIN w.wire |-> [e \in Ends |->
        IF [s |-> s, e |-> Other(e)] \in Connections(n) /\ Other(e) \in w.link[s].up
        THEN Append(w.wire[s][e], m) ELSE w.wire[s][e]]]
  OBVIOUS
<1>2. ToAll(w, n, m) = [w EXCEPT !.wire = x]
  BY <1>1 DEF ToAll
<1> QED
  BY <1>2, WireCalmer

-----------------------------------------------------------------------------
(* The callbacks that wait.                                                *)

\* The world with other callbacks.
LEMMA CallbacksKeep ==
  ASSUME NEW N, NEW b, NEW w, Consistent(N, b, w), NEW x, DOMAIN x = N,
         \A n \in N : IsSequence(x[n]) /\ \A v \in ToSet(x[n]) : Announced(w, n, v)
  PROVE  Consistent(N, b, [w EXCEPT !.posted = x])
<1>1. PICK v : v = [w EXCEPT !.posted = x]
  OBVIOUS
<1>2. v = [memory |-> w.memory, network |-> w.network, posted |-> x, link |-> w.link,
           wire |-> w.wire]
  BY <1>1 DEF Consistent, Shape, IsRecord
<1>3. IsRecord(v)
  BY <1>2 DEF IsRecord
<1>4. /\ v.memory = w.memory /\ v.network = w.network /\ v.link = w.link /\ v.posted = x
      /\ \A n : Entries(v, n) = Entries(w, n)
      /\ \A s, e : EndOf(v, s, e) = EndOf(w, s, e)
  BY <1>2 DEF Entries, EndOf
<1>5. Shape(N, v)
  BY <1>3, <1>4 DEF Consistent, Shape
<1>6. Posted(N, v)
  BY <1>4 DEF Posted, Announced
<1>7. Agreed(N, v) /\ Silenced(N, b, v)
  BY <1>4 DEF Consistent, Agreed, Silenced, Listed
<1> QED
  BY <1>1, <1>5, <1>6, <1>7 DEF Consistent

LEMMA PostKeeps ==
  ASSUME NEW N, NEW b, NEW w, Consistent(N, b, w), NEW n, NEW v, Announced(w, n, v)
  PROVE  Consistent(N, b, Post(w, n, v))
<1>1. PICK x : x = [w.posted EXCEPT ![n] = Append(@, v)]
  OBVIOUS
<1>2. Post(w, n, v) = [w EXCEPT !.posted = x]
  BY <1>1 DEF Post
<1>3. DOMAIN w.posted = N /\ DOMAIN x = N
  BY <1>1 DEF Consistent, Shape
<1>4. ASSUME NEW m \in N
      PROVE  IsSequence(x[m]) /\ \A u \in ToSet(x[m]) : Announced(w, m, u)
  <2>1. IsSequence(w.posted[m]) /\ \A u \in ToSet(w.posted[m]) : Announced(w, m, u)
    BY DEF Consistent, Shape, Posted
  <2>2. CASE m = n
    <3>1. x[m] = Append(w.posted[m], v)
      BY <1>1, <1>3, <2>2
    <3>2. /\ IsSequence(Append(w.posted[m], v))
          /\ ToSet(Append(w.posted[m], v)) = ToSet(w.posted[m]) \cup {v}
      BY <2>1, AppendAny
    <3> QED
      BY <2>1, <2>2, <3>1, <3>2
  <2>3. CASE m # n
    BY <1>1, <1>3, <2>1, <2>3
  <2> QED
    BY <2>2, <2>3
<1>5. Consistent(N, b, [w EXCEPT !.posted = x])
  BY <1>3, <1>4, CallbacksKeep
<1> QED
  BY <1>2, <1>5

LEMMA CalledKeeps ==
  ASSUME NEW N, NEW b, NEW w, Consistent(N, b, w), NEW n \in N, w.posted[n] # <<>>
  PROVE  /\ Consistent(N, b, [w EXCEPT !.posted[n] = Tail(@)])
         /\ Announced(w, n, Head(w.posted[n]))
<1>1. PICK x : x = [w.posted EXCEPT ![n] = Tail(@)]
  OBVIOUS
<1>2. [w EXCEPT !.posted[n] = Tail(@)] = [w EXCEPT !.posted = x]
  BY <1>1
<1>3. DOMAIN w.posted = N /\ DOMAIN x = N
  BY <1>1 DEF Consistent, Shape
<1>4. ASSUME NEW m \in N
      PROVE  IsSequence(w.posted[m]) /\ \A u \in ToSet(w.posted[m]) : Announced(w, m, u)
  BY DEF Consistent, Shape, Posted
<1>5. /\ IsSequence(Tail(w.posted[n]))
      /\ ToSet(w.posted[n]) = {Head(w.posted[n])} \cup ToSet(Tail(w.posted[n]))
  BY <1>4, TailAny
<1>6. ASSUME NEW m \in N
      PROVE  IsSequence(x[m]) /\ \A u \in ToSet(x[m]) : Announced(w, m, u)
  <2>1. CASE m = n
    <3>1. x[m] = Tail(w.posted[n])
      BY <1>1, <1>3, <2>1
    <3> QED
      BY <1>4, <1>5, <2>1, <3>1
  <2>2. CASE m # n
    BY <1>1, <1>3, <1>4, <2>2
  <2> QED
    BY <2>1, <2>2
<1>7. Consistent(N, b, [w EXCEPT !.posted = x])
  BY <1>3, <1>6, CallbacksKeep
<1> QED
  BY <1>2, <1>4, <1>5, <1>7

-----------------------------------------------------------------------------
(* The repositories.                                                       *)

LEMMA WithoutDomain ==
  ASSUME NEW f, NEW p
  PROVE  /\ DOMAIN Without(f, p) = DOMAIN f \ {p}
         /\ \A q \in DOMAIN f \ {p} : Without(f, p)[q] = f[q]
  BY DEF Without

\* v is w without the peer p of n: not agreed as long as its listeners stay.
Left(N, b, w, n, p, v) ==
  /\ Shape(N, v) /\ Posted(N, v) /\ Silenced(N, b, v)
  /\ v.link = w.link /\ v.posted = w.posted /\ v.wire = w.wire
  /\ \A m \in N : DOMAIN v.memory[m] = Entries(v, m)
  /\ \A m \in N : Entries(v, m) = IF m = n THEN Entries(w, m) \ {p} ELSE Entries(w, m)
  /\ \A m \in N : \A q \in Entries(v, m) : v.network[m][q] = w.network[m][q]

LEMMA LeftShape ==
  ASSUME NEW N, NEW b, NEW w, Consistent(N, b, w), NEW n \in N, NEW p,
         NEW v, v = [w EXCEPT !.memory[n] = Without(@, p), !.network[n] = Without(@, p)]
  PROVE  Left(N, b, w, n, p, v)
<1>1. PICK k, l : /\ k = [w.memory EXCEPT ![n] = Without(@, p)]
                  /\ l = [w.network EXCEPT ![n] = Without(@, p)]
  OBVIOUS
<1>2. PICK u : u = [w EXCEPT !.memory[n] = Without(@, p)]
  OBVIOUS
<1>3. u = [memory |-> k, network |-> w.network, posted |-> w.posted, link |-> w.link,
           wire |-> w.wire]
  BY <1>1, <1>2 DEF Consistent, Shape, IsRecord
<1>4. v = [memory |-> k, network |-> l, posted |-> w.posted, link |-> w.link,
           wire |-> w.wire]
  BY <1>1, <1>2, <1>3
<1>5. IsRecord(v) /\ v.link = w.link /\ v.posted = w.posted /\ v.wire = w.wire
  BY <1>4 DEF IsRecord
<1>6. DOMAIN w.memory = N /\ DOMAIN w.network = N
  BY DEF Consistent, Shape
<1>7. /\ DOMAIN v.memory = N /\ DOMAIN v.network = N
      /\ \A m \in N : /\ v.memory[m] = IF m = n THEN Without(w.memory[n], p) ELSE w.memory[m]
                      /\ v.network[m] = IF m = n THEN Without(w.network[n], p) ELSE w.network[m]
  BY <1>1, <1>4, <1>6
<1>8. \A m \in N : /\ Entries(v, m) = IF m = n THEN Entries(w, m) \ {p} ELSE Entries(w, m)
                   /\ DOMAIN v.memory[m] = IF m = n THEN DOMAIN w.memory[m] \ {p}
                                           ELSE DOMAIN w.memory[m]
  <2> TAKE m \in N
  <2>1. CASE m = n
    <3>1. v.memory[m] = Without(w.memory[n], p) /\ v.network[m] = Without(w.network[n], p)
      BY <1>7, <2>1
    <3>2. /\ DOMAIN Without(w.memory[n], p) = DOMAIN w.memory[n] \ {p}
          /\ DOMAIN Without(w.network[n], p) = DOMAIN w.network[n] \ {p}
      BY WithoutDomain
    <3> QED
      BY <2>1, <3>1, <3>2 DEF Entries
  <2>2. CASE m # n
    BY <1>7, <2>2 DEF Entries
  <2> QED
    BY <2>1, <2>2
<1>9. \A m \in N : \A q \in Entries(v, m) : v.network[m][q] = w.network[m][q]
  <2> TAKE m \in N
  <2>1. CASE m = n
    <3>1. v.network[m] = Without(w.network[n], p)
      BY <1>7, <2>1
    <3>2. \A q \in DOMAIN w.network[n] \ {p} : Without(w.network[n], p)[q] = w.network[n][q]
      BY WithoutDomain
    <3>3. Entries(v, m) = DOMAIN w.network[n] \ {p}
      BY <1>8, <2>1 DEF Entries
    <3> QED
      BY <2>1, <3>1, <3>2, <3>3
  <2>2. CASE m # n
    BY <1>7, <2>2
  <2> QED
    BY <2>1, <2>2
<1>10. \A m \in N : DOMAIN v.memory[m] = Entries(v, m)
  BY <1>8 DEF Consistent, Agreed
<1>11. \A m \in N : Entries(v, m) \subseteq Entries(w, m)
  <2> TAKE m \in N
  <2>1. CASE m = n
    <3>1. Entries(v, m) = Entries(w, m) \ {p}
      BY <1>8, <2>1
    <3> QED
      BY <3>1
  <2>2. CASE m # n
    BY <1>8, <2>2
  <2> QED
    BY <2>1, <2>2
<1>12. Shape(N, v)
  BY <1>5, <1>7, <1>9, <1>11 DEF Consistent, Shape
<1>13. Posted(N, v)
  <2>1. \A s, e : EndOf(v, s, e) = EndOf(w, s, e)
    BY <1>5 DEF EndOf
  <2> QED
    BY <1>5, <2>1 DEF Consistent, Posted, Announced
<1>14. Silenced(N, b, v)
  BY <1>9, <1>11 DEF Consistent, Silenced
<1> QED
  BY <1>5, <1>8, <1>9, <1>10, <1>12, <1>13, <1>14 DEF Left

\* A peer is removed with its listeners.
Gone(N, b, w, n, p, d) ==
  /\ Consistent(N, b, d) /\ p \notin Entries(d, n)
  /\ \A s \in Sockets, e \in Ends : EndOf(d, s, e) = EndOf(w, s, e)

LEMMA DiscardKeeps ==
  ASSUME NEW N, NEW b, NEW w, Consistent(N, b, w), NEW n \in N, NEW p, NEW check
  PROVE  Gone(N, b, w, n, p, Discard(w, n, p, check))
<1> DEFINE left == [w EXCEPT !.memory[n] = Without(@, p), !.network[n] = Without(@, p)]
           closed == IF p \notin DOMAIN w.network[n] THEN left
                     ELSE Hangup(left, w.network[n][p].s, w.network[n][p].e)
           asks == [kind |-> "EMIT_REQUEST_PEERS"]
<1>1. \/ Discard(w, n, p, check) = closed
      \/ Discard(w, n, p, check) = Post(closed, n, asks)
  BY DEF Discard
<1>0. PICK v : v = left
  OBVIOUS
<1> HIDE DEF left
<1>2. PICK u : u = closed
  OBVIOUS
<1>3. u = IF p \notin DOMAIN w.network[n] THEN v
          ELSE Hangup(v, w.network[n][p].s, w.network[n][p].e)
  BY <1>0, <1>2
<1>4. /\ Shape(N, v) /\ Posted(N, v) /\ Silenced(N, b, v)
      /\ v.link = w.link /\ v.posted = w.posted
      /\ \A m \in N : DOMAIN v.memory[m] = Entries(v, m)
      /\ \A m \in N : Entries(v, m) = IF m = n THEN Entries(w, m) \ {p} ELSE Entries(w, m)
      /\ \A m \in N : \A q \in Entries(v, m) : v.network[m][q] = w.network[m][q]
  <2>1. v = [w EXCEPT !.memory[n] = Without(@, p), !.network[n] = Without(@, p)]
    BY <1>0 DEF left
  <2>2. Left(N, b, w, n, p, v)
    BY <2>1, LeftShape
  <2> QED
    BY <2>2 DEF Left
<1> HIDE DEF closed
<1>5. Calmer(v, v)
  BY <1>4 DEF Calmer, Shape
<1>6. /\ Calmer(v, u)
      /\ p \in Entries(w, n) /\ w.network[n][p].s \in Sockets
           => w.network[n][p].e \notin u.link[w.network[n][p].s].ears
  BY <1>3, <1>4, <1>5, HangupCalmer DEF Entries
<1>7. Shape(N, u)
  BY <1>4, <1>6, CalmerShape
<1>8. /\ u.memory = v.memory /\ u.network = v.network /\ u.posted = v.posted
      /\ \A m : Entries(u, m) = Entries(v, m)
      /\ \A s \in Sockets : /\ u.link[s].client = w.link[s].client
                            /\ u.link[s].server = w.link[s].server
                            /\ u.link[s].ears \subseteq w.link[s].ears
      /\ \A s \in Sockets : \A e : EndOf(u, s, e) = EndOf(w, s, e) /\ EndOf(v, s, e) = EndOf(w, s, e)
  BY <1>4, <1>6 DEF Calmer, Shape, Entries, EndOf
<1>9. Posted(N, u)
  BY <1>4, <1>8 DEF Posted, Announced
<1>10. Silenced(N, b, u)
  BY <1>4, <1>8 DEF Silenced
<1>11. ASSUME NEW s \in Sockets, NEW e \in Ends \cap u.link[s].ears, EndOf(u, s, e) \in N
       PROVE  Listed(u, EndOf(u, s, e), EndOf(u, s, Other(e)), s, e)
  <2>1. PICK m, q : m = EndOf(w, s, e) /\ q = EndOf(w, s, Other(e))
    OBVIOUS
  <2>2. m \in N /\ Listed(w, m, q, s, e)
    BY <1>8, <1>11, <2>1 DEF Consistent, Agreed
  <2>3. CASE m = n /\ q = p
    <3>1. p \in Entries(w, n) /\ w.network[n][p].s = s /\ w.network[n][p].e = e
      BY <2>2, <2>3 DEF Listed
    <3> QED
      BY <1>6, <3>1
  <2>4. CASE ~(m = n /\ q = p)
    <3>1. q \in Entries(v, m)
      BY <1>4, <2>2, <2>4 DEF Listed
    <3>2. Listed(u, m, q, s, e)
      BY <1>4, <1>8, <2>2, <3>1 DEF Listed
    <3> QED
      BY <1>8, <2>1, <3>2
  <2> QED
    BY <2>3, <2>4
<1>12. Consistent(N, b, u)
  BY <1>4, <1>7, <1>8, <1>9, <1>10, <1>11 DEF Consistent, Agreed
<1>13. p \notin Entries(u, n)
  BY <1>4, <1>8
<1>14. Consistent(N, b, Post(u, n, asks))
  <2>1. Announced(u, n, asks)
    BY DEF Announced
  <2> QED
    BY <1>12, <2>1, PostKeeps
<1>15. Post(u, n, asks).network = u.network /\ Post(u, n, asks).link = u.link
  BY <1>7 DEF Post, Shape, IsRecord
<1>16. Discard(w, n, p, check) = u \/ Discard(w, n, p, check) = Post(u, n, asks)
  BY <1>1, <1>2
<1> HIDE DEF asks
<1>17. /\ Entries(Post(u, n, asks), n) = Entries(u, n)
       /\ \A s, e : EndOf(Post(u, n, asks), s, e) = EndOf(u, s, e)
  BY <1>15 DEF Entries, EndOf
<1> QED
  BY <1>8, <1>12, <1>13, <1>14, <1>16, <1>17 DEF Gone

\* v is w with the socket s as the connection that n has with p.
EnteredAs(N, w, n, p, s, e, v) ==
  /\ IsRecord(v) /\ v.posted = w.posted /\ v.wire = w.wire
  /\ DOMAIN v.link = Sockets
  /\ \A t \in Sockets : t # s => v.link[t] = w.link[t]
  /\ v.link[s].client = w.link[s].client /\ v.link[s].server = w.link[s].server
  /\ v.link[s].up = w.link[s].up /\ v.link[s].ears = w.link[s].ears \cup {e}
  /\ \A m \in N : \A q \in Entries(v, m) :
       \/ m = n /\ q = p /\ v.network[m][q].s = s /\ v.network[m][q].e = e
       \/ q \in Entries(w, m) /\ v.network[m][q] = w.network[m][q]

\* A peer is added, with a listener of its own.
LEMMA EnterKeeps ==
  ASSUME NEW N, NEW b, NEW w, Consistent(N, b, w), b = banned, NEW n \in N, NEW p,
         p \notin Entries(w, n), NEW s \in Sockets, NEW e \in Ends,
         EndOf(w, s, e) = n, EndOf(w, s, Other(e)) = p, NEW head
  PROVE  /\ Consistent(N, b, Enter(w, n, p, s, e, head))
         /\ EnteredAs(N, w, n, p, s, e, Enter(w, n, p, s, e, head))
<1>1. PICK x : x = [s |-> s, e |-> e, flag |-> p \in banned[n]]
  OBVIOUS
<1>2. x.s = s /\ x.e = e /\ (p \in b[n] => x.flag) /\ IsEntry(x)
  <2>1. x.s = s /\ x.e = e
    BY <1>1
  <2>2. IsEntry(x)
    BY <1>1 DEF IsEntry
  <2>3. x.flag = (p \in banned[n])
    BY <1>1
  <2>4. p \in b[n] => x.flag
    BY <2>3, Zenon
  <2> QED
    BY <2>1, <2>2, <2>4
<1>3. PICK k, l, j : /\ k = [w.memory EXCEPT ![n] = With(@, p, head)]
                     /\ l = [w.network EXCEPT ![n] = With(@, p, x)]
                     /\ j = [w.link EXCEPT ![s].ears = @ \cup {e}]
  OBVIOUS
<1>4. PICK v : v = Enter(w, n, p, s, e, head)
  OBVIOUS
<1>5. v = [memory |-> k, network |-> l, posted |-> w.posted, link |-> j, wire |-> w.wire]
  <2>1. PICK u : u = [w EXCEPT !.memory[n] = With(@, p, head)]
    OBVIOUS
  <2>2. u = [memory |-> k, network |-> w.network, posted |-> w.posted, link |-> w.link,
             wire |-> w.wire]
    BY <1>3, <2>1 DEF Consistent, Shape, IsRecord
  <2>3. PICK t : t = [u EXCEPT !.network[n] = With(@, p, x)]
    OBVIOUS
  <2>4. t = [memory |-> k, network |-> l, posted |-> w.posted, link |-> w.link,
             wire |-> w.wire]
    BY <1>3, <2>2, <2>3
  <2>5. v = [t EXCEPT !.link[s].ears = @ \cup {e}]
    BY <1>1, <1>4, <2>1, <2>3 DEF Enter
  <2> QED
    BY <1>3, <2>4, <2>5
<1>6. /\ v.memory = k /\ v.network = l /\ v.posted = w.posted /\ v.link = j /\ IsRecord(v)
  BY <1>5 DEF IsRecord
<1>7. /\ DOMAIN w.memory = N /\ DOMAIN w.network = N /\ DOMAIN w.link = Sockets
      /\ \A t \in Sockets : IsLink(w.link[t])
  BY DEF Consistent, Shape
<1>8. /\ DOMAIN j = Sockets
      /\ \A t \in Sockets :
           /\ IsLink(j[t])
           /\ j[t].client = w.link[t].client /\ j[t].server = w.link[t].server
           /\ j[t].up = w.link[t].up /\ (t # s => j[t] = w.link[t])
           /\ j[t].ears = IF t = s THEN w.link[t].ears \cup {e} ELSE w.link[t].ears
  <2>1. PICK y, z : y = w.link[s] /\ z = [y EXCEPT !.ears = @ \cup {e}]
    OBVIOUS
  <2>2. DOMAIN y = {"client", "server", "up", "ears", "hello"}
    BY <1>7, <2>1 DEF IsLink
  <2>3. z = [client |-> y.client, server |-> y.server, up |-> y.up, ears |-> y.ears \cup {e},
             hello |-> y.hello]
    BY <2>1, <2>2
  <2>4. j = [w.link EXCEPT ![s] = z]
    BY <1>3, <2>1
  <2>5. DOMAIN j = Sockets /\ \A t \in Sockets : j[t] = IF t = s THEN z ELSE w.link[t]
    BY <1>7, <2>4
  <2>6. /\ IsLink(z) /\ z.client = y.client /\ z.server = y.server /\ z.up = y.up
        /\ z.ears = y.ears \cup {e}
    BY <2>3 DEF IsLink
  <2>7. ASSUME NEW t \in Sockets
        PROVE  /\ IsLink(j[t])
               /\ j[t].client = w.link[t].client /\ j[t].server = w.link[t].server
               /\ j[t].up = w.link[t].up /\ (t # s => j[t] = w.link[t])
               /\ j[t].ears = IF t = s THEN w.link[t].ears \cup {e} ELSE w.link[t].ears
    <3>1. CASE t = s
      BY <2>1, <2>5, <2>6, <3>1
    <3>2. CASE t # s
      BY <1>7, <2>5, <3>2
    <3> QED
      BY <3>1, <3>2
  <2> QED
    BY <2>5, <2>7
<1>9. \A t \in Sockets : \A o : EndOf(v, t, o) = EndOf(w, t, o)
  BY <1>6, <1>8 DEF EndOf
<1>10. /\ DOMAIN k = N /\ DOMAIN l = N
       /\ \A m \in N : m # n => k[m] = w.memory[m] /\ l[m] = w.network[m]
       /\ k[n] = With(w.memory[n], p, head) /\ l[n] = With(w.network[n], p, x)
  BY <1>3, <1>7
<1>11. /\ DOMAIN k[n] = DOMAIN w.memory[n] \cup {p}
       /\ DOMAIN l[n] = DOMAIN w.network[n] \cup {p}
       /\ \A q \in DOMAIN l[n] : l[n][q] = IF q = p THEN x ELSE w.network[n][q]
  <2>1. PICK y, z : y = w.memory[n] /\ z = w.network[n]
    OBVIOUS
  <2>2. DOMAIN With(y, p, head) = DOMAIN y \cup {p}
    BY DEF With
  <2>3. /\ DOMAIN With(z, p, x) = DOMAIN z \cup {p}
        /\ \A q \in DOMAIN z \cup {p} : With(z, p, x)[q] = IF q = p THEN x ELSE z[q]
    BY DEF With
  <2>4. k[n] = With(y, p, head) /\ l[n] = With(z, p, x)
    BY <1>10, <2>1
  <2> QED
    BY <2>1, <2>2, <2>3, <2>4
<1>12. ASSUME NEW m \in N
       PROVE  /\ DOMAIN v.memory[m] = Entries(v, m)
              /\ Entries(w, m) \subseteq Entries(v, m)
              /\ \A q \in Entries(v, m) :
                   \/ m = n /\ q = p /\ v.network[m][q] = x
                   \/ /\ ~(m = n /\ q = p) /\ q \in Entries(w, m)
                      /\ v.network[m][q] = w.network[m][q]
  <2>1. DOMAIN w.memory[m] = DOMAIN w.network[m]
    BY DEF Consistent, Agreed, Entries
  <2>2. CASE m = n
    BY <1>6, <1>11, <2>1, <2>2, SMTT(20) DEF Entries
  <2>3. CASE m # n
    BY <1>6, <1>10, <2>1, <2>3 DEF Entries
  <2> QED
    BY <2>2, <2>3
<1>13. Shape(N, v)
  <2>1. \A m \in N : \A q \in Entries(v, m) : IsEntry(v.network[m][q])
    BY <1>2, <1>12 DEF Consistent, Shape
  <2> QED
    BY <1>6, <1>8, <1>10, <2>1 DEF Consistent, Shape
<1>14. Posted(N, v)
  BY <1>6, <1>9 DEF Consistent, Posted, Announced
<1>15. Silenced(N, b, v)
  <2> SUFFICES ASSUME NEW m \in N, NEW q \in b[m] \cap Entries(v, m)
               PROVE  v.network[m][q].flag
    BY DEF Silenced
  <2>1. CASE m = n /\ q = p
    BY <1>2, <1>12, <2>1, Zenon
  <2>2. CASE ~(m = n /\ q = p)
    <3>1. q \in b[m] \cap Entries(w, m) /\ v.network[m][q] = w.network[m][q]
      BY <1>12, <2>2
    <3>2. w.network[m][q].flag
      BY <3>1 DEF Consistent, Silenced
    <3> QED
      BY <3>1, <3>2
  <2> QED
    BY <2>1, <2>2
<1>16. Agreed(N, v)
  <2>1. ASSUME NEW t \in Sockets, NEW o \in Ends \cap v.link[t].ears, EndOf(v, t, o) \in N
        PROVE  Listed(v, EndOf(v, t, o), EndOf(v, t, Other(o)), t, o)
    <3>1. PICK m, q : m = EndOf(w, t, o) /\ q = EndOf(w, t, Other(o))
      OBVIOUS
    <3>2. CASE t = s /\ o = e
      <4>1. m = n /\ q = p
        BY <3>1, <3>2
      <4>2. p \in Entries(v, n) /\ v.network[n][p] = x
        BY <1>6, <1>11 DEF Entries
      <4>3. Listed(v, n, p, t, o)
        BY <1>2, <3>2, <4>2 DEF Listed
      <4> QED
        BY <1>9, <3>1, <4>1, <4>3
    <3>3. CASE ~(t = s /\ o = e)
      <4>1. o \in Ends \cap w.link[t].ears
        <5>1. v.link[t].ears = IF t = s THEN w.link[t].ears \cup {e} ELSE w.link[t].ears
          BY <1>6, <1>8
        <5> QED
          BY <2>1, <3>3, <5>1
      <4>2. m \in N /\ Listed(w, m, q, t, o)
        BY <1>9, <2>1, <3>1, <4>1 DEF Consistent, Agreed
      <4>3. ~(m = n /\ q = p)
        BY <4>2 DEF Listed
      <4>4. q \in Entries(w, m) /\ q \in Entries(v, m) /\ v.network[m][q] = w.network[m][q]
        BY <1>12, <4>2, <4>3 DEF Listed
      <4>5. Listed(v, m, q, t, o)
        BY <4>2, <4>4 DEF Listed
      <4> QED
        BY <1>9, <3>1, <4>5
    <3> QED
      BY <3>2, <3>3
  <2> QED
    BY <1>12, <2>1 DEF Agreed
<1>17. EnteredAs(N, w, n, p, s, e, v)
  <2>1. v.wire = w.wire
    BY <1>5
  <2>2. \A m \in N : \A q \in Entries(v, m) :
          \/ m = n /\ q = p /\ v.network[m][q].s = s /\ v.network[m][q].e = e
          \/ q \in Entries(w, m) /\ v.network[m][q] = w.network[m][q]
    BY <1>2, <1>12
  <2> QED
    BY <1>6, <1>8, <2>1, <2>2 DEF EnteredAs
<1> QED
  BY <1>4, <1>13, <1>14, <1>15, <1>16, <1>17 DEF Consistent

\* New sockets, where there was none.
LEMMA ConnectKeeps ==
  ASSUME NEW N, NEW b, NEW w, Consistent(N, b, w), NEW n, NEW peers, NEW with,
         \A p \in peers : \A e \in Ends : EndOf(w, with[p], e) \notin N
  PROVE  Consistent(N, b, ConnectPeers(w, n, peers, with))
<1>1. PICK j, x : /\ j = [s \in DOMAIN w.link |->
                            IF s \notin {with[p] : p \in peers} THEN w.link[s]
                            ELSE Opened(n, CHOOSE p \in peers : with[p] = s)]
                  /\ x = [s \in DOMAIN w.wire |->
                            IF s \notin {with[p] : p \in peers} THEN w.wire[s]
                            ELSE [w.wire[s] EXCEPT !["server"] = <<[kind |-> "connect"]>>]]
  OBVIOUS
<1>2. PICK u : u = [w EXCEPT !.link = j]
  OBVIOUS
<1>3. PICK v : v = [u EXCEPT !.wire = x]
  OBVIOUS
<1>4. u = [memory |-> w.memory, network |-> w.network, posted |-> w.posted, link |-> j,
           wire |-> w.wire]
  BY <1>2 DEF Consistent, Shape, IsRecord
<1>5. v = [memory |-> w.memory, network |-> w.network, posted |-> w.posted, link |-> j,
           wire |-> x]
  BY <1>3, <1>4
<1>6. ConnectPeers(w, n, peers, with) = v
  <2>1. u.wire = w.wire
    BY <1>4
  <2>2. ConnectPeers(w, n, peers, with) = [[w EXCEPT !.link = j] EXCEPT !.wire = x]
    BY <1>1, <1>2, <2>1 DEF ConnectPeers
  <2> QED
    BY <1>2, <1>3, <2>2
<1>7. /\ v.memory = w.memory /\ v.network = w.network /\ v.posted = w.posted /\ v.link = j
      /\ IsRecord(v)
  BY <1>5 DEF IsRecord
<1>8. /\ DOMAIN j = Sockets /\ DOMAIN w.link = Sockets
      /\ \A s \in Sockets : s \notin {with[p] : p \in peers} => j[s] = w.link[s]
      /\ \A s \in Sockets : s \in {with[p] : p \in peers} => IsLink(j[s]) /\ j[s].ears = {}
  <2>1. DOMAIN w.link = Sockets
    BY DEF Consistent, Shape
  <2> QED
    BY <1>1, <2>1 DEF IsLink, Opened
<1>9. \A m : Entries(v, m) = Entries(w, m)
  BY <1>7 DEF Entries
<1>10. \A s \in Sockets : IsLink(j[s])
  BY <1>8 DEF Consistent, Shape
<1>11. Shape(N, v)
  BY <1>7, <1>8, <1>9, <1>10 DEF Consistent, Shape
<1>12. \A s \in Sockets, e \in Ends :
         \/ s \in {with[p] : p \in peers} /\ EndOf(w, s, e) \notin N
         \/ /\ s \notin {with[p] : p \in peers}
            /\ \A o : EndOf(v, s, o) = EndOf(w, s, o)
  BY <1>7, <1>8 DEF EndOf
<1>13. Posted(N, v)
  <2> SUFFICES ASSUME NEW m \in N, NEW y \in ToSet(w.posted[m]), y.kind = "HEADERS_RECEIVE"
               PROVE  /\ y.s \in Sockets /\ y.e \in Ends
                      /\ EndOf(v, y.s, y.e) = m /\ EndOf(v, y.s, Other(y.e)) = y.peer
    BY <1>7 DEF Posted, Announced
  <2>1. /\ y.s \in Sockets /\ y.e \in Ends
        /\ EndOf(w, y.s, y.e) = m /\ EndOf(w, y.s, Other(y.e)) = y.peer
    BY DEF Consistent, Posted, Announced
  <2> QED
    BY <1>12, <2>1
<1>14. Silenced(N, b, v)
  BY <1>7, <1>9 DEF Consistent, Silenced
<1>15. Agreed(N, v)
  <2>1. ASSUME NEW s \in Sockets, NEW e \in Ends \cap v.link[s].ears, EndOf(v, s, e) \in N
        PROVE  Listed(v, EndOf(v, s, e), EndOf(v, s, Other(e)), s, e)
    <3>1. s \notin {with[p] : p \in peers}
      BY <1>7, <1>8
    <3>2. \A o : EndOf(v, s, o) = EndOf(w, s, o)
      BY <1>12, <3>1
    <3>3. e \in Ends \cap w.link[s].ears
      BY <1>7, <1>8, <3>1
    <3>4. Listed(w, EndOf(w, s, e), EndOf(w, s, Other(e)), s, e)
      BY <2>1, <3>2, <3>3 DEF Consistent, Agreed
    <3> QED
      BY <1>7, <1>9, <3>2, <3>4 DEF Listed
  <2>2. \A m \in N : DOMAIN v.memory[m] = Entries(v, m)
    BY <1>7, <1>9 DEF Consistent, Agreed
  <2> QED
    BY <2>1, <2>2 DEF Agreed
<1> QED
  BY <1>6, <1>11, <1>13, <1>14, <1>15 DEF Consistent

-----------------------------------------------------------------------------
(* From a world to the next state.                                         *)

PlanKept == "plan" \in DOMAIN count' /\ plan' = plan

LEMMA CountedKeepsPlan ==
  ASSUME PlanInv, NEW what, what # "plan", Counted(what) PROVE PlanKept
<1>1. count' = [count EXCEPT ![what] = @ + 1]
  BY DEF Counted
<1> QED
  BY <1>1 DEF PlanKept, PlanInv, plan

LEMMA SameNodes ==
  ASSUME PlanInv, PlanKept PROVE Nodes' = Nodes /\ plan' \in Plans
  BY DEF PlanKept, PlanInv, Nodes, Trusted

LEMMA NoNameIsNoNode ==
  ASSUME PlanInv PROVE "" \notin Nodes
  BY PlansAssumption DEF PlanInv, Nodes, Trusted

LEMMA BecomeKeeps ==
  ASSUME IInv, NEW w, Consistent(Nodes, banned, w), Become(w), UNCHANGED banned, PlanKept
  PROVE  IInv'
<1>1. PICK N, b : N = Nodes /\ b = banned
  OBVIOUS
<1>2. Consistent(N, b, w) /\ IsRecord(w)
  BY <1>1 DEF Consistent, Shape
<1>3. World' = w
  BY <1>2 DEF Become, World, IsRecord
<1>4. Nodes' = N /\ banned' = b /\ plan' \in Plans
  BY <1>1, SameNodes DEF IInv
<1>5. Consistent(Nodes', banned', World')
  BY <1>2, <1>3, <1>4
<1>6. PlanInv'
  BY <1>1, <1>4 DEF IInv, PlanInv, PlanKept
<1> QED
  BY <1>5, <1>6 DEF IInv

LEMMA CountKept ==
  ASSUME PlanInv, UNCHANGED count PROVE PlanKept
  BY DEF PlanKept, PlanInv, plan

LEMMA WorldEnds ==
  ASSUME NEW s, NEW e PROVE EndOf(World, s, e) = At(s, e)
  BY DEF EndOf, At, World

LEMMA ReceivedKeeps ==
  ASSUME IInv, NEW s, NEW e
  PROVE  /\ Calmer(World, Received(s, e))
         /\ Consistent(Nodes, banned, Received(s, e))
<1>1. PICK w, x : w = World /\ x = [w.wire EXCEPT ![s][e] = Tail(@)]
  OBVIOUS
<1>2. Consistent(Nodes, banned, w)
  BY <1>1 DEF IInv
<1>3. Received(s, e) = [w EXCEPT !.wire = x]
  BY <1>1 DEF Received
<1>4. Shape(Nodes, w)
  BY <1>2 DEF Consistent
<1>5. Calmer(w, [w EXCEPT !.wire = x])
  BY <1>4, WireCalmer
<1>6. Consistent(Nodes, banned, [w EXCEPT !.wire = x])
  BY <1>2, <1>5, CalmerKeeps
<1> QED
  BY <1>1, <1>3, <1>5, <1>6

LEMMA CalledKeepsWorld ==
  ASSUME IInv, NEW n \in Nodes, posted[n] # <<>>
  PROVE  /\ Consistent(Nodes, banned, Called(n))
         /\ Announced(World, n, Event(n))
         /\ Called(n).link = link /\ Called(n).memory = memory
         /\ Called(n).network = network
<1>1. PICK w : w = World
  OBVIOUS
<1>2. Consistent(Nodes, banned, w)
  BY <1>1 DEF IInv
<1>3. w.posted = posted
  BY <1>1 DEF World
<1>4. Called(n) = [w EXCEPT !.posted[n] = Tail(@)]
  BY <1>1 DEF Called
<1>5. Event(n) = Head(w.posted[n])
  BY <1>3 DEF Event
<1>6. /\ Consistent(Nodes, banned, [w EXCEPT !.posted[n] = Tail(@)])
      /\ Announced(w, n, Head(w.posted[n]))
  BY <1>2, <1>3, CalledKeeps
<1>7. Called(n).link = link /\ Called(n).memory = memory /\ Called(n).network = network
  BY DEF Called, World
<1> QED
  BY <1>1, <1>4, <1>5, <1>6, <1>7

-----------------------------------------------------------------------------
(* Messages that arrive.                                                   *)

\* The end of a socket is connected.
LEMMA UpKeeps ==
  ASSUME NEW N, NEW b, NEW w, Consistent(N, b, w), NEW s, NEW e
  PROVE  Consistent(N, b, [w EXCEPT !.link[s].up = @ \cup {e}])
<1>1. PICK x : x = w.link[s].up \cup {e}
  OBVIOUS
<1>2. Calmer(w, [w EXCEPT !.link[s].up = x])
  BY EndCalmer DEF Consistent
<1>3. [w EXCEPT !.link[s].up = @ \cup {e}] = [w EXCEPT !.link[s].up = x]
  BY <1>1
<1> QED
  BY <1>2, <1>3, CalmerKeeps

LEMMA SendKeeps ==
  ASSUME NEW N, NEW b, NEW w, Consistent(N, b, w), NEW s, NEW e, NEW m
  PROVE  Consistent(N, b, Send(w, s, e, m))
<1>1. Calmer(w, Send(w, s, e, m))
  BY SendCalmer DEF Consistent
<1> QED
  BY <1>1, CalmerKeeps

LEMMA DisconnectKeeps ==
  ASSUME NEW N, NEW b, NEW w, Consistent(N, b, w), NEW s, NEW e
  PROVE  Consistent(N, b, Disconnect(w, s, e))
<1>1. Calmer(w, Disconnect(w, s, e))
  BY DisconnectCalmer DEF Consistent
<1> QED
  BY <1>1, CalmerKeeps

LEMMA ServerConnectKeeps ==
  ASSUME IInv, NEW s, ServerConnect(s) PROVE IInv'
<1>1. PICK r, u, t : /\ r = Received(s, "server")
                     /\ u = [r EXCEPT !.link[s].up = @ \cup {"server"}]
                     /\ t = Send(u, s, "server", [kind |-> "connect"])
  OBVIOUS
<1>2. Consistent(Nodes, banned, r)
  BY <1>1, ReceivedKeeps
<1>3. Consistent(Nodes, banned, u)
  BY <1>1, <1>2, UpKeeps
<1>4. Consistent(Nodes, banned, t)
  BY <1>1, <1>3, SendKeeps
<1>5. Consistent(Nodes, banned, Disconnect(t, s, "server"))
  BY <1>4, DisconnectKeeps
<1>6. Become(t) \/ Become(Disconnect(t, s, "server"))
  BY <1>1 DEF ServerConnect
<1>7. UNCHANGED banned /\ PlanKept
  BY CountKept DEF ServerConnect, IInv
<1> QED
  BY <1>4, <1>5, <1>6, <1>7, BecomeKeeps

LEMMA ClientConnectKeeps ==
  ASSUME IInv, NEW s, ClientConnect(s) PROVE IInv'
<1>1. PICK r, u, t : /\ r = Received(s, "client")
                     /\ u = [r EXCEPT !.link[s].up = @ \cup {"client"}]
                     /\ t = Send(u, s, "client", [kind |-> "headers", head |-> link[s].hello])
  OBVIOUS
<1>2. Consistent(Nodes, banned, r)
  BY <1>1, ReceivedKeeps
<1>3. Consistent(Nodes, banned, u)
  BY <1>1, <1>2, UpKeeps
<1>4. Consistent(Nodes, banned, t)
  BY <1>1, <1>3, SendKeeps
<1>5. Become(t)
  BY <1>1 DEF ClientConnect
<1>6. UNCHANGED banned /\ PlanKept
  BY CountKept DEF ClientConnect, IInv
<1> QED
  BY <1>4, <1>5, <1>6, BecomeKeeps

\* An event about the peer at the other end.
LEMMA HeadersArriveKeeps ==
  ASSUME IInv, NEW s \in Sockets, NEW e \in Ends, HeadersArrive(s, e) PROVE IInv'
<1>1. PICK r, v : /\ r = Received(s, e)
                  /\ v = [kind |-> "HEADERS_RECEIVE", peer |-> At(s, Other(e)), s |-> s, e |-> e,
                          head |-> Head(wire[s][e]).head]
  OBVIOUS
<1>2. Consistent(Nodes, banned, r) /\ Calmer(World, r)
  BY <1>1, ReceivedKeeps
<1>3. \A o : EndOf(r, s, o) = At(s, o)
  <2>1. s \in DOMAIN World.link
    BY DEF IInv, Consistent, Shape
  <2>2. \A o : EndOf(r, s, o) = EndOf(World, s, o)
    BY <1>2, <2>1 DEF Calmer, EndOf
  <2> QED
    BY <2>2, WorldEnds
<1>4. Announced(r, At(s, e), v)
  BY <1>1, <1>3 DEF Announced
<1>5. Consistent(Nodes, banned, Post(r, At(s, e), v))
  BY <1>2, <1>4, PostKeeps
<1>6. Become(r) \/ Become(Post(r, At(s, e), v))
  BY <1>1 DEF HeadersArrive
<1>7. UNCHANGED banned /\ PlanKept
  BY CountKept DEF HeadersArrive, IInv
<1> QED
  BY <1>2, <1>5, <1>6, <1>7, BecomeKeeps

\* An event other than headers needs no socket.
LEMMA PostOther ==
  ASSUME NEW N, NEW b, NEW w, Consistent(N, b, w), NEW n, NEW v, v.kind # "HEADERS_RECEIVE"
  PROVE  Consistent(N, b, Post(w, n, v))
<1>1. Announced(w, n, v)
  BY DEF Announced
<1> QED
  BY <1>1, PostKeeps

LEMMA CloseArrivesKeeps ==
  ASSUME IInv, NEW s \in Sockets, NEW e, CloseArrives(s, e) PROVE IInv'
<1>1. PICK r, x, y, d : /\ r = Received(s, e)
                        /\ x = r.link[s].up \ {e} /\ y = r.link[s].ears \ {e}
                        /\ d = [r EXCEPT !.link[s].up = x, !.link[s].ears = y]
  OBVIOUS
<1>2. Consistent(Nodes, banned, r)
  BY <1>1, ReceivedKeeps
<1>3. Calmer(r, d)
  <2>1. Shape(Nodes, r) /\ y \subseteq r.link[s].ears
    BY <1>1, <1>2 DEF Consistent
  <2> QED
    BY <1>1, <2>1, EndCalmer
<1>4. Consistent(Nodes, banned, d)
  BY <1>2, <1>3, CalmerKeeps
<1>5. PICK v : v = [kind |-> "REMOVE_PEER", peer |-> At(s, Other(e))]
  OBVIOUS
<1>6. Consistent(Nodes, banned, Post(d, At(s, e), v))
  BY <1>4, <1>5, PostOther
<1>7. [r EXCEPT !.link[s].up = @ \ {e}, !.link[s].ears = @ \ {e}] = d
  <2>1. PICK u : u = [r EXCEPT !.link[s].up = x]
    OBVIOUS
  <2>2. u.link[s].ears = r.link[s].ears
    <3>1. PICK k : k = r.link[s]
      OBVIOUS
    <3>2. IsLink(k) /\ s \in DOMAIN r.link
      BY <1>2, <3>1 DEF Consistent, Shape
    <3>3. DOMAIN k = {"client", "server", "up", "ears", "hello"}
      BY <3>2 DEF IsLink
    <3>4. "link" \in DOMAIN r
      BY <1>2 DEF Consistent, Shape, IsRecord
    <3>5. u.link[s] = [k EXCEPT !.up = x]
      BY <2>1, <3>1, <3>2, <3>4
    <3>6. [k EXCEPT !.up = x].ears = k.ears
      BY <3>3
    <3> QED
      BY <3>1, <3>5, <3>6
  <2>3. [r EXCEPT !.link[s].up = @ \ {e}] = u
    BY <1>1, <2>1
  <2>4. [u EXCEPT !.link[s].ears = @ \ {e}] = [u EXCEPT !.link[s].ears = y]
    BY <1>1, <2>2
  <2> QED
    BY <1>1, <2>1, <2>3, <2>4
<1>8. Become(d) \/ Become(Post(d, At(s, e), v))
  BY <1>1, <1>5, <1>7 DEF CloseArrives
<1>9. UNCHANGED banned /\ PlanKept
  BY CountKept DEF CloseArrives, IInv
<1> QED
  BY <1>4, <1>6, <1>8, <1>9, BecomeKeeps

LEMMA BroadcastArrivesKeeps ==
  ASSUME IInv, NEW s, NEW e, BroadcastArrives(s, e) PROVE IInv'
<1>1. PICK kind \in {"PEER_HEADERS_UPDATE", "PING", "REQUEST_PEERS",
                   "TRANSACTION_RECEIVE"} :
        Become(IF ~Heard(s, e, kind) THEN Received(s, e)
               ELSE Post(Received(s, e), At(s, e),
                         [kind |-> kind, peer |-> At(s, Other(e)), about |-> Head(wire[s][e])]))
  BY DEF BroadcastArrives
<1>2. PICK r, v : /\ r = Received(s, e)
                  /\ v = [kind |-> kind, peer |-> At(s, Other(e)), about |-> Head(wire[s][e])]
  OBVIOUS
<1>3. Consistent(Nodes, banned, r)
  BY <1>2, ReceivedKeeps
<1>4. v.kind # "HEADERS_RECEIVE"
  BY <1>1, <1>2
<1>5. Consistent(Nodes, banned, Post(r, At(s, e), v))
  BY <1>3, <1>4, PostOther
<1>6. Become(r) \/ Become(Post(r, At(s, e), v))
  BY <1>1, <1>2
<1>7. UNCHANGED banned /\ PlanKept
  BY CountKept DEF BroadcastArrives, IInv
<1> QED
  BY <1>3, <1>5, <1>6, <1>7, BecomeKeeps

LEMMA AnswersArriveKeep ==
  ASSUME IInv, NEW s, NEW e, PongArrives(s, e) \/ PeersArrive(s, e) PROVE IInv'
<1>1. Become(Received(s, e)) /\ UNCHANGED banned /\ PlanKept
  BY CountKept DEF PongArrives, PeersArrive, IInv
<1>2. Consistent(Nodes, banned, Received(s, e))
  BY ReceivedKeeps
<1> QED
  BY <1>1, <1>2, BecomeKeeps

-----------------------------------------------------------------------------
(* The callbacks.                                                          *)

LEMMA HeadersReceiveKeeps ==
  ASSUME IInv, NEW n \in Nodes, HeadersReceive(n) PROVE IInv'
<1>1. PICK v, w : v = Event(n) /\ w = Called(n)
  OBVIOUS
<1>2. posted[n] # <<>> /\ v.kind = "HEADERS_RECEIVE"
  BY <1>1 DEF HeadersReceive, Runs
<1>3. /\ Consistent(Nodes, banned, w) /\ Announced(World, n, v)
      /\ w.link = link /\ w.memory = memory /\ w.network = network
  BY <1>1, <1>2, CalledKeepsWorld
<1>4. \A s, e : EndOf(w, s, e) = EndOf(World, s, e)
  BY <1>3 DEF EndOf, World
<1>5. /\ v.s \in Sockets /\ v.e \in Ends
      /\ EndOf(w, v.s, v.e) = n /\ EndOf(w, v.s, Other(v.e)) = v.peer
  BY <1>2, <1>3, <1>4 DEF Announced
<1>6. PICK u : u = IF v.peer \in DOMAIN memory[n] THEN Discard(w, n, v.peer, FALSE) ELSE w
  OBVIOUS
<1>7. /\ Consistent(Nodes, banned, u)
      /\ v.peer \notin Entries(u, n)
      /\ EndOf(u, v.s, v.e) = n /\ EndOf(u, v.s, Other(v.e)) = v.peer
  <2>1. CASE v.peer \in DOMAIN memory[n]
    <3>1. Gone(Nodes, banned, w, n, v.peer, u)
      BY <1>3, <1>6, <2>1, DiscardKeeps
    <3>2. Other(v.e) \in Ends
      BY <1>5 DEF Other, Ends
    <3> QED
      BY <1>5, <3>1, <3>2 DEF Gone
  <2>2. CASE v.peer \notin DOMAIN memory[n]
    <3>1. DOMAIN w.memory[n] = Entries(w, n)
      BY <1>3 DEF Consistent, Agreed
    <3> QED
      BY <1>3, <1>5, <1>6, <2>2, <3>1
  <2> QED
    BY <2>1, <2>2
<1>8. PICK t : t = Enter(u, n, v.peer, v.s, v.e, v.head)
  OBVIOUS
<1>9. Consistent(Nodes, banned, t)
  BY <1>5, <1>7, <1>8, EnterKeeps
<1>10. PICK m : m = [kind |-> "headers", head |-> tip[n]]
  OBVIOUS
<1>11. Consistent(Nodes, banned, Send(t, v.s, v.e, m))
  BY <1>9, SendKeeps
<1>12. Consistent(Nodes, banned, Disconnect(w, v.s, v.e))
  BY <1>3, DisconnectKeeps
<1>13. Become(Disconnect(w, v.s, v.e)) \/ Become(t) \/ Become(Send(t, v.s, v.e, m))
  BY <1>1, <1>6, <1>8, <1>10 DEF HeadersReceive
<1>14. UNCHANGED banned /\ PlanKept
  BY CountKept DEF HeadersReceive, IInv
<1> QED
  BY <1>9, <1>11, <1>12, <1>13, <1>14, BecomeKeeps

LEMMA RemovePeerKeeps ==
  ASSUME IInv, NEW n \in Nodes, RemovePeer(n) PROVE IInv'
<1>1. PICK p, w : p = Event(n).peer /\ w = Called(n)
  OBVIOUS
<1>2. Consistent(Nodes, banned, w)
  BY <1>1, CalledKeepsWorld DEF RemovePeer, Runs
<1>3. Consistent(Nodes, banned, Discard(w, n, p, TRUE))
  BY <1>2, DiscardKeeps DEF Gone
<1>4. Become(Discard(w, n, p, TRUE))
  BY <1>1 DEF RemovePeer
<1>5. UNCHANGED banned /\ PlanKept
  BY CountKept DEF RemovePeer, IInv
<1> QED
  BY <1>3, <1>4, <1>5, BecomeKeeps

LEMMA ReceiveTransactionKeeps ==
  ASSUME IInv, NEW n \in Nodes, ReceiveTransaction(n) PROVE IInv'
<1>1. PICK w, u : w = Called(n) /\ u = ToAll(w, n, [kind |-> "TRANSACTION_RECEIVE"])
  OBVIOUS
<1>2. Consistent(Nodes, banned, w)
  BY <1>1, CalledKeepsWorld DEF ReceiveTransaction, Runs
<1>3. Consistent(Nodes, banned, u)
  BY <1>1, <1>2, ToAllCalmer, CalmerKeeps DEF Consistent
<1>4. Become(w) \/ Become(u)
  BY <1>1 DEF ReceiveTransaction
<1>5. UNCHANGED banned /\ PlanKept
  BY CountKept, CountedKeepsPlan DEF ReceiveTransaction, IInv
<1> QED
  BY <1>2, <1>3, <1>4, <1>5, BecomeKeeps

LEMMA AnswersKeep ==
  ASSUME IInv, NEW n \in Nodes, Pong(n) \/ SendPeers(n) PROVE IInv'
<1>1. PICK w, p, m : /\ w = Called(n) /\ p = Event(n).peer
                     /\ Become(w) \/ Become(Send(w, network[n][p].s, network[n][p].e, m))
  BY DEF Pong, SendPeers, Answer
<1>2. Consistent(Nodes, banned, w)
  BY <1>1, CalledKeepsWorld DEF Pong, SendPeers, Runs
<1>3. Consistent(Nodes, banned, Send(w, network[n][p].s, network[n][p].e, m))
  BY <1>2, SendKeeps
<1>4. UNCHANGED banned /\ PlanKept
  BY CountKept DEF Pong, SendPeers, IInv
<1> QED
  BY <1>1, <1>2, <1>3, <1>4, BecomeKeeps

\* The sockets a node may open are nobody's.
LEMMA FreeEnds ==
  ASSUME IInv, NEW w, \A s \in Sockets, e \in Ends : EndOf(w, s, e) = EndOf(World, s, e),
         NEW peers, NEW f \in Assignments(peers)
  PROVE  \A p \in peers : \A e \in Ends : EndOf(w, f[p], e) \notin Nodes
<1> SUFFICES ASSUME NEW p \in peers, NEW e \in Ends
             PROVE  EndOf(w, f[p], e) \notin Nodes
  OBVIOUS
<1>1. f[p] \in Sockets /\ link[f[p]] = NoLink
  BY DEF Assignments, Free
<1>2. EndOf(World, f[p], e) = ""
  <2>1. link[f[p]].client = "" /\ link[f[p]].server = ""
    <3>1. NoLink.client = "" /\ NoLink.server = ""
      BY DEF NoLink
    <3> QED
      BY <1>1, <3>1
  <2> QED
    BY <2>1 DEF EndOf, World
<1> QED
  BY <1>1, <1>2, NoNameIsNoNode DEF IInv

LEMMA ConnectTrustedKeeps ==
  ASSUME IInv, NEW n \in Nodes, ConnectTrusted(n) PROVE IInv'
<1>1. PICK w, peers : w = Called(n) /\ peers = Unknown(w, n, Trusted[n])
  OBVIOUS
<1>2. PICK f \in Assignments(peers) : Become(ConnectPeers(w, n, peers, f))
  BY <1>1 DEF ConnectTrusted
<1>3. Consistent(Nodes, banned, w) /\ w.link = link
  BY <1>1, CalledKeepsWorld DEF ConnectTrusted, Runs
<1>4. \A s \in Sockets, e \in Ends : EndOf(w, s, e) = EndOf(World, s, e)
  BY <1>3 DEF EndOf, World
<1>5. \A p \in peers : \A e \in Ends : EndOf(w, f[p], e) \notin Nodes
  BY <1>4, FreeEnds
<1>6. Consistent(Nodes, banned, ConnectPeers(w, n, peers, f))
  BY <1>3, <1>5, ConnectKeeps
<1>7. UNCHANGED banned /\ PlanKept
  BY CountKept DEF ConnectTrusted, IInv
<1> QED
  BY <1>2, <1>6, <1>7, BecomeKeeps

LEMMA PicksKeep ==
  ASSUME IInv, NEW n \in Nodes, DiscoverNewPeers(n) \/ RebootPeersConnections(n) PROVE IInv'
<1>1. PICK w, m : w = Called(n) /\ (Become(w) \/ Become(ToAll(w, n, m)))
  BY DEF DiscoverNewPeers, RebootPeersConnections, Pick
<1>2. Consistent(Nodes, banned, w)
  BY <1>1, CalledKeepsWorld DEF DiscoverNewPeers, RebootPeersConnections, Runs
<1>3. Consistent(Nodes, banned, ToAll(w, n, m))
  <2>1. Calmer(w, ToAll(w, n, m))
    BY <1>2, ToAllCalmer DEF Consistent
  <2> QED
    BY <1>2, <2>1, CalmerKeeps
<1>4. UNCHANGED banned /\ PlanKept
  BY CountKept DEF DiscoverNewPeers, RebootPeersConnections, IInv
<1> QED
  BY <1>1, <1>2, <1>3, <1>4, BecomeKeeps

\* v is u with the entry y for the peer p of n.
Flagged(N, u, n, p, y, v) ==
  /\ Shape(N, v) /\ Posted(N, v) /\ Agreed(N, v)
  /\ v.network[n][p] = y
  /\ \A m \in N : Entries(v, m) = Entries(u, m)
  /\ \A m \in N : \A q \in Entries(v, m) : ~(m = n /\ q = p) =>
       v.network[m][q] = u.network[m][q]

LEMMA FlagKeeps ==
  ASSUME NEW N, NEW u, Shape(N, u), Posted(N, u), Agreed(N, u), NEW n \in N, NEW p,
         p \in Entries(u, n), NEW y, IsEntry(y),
         y.s = u.network[n][p].s, y.e = u.network[n][p].e,
         NEW v, v = [u EXCEPT !.network = [u.network EXCEPT ![n][p] = y]]
  PROVE  Flagged(N, u, n, p, y, v)
<1>1. PICK l : l = [u.network EXCEPT ![n][p] = y]
  OBVIOUS
<1>2. v = [memory |-> u.memory, network |-> l, posted |-> u.posted, link |-> u.link,
           wire |-> u.wire]
  BY <1>1 DEF Shape, IsRecord
<1>3. /\ v.memory = u.memory /\ v.network = l /\ v.posted = u.posted /\ v.link = u.link
      /\ IsRecord(v)
  <2>1. v.memory = u.memory /\ v.network = l /\ v.posted = u.posted /\ v.link = u.link
    BY <1>2
  <2>2. IsRecord(v)
    BY <1>2, <2>1 DEF IsRecord
  <2> QED
    BY <2>1, <2>2
<1>4. DOMAIN u.network = N
  BY DEF Shape
<1>5. PICK z : z = u.network[n]
  OBVIOUS
<1>6. l[n] = [z EXCEPT ![p] = y]
  BY <1>1, <1>4, <1>5
<1>7. DOMAIN l[n] = DOMAIN z /\ \A q \in DOMAIN z : l[n][q] = IF q = p THEN y ELSE z[q]
  BY <1>6
<1>8. ASSUME NEW m \in N
      PROVE  /\ Entries(v, m) = Entries(u, m)
             /\ \A q \in Entries(v, m) : /\ IsEntry(v.network[m][q])
                                         /\ v.network[m][q].s = u.network[m][q].s
                                         /\ v.network[m][q].e = u.network[m][q].e
             /\ \A q \in Entries(v, m) : ~(m = n /\ q = p) =>
                  v.network[m][q] = u.network[m][q]
  <2>1. CASE m = n
    <3>1. \A q \in DOMAIN z : IsEntry(z[q])
      BY <1>5 DEF Shape, Entries
    <3> QED
      BY <1>3, <1>5, <1>7, <2>1, <3>1 DEF Entries
  <2>2. CASE m # n
    <3>1. l[m] = u.network[m]
      BY <1>1, <1>4, <2>2
    <3> QED
      BY <1>3, <2>2, <3>1 DEF Shape, Entries
  <2> QED
    BY <2>1, <2>2
<1>9. DOMAIN l = N
  BY <1>1, <1>4
<1>10. \A s, e : EndOf(v, s, e) = EndOf(u, s, e)
  BY <1>3 DEF EndOf
<1>11. Shape(N, v)
  BY <1>3, <1>8, <1>9 DEF Shape
<1>12. Posted(N, v)
  BY <1>3, <1>10 DEF Posted, Announced
<1>13. Agreed(N, v)
  <2>1. \A m \in N : DOMAIN v.memory[m] = Entries(v, m)
    BY <1>3, <1>8 DEF Agreed
  <2>2. ASSUME NEW s \in Sockets, NEW e \in Ends \cap v.link[s].ears, EndOf(v, s, e) \in N
        PROVE  Listed(v, EndOf(v, s, e), EndOf(v, s, Other(e)), s, e)
    <3>1. Listed(u, EndOf(u, s, e), EndOf(u, s, Other(e)), s, e)
      BY <1>3, <1>10, <2>2 DEF Agreed
    <3> QED
      BY <1>8, <1>10, <2>2, <3>1, SMTT(20) DEF Listed
  <2> QED
    BY <2>1, <2>2 DEF Agreed
<1>14. v.network[n][p] = y
  BY <1>3, <1>5, <1>7 DEF Entries
<1> QED
  BY <1>8, <1>11, <1>12, <1>13, <1>14 DEF Flagged

\* A peer that has the same last block is forgiven.
LEMMA UpdatePeerKeeps ==
  ASSUME IInv, NEW n \in Nodes, UpdatePeer(n) PROVE IInv'
<1>1. PICK w, p, head : w = Called(n) /\ p = Event(n).peer /\ head = Event(n).about.head
  OBVIOUS
<1>2. Consistent(Nodes, banned, w) /\ w.memory = memory
  BY <1>1, CalledKeepsWorld DEF UpdatePeer, Runs
<1>3. PlanKept
  BY CountKept DEF UpdatePeer, IInv
<1>4. PICK u : u = [w EXCEPT !.memory[n][p] = head]
  OBVIOUS
<1>5. PICK k : k = [w.memory EXCEPT ![n][p] = head]
  OBVIOUS
<1>6. u = [memory |-> k, network |-> w.network, posted |-> w.posted, link |-> w.link,
           wire |-> w.wire]
  BY <1>2, <1>4, <1>5 DEF Consistent, Shape, IsRecord
<1>7. /\ u.memory = k /\ u.network = w.network /\ u.posted = w.posted /\ u.link = w.link
      /\ IsRecord(u)
  BY <1>6 DEF IsRecord
<1>8. DOMAIN k = Nodes /\ \A m \in Nodes : DOMAIN k[m] = DOMAIN w.memory[m]
  BY <1>2, <1>5 DEF Consistent, Shape
<1>9. /\ \A m : Entries(u, m) = Entries(w, m)
      /\ \A s, e : EndOf(u, s, e) = EndOf(w, s, e)
  BY <1>7 DEF Entries, EndOf
<1>10. Shape(Nodes, u) /\ Posted(Nodes, u)
  BY <1>2, <1>7, <1>8, <1>9 DEF Consistent, Shape, Posted, Announced
<1>11. Agreed(Nodes, u)
  BY <1>2, <1>7, <1>8, <1>9 DEF Consistent, Agreed, Listed
<1>12. Silenced(Nodes, banned, u)
  BY <1>2, <1>7, <1>9 DEF Consistent, Silenced
<1>13. Consistent(Nodes, banned, u)
  BY <1>10, <1>11, <1>12 DEF Consistent
<1>14. CASE Become(w) /\ UNCHANGED banned
  BY <1>2, <1>3, <1>14, BecomeKeeps
<1>15. CASE Become(u) /\ UNCHANGED banned
  BY <1>3, <1>13, <1>15, BecomeKeeps
<1>16. CASE /\ p \in DOMAIN memory[n]
            /\ Become([u EXCEPT !.network[n][p].flag = FALSE])
            /\ banned' = [banned EXCEPT ![n] = @ \ {p}]
  <2>1. PICK x, y, l, v : /\ x = u.network[n][p] /\ y = [x EXCEPT !.flag = FALSE]
                          /\ l = [u.network EXCEPT ![n][p] = y]
                          /\ v = [u EXCEPT !.network = l]
    OBVIOUS
  <2>2. p \in Entries(u, n) /\ p \in Entries(w, n)
    BY <1>2, <1>9, <1>16 DEF Consistent, Agreed
  <2>3. IsEntry(x)
    BY <1>10, <2>1, <2>2 DEF Shape
  <2>4. y = [s |-> x.s, e |-> x.e, flag |-> FALSE]
    <3>1. DOMAIN x = {"s", "e", "flag"}
      BY <2>3 DEF IsEntry
    <3> QED
      BY <2>1, <3>1
  <2>5. IsEntry(y) /\ y.s = x.s /\ y.e = x.e
    BY <2>4 DEF IsEntry
  <2>6. v = [memory |-> u.memory, network |-> l, posted |-> u.posted, link |-> u.link,
             wire |-> u.wire]
    BY <1>7, <2>1 DEF IsRecord
  <2>7. [u EXCEPT !.network[n][p].flag = FALSE] = v
    BY <2>1
  <2>8. Flagged(Nodes, u, n, p, y, v)
    BY <1>10, <1>11, <2>1, <2>2, <2>5, FlagKeeps
  <2>9. DOMAIN banned = Nodes
    BY DEF IInv, PlanInv
  <2>16. PICK b : b = banned'
    OBVIOUS
  <2>17. Silenced(Nodes, b, v)
    <3> SUFFICES ASSUME NEW m \in Nodes, NEW q \in b[m] \cap Entries(v, m)
                 PROVE  v.network[m][q].flag
      BY DEF Silenced
    <3>1. q \in banned[m] /\ ~(m = n /\ q = p)
      BY <1>16, <2>9, <2>16
    <3>2. v.network[m][q] = u.network[m][q] /\ q \in Entries(u, m)
      BY <2>8, <3>1 DEF Flagged
    <3>3. u.network[m][q].flag
      BY <1>12, <3>1, <3>2 DEF Silenced
    <3> QED
      BY <3>2, <3>3
  <2>18. Consistent(Nodes, b, v)
    BY <2>8, <2>17 DEF Consistent, Flagged
  <2>19. World' = v
    BY <1>16, <2>7, <2>8 DEF Become, World, Flagged, Shape, IsRecord
  <2>20. Nodes' = Nodes /\ plan' \in Plans
    BY <1>3, SameNodes DEF IInv
  <2>21. Consistent(Nodes', banned', World')
    BY <2>16, <2>18, <2>19, <2>20
  <2>22. PlanInv'
    BY <1>3, <1>16, <2>9, <2>20 DEF PlanInv, PlanKept
  <2> QED
    BY <2>21, <2>22 DEF IInv
<1> QED
  BY <1>1, <1>4, <1>14, <1>15, <1>16 DEF UpdatePeer

-----------------------------------------------------------------------------
(* What goes on after an await, and what comes from outside.               *)

LEMMA SameWorld ==
  ASSUME NEW peers, NEW f, NEW n,
         NEW w, \A s \in Sockets, e \in Ends : EndOf(w, s, e) = EndOf(World, s, e),
         IInv, Consistent(Nodes, banned, w), f \in Assignments(peers)
  PROVE  Consistent(Nodes, banned, ConnectPeers(w, n, peers, f))
<1>1. \A p \in peers : \A e \in Ends : EndOf(w, f[p], e) \notin Nodes
  BY FreeEnds
<1> QED
  BY <1>1, ConnectKeeps

LEMMA ConnectDiscoveredKeeps ==
  ASSUME IInv, NEW k, ConnectDiscovered(k) PROVE IInv'
<1>1. PICK w, n : w = World /\ n = picks[k].node
  OBVIOUS
<1>2. PICK peers, f : f \in Assignments(peers) /\ Become(ConnectPeers(w, n, peers, f))
  BY <1>1 DEF ConnectDiscovered
<1>3. Consistent(Nodes, banned, w)
  BY <1>1 DEF IInv
<1>4. Consistent(Nodes, banned, ConnectPeers(w, n, peers, f))
  BY <1>1, <1>2, <1>3, SameWorld
<1>5. UNCHANGED banned /\ PlanKept
  BY CountKept DEF ConnectDiscovered, IInv
<1> QED
  BY <1>2, <1>4, <1>5, BecomeKeeps

\* The ban list is empty again.
LEMMA StartReconnectKeeps ==
  ASSUME IInv, NEW k, StartReconnect(k) PROVE IInv'
<1>1. PICK n, b, w : n = picks[k].node /\ b = banned' /\ w = World
  OBVIOUS
<1>2. b = [banned EXCEPT ![n] = {}] /\ World' = w /\ UNCHANGED count
  BY <1>1 DEF StartReconnect, World
<1>3. PlanKept /\ Nodes' = Nodes /\ plan' \in Plans
  BY <1>2, CountKept, SameNodes DEF IInv
<1>4. DOMAIN b = Nodes /\ \A m \in Nodes : b[m] \subseteq banned[m]
  BY <1>2 DEF IInv, PlanInv
<1>5. Consistent(Nodes, banned, w)
  BY <1>1 DEF IInv
<1>6. Consistent(Nodes, b, w)
  BY <1>4, <1>5 DEF Consistent, Silenced
<1>7. Consistent(Nodes', banned', World')
  BY <1>1, <1>2, <1>3, <1>6
<1>8. PlanInv'
  BY <1>1, <1>3, <1>4 DEF PlanInv, PlanKept
<1> QED
  BY <1>7, <1>8 DEF IInv

LEMMA StepReconnectKeeps ==
  ASSUME IInv, NEW n \in Nodes, StepReconnect(n) PROVE IInv'
<1>1. PICK gone, p, w, peers, f :
         /\ w = IF gone = {} THEN World ELSE Discard(World, n, p, FALSE)
         /\ f \in Assignments(peers) /\ Become(ConnectPeers(w, n, peers, f))
  BY DEF StepReconnect
<1>2. PICK o : o = World
  OBVIOUS
<1>3. Consistent(Nodes, banned, o)
  BY <1>2 DEF IInv
<1>4. Gone(Nodes, banned, o, n, p, Discard(o, n, p, FALSE))
  BY <1>3, DiscardKeeps
<1>5. /\ Consistent(Nodes, banned, w)
      /\ \A s \in Sockets, e \in Ends : EndOf(w, s, e) = EndOf(World, s, e)
  BY <1>1, <1>2, <1>3, <1>4 DEF Gone
<1>6. Consistent(Nodes, banned, ConnectPeers(w, n, peers, f))
  BY <1>1, <1>5, SameWorld
<1>7. UNCHANGED banned /\ PlanKept
  BY CountKept DEF StepReconnect, IInv
<1> QED
  BY <1>1, <1>6, <1>7, BecomeKeeps

LEMMA EmitKeeps ==
  ASSUME IInv, NEW n, Emit(n) PROVE IInv'
<1>1. PICK w : w = World
  OBVIOUS
<1>2. Consistent(Nodes, banned, w) /\ PlanInv
  BY <1>1 DEF IInv
<1>3. PICK kind \in {"PEER_CONNECT_RUN", "EMIT_REQUEST_PEERS", "EMIT_REBOOT_PEERS_CONNECTIONS"} :
        Become(Post(w, n, [kind |-> kind]))
  BY <1>1 DEF Emit
<1>4. PICK v : v = [kind |-> kind]
  OBVIOUS
<1>5. v.kind # "HEADERS_RECEIVE"
  BY <1>3, <1>4
<1>6. Consistent(Nodes, banned, Post(w, n, v))
  BY <1>2, <1>5, PostOther
<1>7. UNCHANGED banned /\ PlanKept
  BY <1>2, CountedKeepsPlan DEF Emit
<1> QED
  BY <1>3, <1>4, <1>6, <1>7, BecomeKeeps

LEMMA ToAllKeeps ==
  ASSUME IInv, NEW n, NEW m, Become(ToAll(World, n, m)), UNCHANGED banned, PlanKept
  PROVE  IInv'
<1>1. PICK w : w = World
  OBVIOUS
<1>2. Consistent(Nodes, banned, w)
  BY <1>1 DEF IInv
<1>3. Calmer(w, ToAll(w, n, m))
  BY <1>2, ToAllCalmer DEF Consistent
<1>4. Consistent(Nodes, banned, ToAll(w, n, m))
  BY <1>2, <1>3, CalmerKeeps
<1> QED
  BY <1>1, <1>4, BecomeKeeps

LEMMA PingKeeps ==
  ASSUME IInv, NEW n, Ping(n) PROVE IInv'
<1>1. UNCHANGED banned /\ PlanKept /\ Become(ToAll(World, n, [kind |-> "PING"]))
  BY CountKept DEF Ping, IInv
<1> QED
  BY <1>1, ToAllKeeps

LEMMA UpdateHeadersKeeps ==
  ASSUME IInv, NEW n, NEW head, UpdateHeaders(n, head) PROVE IInv'
<1>1. PlanKept
  BY CountedKeepsPlan DEF UpdateHeaders, IInv
<1>2. UNCHANGED banned
      /\ Become(ToAll(World, n, [kind |-> "PEER_HEADERS_UPDATE", head |-> head]))
  BY DEF UpdateHeaders
<1> QED
  BY <1>1, <1>2, ToAllKeeps

LEMMA SendTransactionKeeps ==
  ASSUME IInv, NEW n, SendTransaction(n) PROVE IInv'
<1>1. PlanKept
  BY CountedKeepsPlan DEF SendTransaction, IInv
<1>2. UNCHANGED banned
      /\ Become(ToAll(World, n, [kind |-> "TRANSACTION_RECEIVE"]))
  BY DEF SendTransaction
<1> QED
  BY <1>1, <1>2, ToAllKeeps

LEMMA PingTimeoutKeeps ==
  ASSUME IInv, NEW x, PingTimeout(x) PROVE IInv'
<1>1. PICK w, n, v : /\ w = World /\ n = At(x.s, x.e)
                     /\ v = [kind |-> "REMOVE_PEER", peer |-> x.peer]
  OBVIOUS
<1>2. Consistent(Nodes, banned, w)
  BY <1>1 DEF IInv
<1>3. Consistent(Nodes, banned, Post(w, n, v))
  BY <1>1, <1>2, PostOther
<1>4. Become(Post(w, n, v)) /\ UNCHANGED banned
  BY <1>1 DEF PingTimeout, PingFailed
<1>5. PlanKept
  <2>1. PICK a, b : count' = [count EXCEPT !.pings = a, !.late = b]
    BY DEF PingTimeout
  <2> QED
    BY <2>1 DEF PlanKept, IInv, PlanInv, plan
<1> QED
  BY <1>3, <1>4, <1>5, BecomeKeeps

\* What leaves the world as it is.
LEMMA QuietKeeps ==
  ASSUME IInv, PlanKept, UNCHANGED banned, NEW v, World' = v, Calmer(World, v)
  PROVE  IInv'
<1>1. PICK w : w = World
  OBVIOUS
<1>2. Consistent(Nodes, banned, w)
  BY <1>1 DEF IInv
<1>3. Consistent(Nodes, banned, v)
  BY <1>1, <1>2, CalmerKeeps
<1>4. Nodes' = Nodes /\ plan' \in Plans
  BY SameNodes DEF IInv
<1>5. Consistent(Nodes', banned', World')
  BY <1>3, <1>4
<1>6. PlanInv'
  BY <1>4 DEF IInv, PlanInv, PlanKept
<1> QED
  BY <1>5, <1>6 DEF IInv

LEMMA PickTimeoutKeeps ==
  ASSUME IInv, NEW k, NEW c, PickTimeout(k, c) PROVE IInv'
<1>1. UNCHANGED <<memory, network, banned, posted, link, wire>>
  BY DEF PickTimeout
<1>2. PlanKept
  <2>1. PICK a : count' = [count EXCEPT !.late = a]
    BY DEF PickTimeout
  <2> QED
    BY <2>1 DEF PlanKept, IInv, PlanInv, plan
<1>3. PICK v : v = World
  OBVIOUS
<1>4. World' = v
  BY <1>1, <1>3 DEF World
<1>5. Calmer(World, v)
  BY <1>3 DEF IInv, Consistent, Shape, Calmer
<1> QED
  BY <1>1, <1>2, <1>4, <1>5, QuietKeeps

LEMMA LoseKeeps ==
  ASSUME IInv, NEW s, Lose(s) PROVE IInv'
<1>1. UNCHANGED <<memory, network, banned, posted, link>>
  BY DEF Lose
<1>2. PlanKept
  BY CountedKeepsPlan DEF Lose, IInv
<1>3. PICK w, x : w = World /\ x = wire'
  OBVIOUS
<1>4. PICK v : v = [w EXCEPT !.wire = x]
  OBVIOUS
<1>5. World' = v
  BY <1>1, <1>3, <1>4 DEF World
<1>6. Shape(Nodes, w)
  BY <1>3 DEF IInv, Consistent
<1>7. Calmer(w, v)
  BY <1>4, <1>6, WireCalmer
<1> QED
  BY <1>1, <1>2, <1>3, <1>5, <1>7, QuietKeeps

\* A peer is banned on the connection it has.
LEMMA BanKeeps ==
  ASSUME IInv, NEW n \in Nodes, NEW p, Ban(n, p) PROVE IInv'
<1>1. PICK u, b, v : u = World /\ b = banned' /\ v = World'
  OBVIOUS
<1>2. Consistent(Nodes, banned, u) /\ DOMAIN banned = Nodes
  BY <1>1 DEF IInv, PlanInv
<1>3. /\ b = [banned EXCEPT ![n] = @ \cup {p}]
      /\ UNCHANGED <<memory, posted, link, wire>>
      /\ network' = IF p \in DOMAIN network[n] THEN [network EXCEPT ![n][p].flag = TRUE]
                    ELSE network
  BY <1>1 DEF Ban
<1>4. PlanKept
  BY CountedKeepsPlan DEF Ban, IInv
<1>5. u.network = network
  BY <1>1 DEF World
<1>6. CASE p \notin Entries(u, n)
  <2>1. v = u
    BY <1>1, <1>3, <1>5, <1>6 DEF World, Entries
  <2>2. Silenced(Nodes, b, v)
    BY <1>2, <1>3, <1>6, <2>1 DEF Consistent, Silenced
  <2> QED
    BY <1>1, <1>2, <1>3, <1>4, <2>1, <2>2, SameNodes DEF Consistent, IInv, PlanInv, PlanKept
<1>7. CASE p \in Entries(u, n)
  <2>1. PICK x, y : x = network[n][p] /\ y = [x EXCEPT !.flag = TRUE]
    OBVIOUS
  <2>2. IsEntry(x)
    BY <1>2, <1>5, <1>7, <2>1 DEF Consistent, Shape
  <2>3. y = [s |-> x.s, e |-> x.e, flag |-> TRUE]
    <3>1. DOMAIN x = {"s", "e", "flag"}
      BY <2>2 DEF IsEntry
    <3> QED
      BY <2>1, <3>1
  <2>4. IsEntry(y) /\ y.s = x.s /\ y.e = x.e /\ y.flag
    BY <2>3 DEF IsEntry
  <2>5. network' = [u.network EXCEPT ![n][p] = y]
    BY <1>3, <1>5, <1>7, <2>1 DEF Entries
  <2>6. v = [u EXCEPT !.network = [u.network EXCEPT ![n][p] = y]]
    <3>1. PICK l : l = [u.network EXCEPT ![n][p] = y]
      OBVIOUS
    <3>2. v = [memory |-> u.memory, network |-> l, posted |-> u.posted, link |-> u.link,
               wire |-> u.wire]
      BY <1>1, <1>3, <2>5, <3>1 DEF World
    <3>3. u = [memory |-> u.memory, network |-> u.network, posted |-> u.posted,
               link |-> u.link, wire |-> u.wire]
      BY <1>2 DEF Consistent, Shape, IsRecord
    <3>4. v = [u EXCEPT !.network = l]
      BY <3>2, <3>3
    <3> QED
      BY <3>1, <3>4
  <2>7. Flagged(Nodes, u, n, p, y, v)
    BY <1>2, <1>5, <1>7, <2>1, <2>4, <2>6, FlagKeeps DEF Consistent
  <2>8. Silenced(Nodes, b, v)
    <3> SUFFICES ASSUME NEW m \in Nodes, NEW q \in b[m] \cap Entries(v, m)
                 PROVE  v.network[m][q].flag
      BY DEF Silenced
    <3>1. CASE m = n /\ q = p
      BY <2>4, <2>7, <3>1, Zenon DEF Flagged
    <3>2. CASE ~(m = n /\ q = p)
      <4>1. q \in banned[m] /\ q \in Entries(u, m) /\ v.network[m][q] = u.network[m][q]
        BY <1>2, <1>3, <2>7, <3>2 DEF Flagged
      <4>2. u.network[m][q].flag
        BY <1>2, <4>1 DEF Consistent, Silenced
      <4> QED
        BY <4>1, <4>2
    <3> QED
      BY <3>1, <3>2
  <2>9. Consistent(Nodes, b, v)
    BY <2>7, <2>8 DEF Consistent, Flagged
  <2>10. Nodes' = Nodes /\ plan' \in Plans
    BY <1>4, SameNodes DEF IInv
  <2>11. Consistent(Nodes', banned', World')
    BY <1>1, <2>9, <2>10
  <2>12. PlanInv'
    BY <1>1, <1>2, <1>3, <1>4, <2>10 DEF PlanInv, PlanKept
  <2> QED
    BY <2>11, <2>12 DEF IInv
<1> QED
  BY <1>6, <1>7

\* No headers that came by a socket wait where it is forgotten.
LEMMA ForgetKeeps ==
  ASSUME IInv, NEW s \in Sockets, Forget(s) PROVE IInv'
<1>1. PICK u, v : u = World /\ v = World'
  OBVIOUS
<1>2. Consistent(Nodes, banned, u)
  BY <1>1 DEF IInv
<1>3. /\ UNCHANGED <<memory, network, banned, posted, wire, count>>
      /\ link' = [link EXCEPT ![s] = NoLink] /\ ~Used(s)
  BY DEF Forget
<1>4. /\ v.memory = u.memory /\ v.network = u.network /\ v.posted = u.posted
      /\ v.link = [u.link EXCEPT ![s] = NoLink] /\ u.posted = posted
      /\ IsRecord(v)
  BY <1>1, <1>3 DEF World, IsRecord
<1>5. DOMAIN u.link = Sockets /\ IsLink(NoLink) /\ NoLink.ears = {}
  BY <1>2 DEF Consistent, Shape, IsLink, NoLink
<1>6. /\ DOMAIN v.link = Sockets /\ v.link[s] = NoLink
      /\ \A t \in Sockets : t # s => v.link[t] = u.link[t]
  BY <1>4, <1>5
<1>7. /\ \A m : Entries(v, m) = Entries(u, m)
      /\ \A t \in Sockets : \A e : t # s => EndOf(v, t, e) = EndOf(u, t, e)
  BY <1>4, <1>6 DEF Entries, EndOf
<1>8. Shape(Nodes, v)
  <2>1. \A t \in Sockets : IsLink(v.link[t])
    BY <1>2, <1>5, <1>6 DEF Consistent, Shape
  <2> QED
    BY <1>2, <1>4, <1>6, <1>7, <2>1 DEF Consistent, Shape
<1>9. Posted(Nodes, v)
  <2> SUFFICES ASSUME NEW m \in Nodes, NEW y \in ToSet(u.posted[m]), y.kind = "HEADERS_RECEIVE"
               PROVE  /\ y.s \in Sockets /\ y.e \in Ends
                      /\ EndOf(v, y.s, y.e) = m /\ EndOf(v, y.s, Other(y.e)) = y.peer
    BY <1>4 DEF Posted, Announced
  <2>1. y.s # s
    <3>1. PICK i \in DOMAIN posted[m] : y = posted[m][i]
      BY <1>4 DEF ToSet
    <3> QED
      BY <1>3, <3>1 DEF Used
  <2>2. /\ y.s \in Sockets /\ y.e \in Ends
        /\ EndOf(u, y.s, y.e) = m /\ EndOf(u, y.s, Other(y.e)) = y.peer
    BY <1>2 DEF Consistent, Posted, Announced
  <2> QED
    BY <1>7, <2>1, <2>2
<1>10. Silenced(Nodes, banned, v)
  BY <1>2, <1>4, <1>7 DEF Consistent, Silenced
<1>11. Agreed(Nodes, v)
  <2>1. ASSUME NEW t \in Sockets, NEW e \in Ends \cap v.link[t].ears, EndOf(v, t, e) \in Nodes
        PROVE  Listed(v, EndOf(v, t, e), EndOf(v, t, Other(e)), t, e)
    <3>1. t # s
      BY <1>5, <1>6
    <3>2. e \in Ends \cap u.link[t].ears /\ EndOf(u, t, e) \in Nodes
      BY <1>6, <1>7, <2>1, <3>1
    <3>3. Listed(u, EndOf(u, t, e), EndOf(u, t, Other(e)), t, e)
      BY <1>2, <3>2 DEF Consistent, Agreed
    <3> QED
      BY <1>4, <1>7, <3>1, <3>3 DEF Listed
  <2>2. \A m \in Nodes : DOMAIN v.memory[m] = Entries(v, m)
    BY <1>2, <1>4, <1>7 DEF Consistent, Agreed
  <2> QED
    BY <2>1, <2>2 DEF Agreed
<1>12. Consistent(Nodes, banned, v)
  BY <1>8, <1>9, <1>10, <1>11 DEF Consistent
<1>13. PlanKept
  BY <1>3, CountKept DEF IInv
<1>14. Nodes' = Nodes /\ plan' \in Plans
  BY <1>13, SameNodes DEF IInv
<1>15. Consistent(Nodes', banned', World')
  BY <1>1, <1>3, <1>12, <1>14
<1>16. PlanInv'
  BY <1>3, <1>13, <1>14 DEF IInv, PlanInv, PlanKept
<1> QED
  BY <1>15, <1>16 DEF IInv

-----------------------------------------------------------------------------
(* The invariant holds.                                                    *)

LEMMA InitInvariant == Init => IInv
<1> SUFFICES ASSUME Init PROVE IInv
  OBVIOUS
<1>1. PICK p \in Plans :
        /\ count = [plan |-> p, runs |-> 0, reboots |-> 0, bans |-> 0, tips |-> 0,
                    sends |-> 0, losses |-> 0, late |-> 0, pings |-> 0]
        /\ memory = [n \in DOMAIN p.trusted |-> Nobody]
        /\ network = [n \in DOMAIN p.trusted |-> Nobody]
        /\ banned = [n \in DOMAIN p.trusted |-> {}]
        /\ posted = [n \in DOMAIN p.trusted |-> <<>>]
        /\ link = [s \in Sockets |-> NoLink]
  BY DEF Init
<1>2. "plan" \in DOMAIN count /\ plan = p
  BY <1>1 DEF plan
<1>3. Nodes = DOMAIN p.trusted
  BY <1>2 DEF Nodes, Trusted
<1>4. PlanInv
  BY <1>1, <1>2, <1>3 DEF PlanInv
<1>5. PICK N, w : N = Nodes /\ w = World
  OBVIOUS
<1>6. /\ w.memory = [n \in N |-> Nobody] /\ w.network = [n \in N |-> Nobody]
      /\ w.posted = [n \in N |-> <<>>] /\ w.link = [s \in Sockets |-> NoLink]
      /\ IsRecord(w)
  BY <1>1, <1>3, <1>5 DEF World, IsRecord
<1>7. DOMAIN Nobody = {} /\ IsLink(NoLink) /\ NoLink.ears = {}
  BY DEF Nobody, IsLink, NoLink
<1>8. IsSequence(<<>>) /\ ToSet(<<>>) = {}
  <2>1. <<>> \in Seq({}) /\ DOMAIN <<>> = {}
    OBVIOUS
  <2> QED
    BY <2>1 DEF IsSequence, ToSet
<1>9. \A n \in N : Entries(w, n) = {}
  BY <1>6, <1>7 DEF Entries
<1>10. Shape(N, w) /\ Posted(N, w)
  BY <1>6, <1>7, <1>8, <1>9 DEF Shape, Posted
<1>11. Agreed(N, w)
  BY <1>6, <1>7, <1>9 DEF Agreed
<1>12. Silenced(N, banned, w)
  BY <1>9 DEF Silenced
<1> QED
  BY <1>4, <1>5, <1>10, <1>11, <1>12 DEF IInv, Consistent

LEMMA NextInvariant == IInv /\ [Next]_vars => IInv'
<1> SUFFICES ASSUME IInv, [Next]_vars PROVE IInv'
  OBVIOUS
<1>1. ASSUME NEW s \in Sockets, NEW e \in Ends, DeliverTo(s, e) PROVE IInv'
  BY <1>1, ServerConnectKeeps, ClientConnectKeeps, HeadersArriveKeeps, CloseArrivesKeeps,
     BroadcastArrivesKeeps, AnswersArriveKeep DEF DeliverTo
<1>2. ASSUME NEW n \in Nodes, Callback(n) PROVE IInv'
  BY <1>2, HeadersReceiveKeeps, RemovePeerKeeps, UpdatePeerKeeps, AnswersKeep,
     ConnectTrustedKeeps, ReceiveTransactionKeeps, PicksKeep DEF Callback
<1>3. CASE Continue
  BY <1>3, ConnectDiscoveredKeeps, StartReconnectKeeps, StepReconnectKeeps DEF Continue
<1>4. CASE Timeout
  BY <1>4, PingTimeoutKeeps, PickTimeoutKeeps DEF Timeout
<1>5. ASSUME NEW n \in Nodes, Emit(n) \/ Ping(n) \/ SendTransaction(n)
      PROVE  IInv'
  BY <1>5, EmitKeeps, PingKeeps, SendTransactionKeeps
<1>6. ASSUME NEW n \in Nodes, NEW p \in Nodes, Ban(n, p) PROVE IInv'
  BY <1>6, BanKeeps
<1>7. ASSUME NEW n \in Nodes, NEW head \in plan.heads, UpdateHeaders(n, head) PROVE IInv'
  BY <1>7, UpdateHeadersKeeps
<1>8. ASSUME NEW s \in Sockets, Lose(s) \/ Forget(s) PROVE IInv'
  BY <1>8, LoseKeeps, ForgetKeeps
<1>9. CASE UNCHANGED vars
  <2>1. UNCHANGED <<memory, network, posted, link, wire, banned, count>>
    BY <1>9 DEF vars
  <2>2. PlanKept
    BY <2>1, CountKept DEF IInv
  <2>3. PICK v : v = World
    OBVIOUS
  <2>4. World' = v /\ Calmer(World, v)
    BY <2>1, <2>3 DEF World, IInv, Consistent, Shape, Calmer
  <2> QED
    BY <2>1, <2>2, <2>4, QuietKeeps
<1> QED
  BY <1>1, <1>2, <1>3, <1>4, <1>5, <1>6, <1>7, <1>8, <1>9 DEF Next

LEMMA PeersInvariant == Spec => []IInv
BY InitInvariant, NextInvariant, PTL DEF Spec

-----------------------------------------------------------------------------
(* What it says.                                                           *)

LEMMA InvariantAgrees == IInv => ListsAgree
<1> SUFFICES ASSUME IInv PROVE ListsAgree
  OBVIOUS
<1>1. PICK w : w = World
  OBVIOUS
<1>2. Agreed(Nodes, w)
  BY <1>1 DEF IInv, Consistent
<1>3. w.memory = memory /\ w.network = network /\ w.link = link
  BY <1>1 DEF World
<1>4. \A s, e : EndOf(w, s, e) = At(s, e)
  BY <1>1, WorldEnds
<1>5. ASSUME NEW n \in Nodes PROVE DOMAIN memory[n] = DOMAIN network[n]
  BY <1>2, <1>3 DEF Agreed, Entries
<1>6. ASSUME NEW n \in Nodes, NEW s \in Sockets, NEW e \in Ends, At(s, e) = n,
             e \in link[s].ears
      PROVE  /\ At(s, Other(e)) \in DOMAIN network[n]
             /\ Entry(n, At(s, Other(e))).s = s /\ Entry(n, At(s, Other(e))).e = e
  <2>1. Listed(w, n, At(s, Other(e)), s, e)
    BY <1>2, <1>3, <1>4, <1>6 DEF Agreed
  <2> QED
    BY <1>3, <2>1 DEF Listed, Entries, Entry
<1> QED
  BY <1>5, <1>6 DEF ListsAgree

LEMMA InvariantSilences == IInv => BannedSilenced
<1> SUFFICES ASSUME IInv, NEW n \in Nodes, NEW s \in Sockets, NEW e \in Ends,
                    At(s, e) = n, At(s, Other(e)) \in banned[n],
                    Heard(s, e, "TRANSACTION_RECEIVE")
             PROVE  FALSE
  BY DEF BannedSilenced
<1>1. PICK w : w = World
  OBVIOUS
<1>2. Agreed(Nodes, w) /\ Silenced(Nodes, banned, w)
  BY <1>1 DEF IInv, Consistent
<1>3. w.network = network /\ w.link = link
  BY <1>1 DEF World
<1>4. \A t, d : EndOf(w, t, d) = At(t, d)
  BY <1>1, WorldEnds
<1>5. e \in link[s].ears /\ ~network[n][At(s, Other(e))].flag
  BY DEF Heard
<1>6. At(s, Other(e)) \in Entries(w, n)
  BY <1>2, <1>3, <1>4, <1>5 DEF Agreed, Listed
<1> QED
  BY <1>2, <1>3, <1>5, <1>6 DEF Silenced

\* In every network, and however messages, callbacks, timeouts and broken sockets
\* interleave, the repositories of a node hold the same peers, and each of its
\* listeners belongs to the connection it knows the peer by (peer.ts add,
\* resolveConnectionConflict, remove).
THEOREM ListsAgreeHolds == Spec => []ListsAgree
BY PeersInvariant, InvariantAgrees, PTL

\* In every network no connection of a banned peer lets a transaction or a block
\* through, those it makes after the ban included: each listener there is looks at
\* the flag of an entry, and that follows the list (networkPeer.ts _onBroadcast,
\* peerNetwork.ts ban, add, unban).
THEOREM BannedSilencedHolds == Spec => []BannedSilenced
BY PeersInvariant, InvariantSilences, PTL

-----------------------------------------------------------------------------
(* The handshake on a socket with the state l and the queues q, of which   *)
(* the headers that came to the ends P still wait to be handled.           *)

Kinds(x) == {m.kind : m \in ToSet(x)}
Broken == {"close", "lost"}
Silent == [e \in Ends |-> <<>>]
Queues(q) == DOMAIN q = Ends /\ \A e \in Ends : IsSequence(q[e])

\* Whoever is named is a node.
Named(N, l, q) ==
  /\ \/ l = NoLink /\ q["client"] = <<>> /\ q["server"] = <<>>
     \/ l.client \in N /\ l.server \in N
  /\ \A e \in Ends : \A m \in ToSet(q[e]) :
       m.kind = "RESPONSE_PEERS" => m.peers \subseteq N

\* The client asks for a connection once, and the server confirms it once.
Asked(l, q) ==
  "connect" \in Kinds(q["server"]) =>
    l.up = {} /\ q["client"] = <<>> /\ Tail(q["server"]) = <<>>
Confirmed(l, q) ==
  "connect" \in Kinds(q["client"]) =>
    /\ "client" \notin l.up /\ q["server"] = <<>>
    /\ "connect" \notin Kinds(Tail(q["client"]))

\* Who has closed a socket is not connected any more, and a broken socket is
\* noticed at both ends.
Closed(l, q) ==
  \A e \in Ends : "close" \in Kinds(q[e]) => Other(e) \notin l.up
Noticed(l, q) ==
  \A e \in Ends : "lost" \in Kinds(q[e]) =>
    Other(e) \notin l.up \/ "lost" \in Kinds(q[Other(e)])

\* No end stays connected alone.
Paired(l, q) ==
  /\ "client" \in l.up \/ "connect" \in Kinds(q["client"]) =>
       "server" \in l.up \/ Kinds(q["client"]) \cap Broken # {}
  /\ "server" \in l.up =>
       \/ "client" \in l.up \/ "connect" \in Kinds(q["client"])
       \/ Kinds(q["server"]) \cap Broken # {}

\* An end that is connected without being listed waits for headers.
Greeted(l, q, P) ==
  /\ "server" \in l.up \ l.ears =>
       \/ "connect" \in Kinds(q["client"]) \/ "headers" \in Kinds(q["server"])
       \/ "server" \in P \/ Kinds(q["server"]) \cap Broken # {}
  /\ "client" \in l.up \ l.ears =>
       \/ "headers" \in Kinds(q["client"]) \/ "headers" \in Kinds(q["server"])
       \/ P # {} \/ Kinds(q["client"]) \cap Broken # {}

Handshake(N, l, q, P) ==
  /\ Queues(q) /\ Named(N, l, q) /\ Asked(l, q) /\ Confirmed(l, q)
  /\ Closed(l, q) /\ Noticed(l, q) /\ Paired(l, q) /\ Greeted(l, q, P)

LEMMA EndsOther ==
  /\ Other("client") = "server" /\ Other("server") = "client"
  /\ "client" \in Ends /\ "server" \in Ends
  /\ \A e \in Ends : /\ e = "client" \/ e = "server"
                     /\ Other(e) \in Ends /\ Other(e) # e /\ Other(Other(e)) = e
  BY DEF Other, Ends

\* y is x with the message m at its end.
Longer(x, m, y) ==
  /\ IsSequence(y) /\ y # <<>>
  /\ Kinds(y) = Kinds(x) \cup {m.kind} /\ ToSet(y) = ToSet(x) \cup {m}
  /\ x = <<>> => Kinds(Tail(y)) = {}
  /\ x # <<>> => Kinds(Tail(y)) = Kinds(Tail(x)) \cup {m.kind}

LEMMA KindsAppend ==
  ASSUME NEW x, IsSequence(x), NEW m
  PROVE  Longer(x, m, Append(x, m))
<1>1. PICK S : x \in Seq(S)
  BY DEF IsSequence
<1>2. PICK T : T = S \cup {m}
  OBVIOUS
<1>3. x \in Seq(T) /\ m \in T
  BY <1>1, <1>2
<1>4. IsSequence(Append(x, m)) /\ ToSet(Append(x, m)) = ToSet(x) \cup {m}
  BY AppendAny
<1>5. Kinds(Append(x, m)) = Kinds(x) \cup {m.kind}
  BY <1>4 DEF Kinds
<1>6. Append(x, m) # <<>>
  BY <1>3, AppendProperties
<1>7. CASE x = <<>>
  <2>1. Append(x, m) = <<m>>
    BY <1>7
  <2>2. Tail(<<m>>) = <<>>
    OBVIOUS
  <2>3. ToSet(<<>>) = {}
    BY DEF ToSet
  <2> QED
    BY <1>4, <1>5, <1>6, <1>7, <2>1, <2>2, <2>3 DEF Kinds, Longer
<1>8. CASE x # <<>>
  <2>1. Tail(Append(x, m)) = Append(Tail(x), m)
    BY <1>3, <1>8
  <2>2. IsSequence(Tail(x))
    BY <1>8, TailAny
  <2>3. ToSet(Append(Tail(x), m)) = ToSet(Tail(x)) \cup {m}
    BY <2>2, AppendAny
  <2> QED
    BY <1>4, <1>5, <1>6, <1>8, <2>1, <2>3 DEF Kinds, Longer
<1> QED
  BY <1>7, <1>8

LEMMA KindsTail ==
  ASSUME NEW x, IsSequence(x), x # <<>>
  PROVE  /\ Kinds(x) = {Head(x).kind} \cup Kinds(Tail(x))
         /\ IsSequence(Tail(x)) /\ ToSet(Tail(x)) \subseteq ToSet(x)
         /\ Head(x) \in ToSet(x)
<1>1. IsSequence(Tail(x)) /\ ToSet(x) = {Head(x)} \cup ToSet(Tail(x))
  BY TailAny
<1> QED
  BY <1>1 DEF Kinds

LEMMA KindsNone ==
  Kinds(<<>>) = {} /\ IsSequence(<<>>) /\ ToSet(<<>>) = {}
<1>1. <<>> \in Seq({}) /\ DOMAIN <<>> = {}
  OBVIOUS
<1> QED
  BY <1>1 DEF Kinds, IsSequence, ToSet

LEMMA KindsOne ==
  ASSUME NEW m
  PROVE  Kinds(<<m>>) = {m.kind} /\ IsSequence(<<m>>) /\ ToSet(<<m>>) = {m} /\ Tail(<<m>>) = <<>>
         /\ <<m>> # <<>>
<1>1. <<m>> \in Seq({m}) /\ ToSet(<<m>>) = {m} /\ Tail(<<m>>) = <<>> /\ <<m>> # <<>>
  BY DEF ToSet
<1> QED
  BY <1>1 DEF Kinds, IsSequence

LEMMA NoLinkIs ==
  /\ NoLink.client = "" /\ NoLink.server = "" /\ NoLink.up = {} /\ NoLink.ears = {}
  /\ NoLink.hello = 0
  BY DEF NoLink

\* Where an end is connected or a message waits there are names.
LEMMA NamedEnds ==
  ASSUME NEW N, NEW l, NEW q, Named(N, l, q), NEW e \in Ends, e \in l.up \/ q[e] # <<>>
  PROVE  l.client \in N /\ l.server \in N
<1>1. NoLink.up = {}
  BY DEF NoLink
<1> QED
  BY <1>1, EndsOther DEF Named

LEMMA MoreWaits ==
  ASSUME NEW N, NEW l, NEW q, NEW P, NEW R, Handshake(N, l, q, P), P \subseteq R
  PROVE  Handshake(N, l, q, R)
  BY DEF Handshake, Greeted

\* A message q2 more to the other end of e.
More(q, e, m) == [q EXCEPT ![Other(e)] = Append(@, m)]

LEMMA MoreKinds ==
  ASSUME NEW q, Queues(q), NEW e \in Ends, NEW m
  PROVE  LET r == More(q, e, m) IN
         Queues(r) /\ r[e] = q[e] /\ Longer(q[Other(e)], m, r[Other(e)])
<1>1. PICK r : r = More(q, e, m)
  OBVIOUS
<1>2. /\ DOMAIN r = Ends /\ r[Other(e)] = Append(q[Other(e)], m)
      /\ \A o \in Ends : o # Other(e) => r[o] = q[o]
  BY <1>1, EndsOther DEF More, Queues
<1>3. IsSequence(q[Other(e)])
  BY EndsOther DEF Queues
<1>4. \A o \in Ends : o = e \/ o = Other(e)
  BY EndsOther
<1>5. Queues(r) /\ r[e] = q[e]
  <2>1. IsSequence(Append(q[Other(e)], m))
    BY <1>3, AppendAny
  <2> QED
    BY <1>2, <1>4, <2>1, EndsOther DEF Queues
<1>6. Longer(q[Other(e)], m, Append(q[Other(e)], m))
  BY <1>3, KindsAppend
<1> QED
  BY <1>1, <1>2, <1>5, <1>6

LEMMA SendShake ==
  ASSUME NEW N, NEW l, NEW q, NEW P, Handshake(N, l, q, P), NEW e \in Ends, e \in l.up,
         NEW m, m.kind \notin {"connect", "close", "lost"},
         m.kind = "RESPONSE_PEERS" => m.peers \subseteq N
  PROVE  Handshake(N, l, More(q, e, m), P)
<1>1. PICK r : r = More(q, e, m)
  OBVIOUS
<1>2. Queues(r) /\ r[e] = q[e] /\ Longer(q[Other(e)], m, r[Other(e)])
  BY <1>1, MoreKinds DEF Handshake
<1>3. \A o \in Ends : Kinds(q[o]) \subseteq Kinds(r[o]) /\ Kinds(r[o]) \subseteq Kinds(q[o]) \cup {m.kind}
  BY <1>2, EndsOther DEF Longer
<1>4. Named(N, l, r)
  <2>1. l.client \in N /\ l.server \in N
    BY NamedEnds DEF Handshake
  <2>2. \A o \in Ends : \A u \in ToSet(r[o]) : u.kind = "RESPONSE_PEERS" => u.peers \subseteq N
    BY <1>2, EndsOther DEF Handshake, Named, Longer
  <2> QED
    BY <2>1, <2>2 DEF Named
<1>5. Asked(l, r)
  BY <1>3, EndsOther DEF Handshake, Asked
<1>6. Confirmed(l, r)
  <2> SUFFICES ASSUME "connect" \in Kinds(r["client"])
               PROVE  /\ "client" \notin l.up /\ r["server"] = <<>>
                      /\ "connect" \notin Kinds(Tail(r["client"]))
    BY DEF Confirmed
  <2>1. /\ "client" \notin l.up /\ q["server"] = <<>>
        /\ "connect" \notin Kinds(Tail(q["client"]))
    BY <1>3, EndsOther DEF Handshake, Confirmed
  <2>2. e = "server"
    BY <2>1, EndsOther
  <2> QED
    BY <1>2, <1>3, <2>1, <2>2, EndsOther DEF Longer
<1>7. Closed(l, r) /\ Noticed(l, r)
  BY <1>3, EndsOther DEF Handshake, Closed, Noticed
<1>8. Paired(l, r)
  <2>1. "connect" \in Kinds(r["client"]) <=> "connect" \in Kinds(q["client"])
    BY <1>3, EndsOther
  <2>2. \A o \in Ends : Kinds(q[o]) \cap Broken # {} => Kinds(r[o]) \cap Broken # {}
    BY <1>3
  <2> QED
    BY <2>1, <2>2, EndsOther DEF Handshake, Paired
<1>9. Greeted(l, r, P)
  <2>1. \A k : \A o \in Ends : k \in Kinds(q[o]) => k \in Kinds(r[o])
    BY <1>3
  <2>2. \A o \in Ends : Kinds(q[o]) \cap Broken # {} => Kinds(r[o]) \cap Broken # {}
    BY <1>3
  <2> QED
    BY <2>1, <2>2, EndsOther DEF Handshake, Greeted
<1> QED
  BY <1>1, <1>2, <1>4, <1>5, <1>6, <1>7, <1>8, <1>9 DEF Handshake

\* The server answers the headers of the client.
LEMMA AnswerShake ==
  ASSUME NEW N, NEW l, NEW q, NEW P, Handshake(N, l, q, P \cup {"server"}),
         "server" \in l.ears, NEW m, m.kind = "headers"
  PROVE  Handshake(N, l, IF "server" \in l.up THEN More(q, "server", m) ELSE q, P)
<1>1. CASE "server" \in l.up
  <2>1. PICK r : r = More(q, "server", m)
    OBVIOUS
  <2>2. Handshake(N, l, r, P \cup {"server"})
    BY <1>1, <2>1, EndsOther, SendShake
  <2>3. "headers" \in Kinds(r["client"])
    <3>1. Longer(q["client"], m, r["client"])
      BY <2>1, MoreKinds, EndsOther DEF Handshake
    <3> QED
      BY <3>1 DEF Longer
  <2>4. Greeted(l, r, P)
    BY <2>3 DEF Greeted
  <2> QED
    BY <1>1, <2>1, <2>2, <2>4 DEF Handshake
<1>2. CASE "server" \notin l.up
  <2>1. Greeted(l, q, P)
    BY <1>2 DEF Handshake, Paired, Greeted
  <2> QED
    BY <1>2, <2>1 DEF Handshake
<1> QED
  BY <1>1, <1>2

\* k is l without the end e, and who hears on the other end goes on.
Quitted(l, e, k) ==
  /\ k.up = l.up \ {e} /\ k.ears \subseteq l.ears /\ l.ears \ {e} \subseteq k.ears
  /\ k.client = l.client /\ k.server = l.server
  /\ l = NoLink => k = NoLink

LEMMA QuitShake ==
  ASSUME NEW N, NEW l, NEW q, NEW P, NEW e \in Ends, Handshake(N, l, q, P \cup {e}),
         NEW k, Quitted(l, e, k), NEW m, m.kind = "close"
  PROVE  Handshake(N, k, IF e \in l.up THEN More(q, e, m) ELSE q, P)
<1>1. PICK r : r = IF e \in l.up THEN More(q, e, m) ELSE q
  OBVIOUS
<1>2. /\ Queues(r) /\ r[e] = q[e]
      /\ e \in l.up => Longer(q[Other(e)], m, r[Other(e)])
      /\ e \notin l.up => r = q
  <2>1. Queues(q)
    BY DEF Handshake
  <2>2. PICK t : t = More(q, e, m)
    OBVIOUS
  <2>3. Queues(t) /\ t[e] = q[e] /\ Longer(q[Other(e)], m, t[Other(e)])
    BY <2>1, <2>2, MoreKinds
  <2>4. r = IF e \in l.up THEN t ELSE q
    BY <1>1, <2>2
  <2> QED
    BY <2>1, <2>3, <2>4
<1>3. \A o \in Ends : /\ Kinds(q[o]) \subseteq Kinds(r[o])
                      /\ Kinds(r[o]) \subseteq Kinds(q[o]) \cup {"close"}
  BY <1>2, EndsOther DEF Longer
<1>4. e \in l.up => "close" \in Kinds(r[Other(e)])
  BY <1>2 DEF Longer
<1>5. "close" \in Kinds(r[e]) <=> "close" \in Kinds(q[e])
  BY <1>2
<1>6. Named(N, k, r)
  <2>1. CASE e \in l.up
    <3>1. l.client \in N /\ l.server \in N
      BY <2>1, NamedEnds DEF Handshake
    <3>2. \A o \in Ends : \A u \in ToSet(r[o]) : u.kind = "RESPONSE_PEERS" => u.peers \subseteq N
      BY <1>2, <2>1, EndsOther DEF Handshake, Named, Longer
    <3> QED
      BY <3>1, <3>2 DEF Named, Quitted
  <2>2. CASE e \notin l.up
    BY <1>2, <2>2 DEF Handshake, Named, Quitted
  <2> QED
    BY <2>1, <2>2
<1>7. Asked(k, r)
  <2> SUFFICES ASSUME "connect" \in Kinds(r["server"])
               PROVE  k.up = {} /\ r["client"] = <<>> /\ Tail(r["server"]) = <<>>
    BY DEF Asked
  <2>1. l.up = {} /\ q["client"] = <<>> /\ Tail(q["server"]) = <<>>
    BY <1>3, EndsOther DEF Handshake, Asked
  <2> QED
    BY <1>2, <2>1 DEF Quitted
<1>8. Confirmed(k, r)
  <2> SUFFICES ASSUME "connect" \in Kinds(r["client"])
               PROVE  /\ "client" \notin k.up /\ r["server"] = <<>>
                      /\ "connect" \notin Kinds(Tail(r["client"]))
    BY DEF Confirmed
  <2>1. /\ "client" \notin l.up /\ q["server"] = <<>>
        /\ "connect" \notin Kinds(Tail(q["client"]))
    BY <1>3, EndsOther DEF Handshake, Confirmed
  <2>2. CASE e \notin l.up
    BY <1>2, <2>1, <2>2 DEF Quitted
  <2>3. CASE e \in l.up
    <3>1. e = "server"
      BY <2>1, <2>3, EndsOther
    <3> QED
      BY <1>2, <1>3, <2>1, <2>3, <3>1, EndsOther DEF Longer, Quitted
  <2> QED
    BY <2>2, <2>3
<1>9. Closed(k, r)
  <2>1. \A o \in Ends : "close" \in Kinds(r[o]) => o = Other(e) \/ "close" \in Kinds(q[o])
    BY <1>5, EndsOther
  <2> QED
    BY <2>1, EndsOther DEF Handshake, Closed, Quitted
<1>10. Noticed(k, r)
  <2>1. \A o \in Ends : "lost" \in Kinds(r[o]) <=> "lost" \in Kinds(q[o])
    BY <1>3
  <2> QED
    BY <2>1, EndsOther DEF Handshake, Noticed, Quitted
<1>11. "connect" \in Kinds(r["client"]) <=> "connect" \in Kinds(q["client"])
  BY <1>3, EndsOther
<1>12. \A o \in Ends : Kinds(q[o]) \cap Broken # {} => Kinds(r[o]) \cap Broken # {}
  BY <1>3
<1>13. e \in l.up => Kinds(r[Other(e)]) \cap Broken # {}
  BY <1>4 DEF Broken
<1>14. Paired(k, r)
  <2>1. CASE e = "server"
    BY <1>11, <1>12, <1>13, <2>1, EndsOther DEF Handshake, Paired, Quitted
  <2>2. CASE e = "client"
    BY <1>11, <1>12, <1>13, <2>2, EndsOther DEF Handshake, Paired, Quitted
  <2> QED
    BY <2>1, <2>2, EndsOther
<1>15. Greeted(k, r, P)
  <2>0. \A o \in Ends : "headers" \in Kinds(q[o]) => "headers" \in Kinds(r[o])
    BY <1>3
  <2>1. CASE e = "server"
    <3>1. "client" \in l.up => Kinds(r["client"]) \cap Broken # {}
      BY <1>12, <1>13, <2>1, EndsOther DEF Handshake, Paired
    <3> QED
      BY <2>1, <3>1 DEF Greeted, Quitted
  <2>2. CASE e = "client"
    <3>1. "server" \in l.up \ l.ears =>
            \/ "connect" \in Kinds(q["client"]) \/ "headers" \in Kinds(q["server"])
            \/ "server" \in P \/ Kinds(q["server"]) \cap Broken # {}
      BY <2>2 DEF Handshake, Greeted
    <3> QED
      BY <1>11, <1>12, <2>0, <2>2, <3>1, EndsOther DEF Greeted, Quitted
  <2> QED
    BY <2>1, <2>2, EndsOther
<1> QED
  BY <1>1, <1>2, <1>6, <1>7, <1>8, <1>9, <1>10, <1>14, <1>15 DEF Handshake

\* A listener is attached.
LEMMA HearShake ==
  ASSUME NEW N, NEW l, NEW q, NEW P, Handshake(N, l, q, P), NEW e \in Ends, l # NoLink,
         NEW k, k.up = l.up, k.ears = l.ears \cup {e}, k.client = l.client,
         k.server = l.server
  PROVE  Handshake(N, k, q, P)
<1>1. Named(N, k, q)
  BY DEF Handshake, Named
<1>2. Greeted(k, q, P)
  BY DEF Handshake, Greeted
<1> QED
  BY <1>1, <1>2 DEF Handshake, Asked, Confirmed, Closed, Noticed, Paired

\* The client's headers need not wait when it is listed.
LEMMA ListedShake ==
  ASSUME NEW N, NEW l, NEW q, NEW P, Handshake(N, l, q, P \cup {"client"}),
         "client" \in l.ears
  PROVE  Handshake(N, l, q, P)
<1>1. Greeted(l, q, P)
  BY DEF Handshake, Greeted
<1> QED
  BY <1>1 DEF Handshake

\* The first message that waits at the end e is taken.
Less(q, e) == [q EXCEPT ![e] = Tail(@)]

LEMMA LessKinds ==
  ASSUME NEW q, Queues(q), NEW e \in Ends, q[e] # <<>>
  PROVE  LET r == Less(q, e) IN
         /\ Queues(r) /\ r[e] = Tail(q[e]) /\ r[Other(e)] = q[Other(e)]
         /\ Kinds(q[e]) = {Head(q[e]).kind} \cup Kinds(r[e])
         /\ ToSet(r[e]) \subseteq ToSet(q[e])
<1>1. PICK r : r = Less(q, e)
  OBVIOUS
<1>2. DOMAIN r = Ends /\ r[e] = Tail(q[e]) /\ \A o \in Ends : o # e => r[o] = q[o]
  BY <1>1 DEF Less, Queues
<1>3. IsSequence(q[e])
  BY DEF Queues
<1>4. /\ Kinds(q[e]) = {Head(q[e]).kind} \cup Kinds(Tail(q[e]))
      /\ IsSequence(Tail(q[e])) /\ ToSet(Tail(q[e])) \subseteq ToSet(q[e])
  BY <1>3, KindsTail
<1>5. Queues(r)
  BY <1>2, <1>4 DEF Queues
<1> QED
  BY <1>1, <1>2, <1>4, <1>5, EndsOther

\* What a message less leaves.
LessKeeps(N, l, q, e, r) ==
  /\ Queues(r) /\ r[Other(e)] = q[Other(e)]
  /\ Kinds(q[e]) = {Head(q[e]).kind} \cup Kinds(r[e])
  /\ Named(N, l, r)
  /\ l.client \in N /\ l.server \in N
  /\ "connect" \notin Kinds(r["server"])
  /\ Head(q[e]).kind # "connect" => "connect" \notin Kinds(r["client"])

LEMMA LessShake ==
  ASSUME NEW N, NEW l, NEW q, NEW P, Handshake(N, l, q, P), NEW e \in Ends, q[e] # <<>>
  PROVE  LessKeeps(N, l, q, e, Less(q, e))
<1>1. PICK r : r = Less(q, e)
  OBVIOUS
<1>2. /\ Queues(r) /\ r[e] = Tail(q[e]) /\ r[Other(e)] = q[Other(e)]
      /\ Kinds(q[e]) = {Head(q[e]).kind} \cup Kinds(r[e])
      /\ ToSet(r[e]) \subseteq ToSet(q[e])
  BY <1>1, LessKinds DEF Handshake
<1>3. l.client \in N /\ l.server \in N
  BY NamedEnds DEF Handshake
<1>4. \A o \in Ends : ToSet(r[o]) \subseteq ToSet(q[o]) /\ Kinds(r[o]) \subseteq Kinds(q[o])
  BY <1>2, EndsOther
<1>5. Named(N, l, r)
  BY <1>3, <1>4 DEF Handshake, Named
<1>6. "connect" \notin Kinds(r["server"])
  <2> SUFFICES ASSUME "connect" \in Kinds(r["server"]) PROVE FALSE
    OBVIOUS
  <2>1. q["client"] = <<>> /\ Tail(q["server"]) = <<>>
    BY <1>4, EndsOther DEF Handshake, Asked
  <2>2. e = "server"
    BY <2>1, EndsOther
  <2> QED
    BY <1>2, <2>1, <2>2, KindsNone
<1>7. Head(q[e]).kind # "connect" => "connect" \notin Kinds(r["client"])
  <2> SUFFICES ASSUME "connect" \in Kinds(r["client"]), Head(q[e]).kind # "connect"
               PROVE  FALSE
    OBVIOUS
  <2>1. q["server"] = <<>> /\ "connect" \notin Kinds(Tail(q["client"]))
    BY <1>4, EndsOther DEF Handshake, Confirmed
  <2>2. e = "client"
    BY <2>1, EndsOther
  <2> QED
    BY <1>2, <2>1, <2>2
<1> QED
  BY <1>1, <1>2, <1>3, <1>5, <1>6, <1>7 DEF LessKeeps

\* k is l with the end e connected.
Entered(l, e, k) ==
  /\ k.up = l.up \cup {e} /\ k.ears = l.ears
  /\ k.client = l.client /\ k.server = l.server

LEMMA ServerConnectShake ==
  ASSUME NEW N, NEW l, NEW q, NEW P, Handshake(N, l, q, P), q["server"] # <<>>,
         Head(q["server"]).kind = "connect", NEW k, Entered(l, "server", k),
         NEW m, m.kind = "connect"
  PROVE  Handshake(N, k, More(Less(q, "server"), "server", m), P)
<1>1. PICK r, t : r = Less(q, "server") /\ t = More(r, "server", m)
  OBVIOUS
<1>2. LessKeeps(N, l, q, "server", r)
  BY <1>1, LessShake, EndsOther
<1>3. "connect" \in Kinds(q["server"])
  BY <1>2 DEF LessKeeps
<1>4. l.up = {} /\ q["client"] = <<>> /\ Tail(q["server"]) = <<>>
  BY <1>3 DEF Handshake, Asked
<1>5. r["client"] = <<>> /\ r["server"] = <<>>
  <2>1. r["server"] = Tail(q["server"])
    BY <1>1, EndsOther, LessKinds DEF Handshake
  <2> QED
    BY <1>2, <1>4, <2>1, EndsOther DEF LessKeeps
<1>6. Queues(t) /\ t["server"] = <<>> /\ Longer(<<>>, m, t["client"])
  BY <1>1, <1>2, <1>5, MoreKinds, EndsOther DEF LessKeeps
<1>7. /\ Kinds(t["server"]) = {} /\ Kinds(t["client"]) = {"connect"} /\ ToSet(t["server"]) = {}
      /\ ToSet(t["client"]) = {m} /\ Kinds(Tail(t["client"])) = {}
  BY <1>6, KindsNone DEF Longer
<1>8. Named(N, k, t)
  BY <1>2, <1>7, EndsOther DEF Named, LessKeeps, Entered
<1>9. k.up = {"server"}
  BY <1>4 DEF Entered
<1>10. Asked(k, t) /\ Confirmed(k, t)
  BY <1>6, <1>7, <1>9 DEF Asked, Confirmed
<1>11. Closed(k, t) /\ Noticed(k, t)
  BY <1>7, EndsOther DEF Closed, Noticed
<1>12. Paired(k, t) /\ Greeted(k, t, P)
  BY <1>7, <1>9 DEF Paired, Greeted
<1> QED
  BY <1>1, <1>6, <1>8, <1>10, <1>11, <1>12 DEF Handshake

LEMMA ClientConnectShake ==
  ASSUME NEW N, NEW l, NEW q, NEW P, Handshake(N, l, q, P), q["client"] # <<>>,
         Head(q["client"]).kind = "connect", NEW k, Entered(l, "client", k),
         NEW m, m.kind = "headers"
  PROVE  Handshake(N, k, More(Less(q, "client"), "client", m), P)
<1>1. PICK r, t : r = Less(q, "client") /\ t = More(r, "client", m)
  OBVIOUS
<1>2. LessKeeps(N, l, q, "client", r)
  BY <1>1, LessShake, EndsOther
<1>3. "connect" \in Kinds(q["client"])
  BY <1>2 DEF LessKeeps
<1>4. /\ "client" \notin l.up /\ q["server"] = <<>>
      /\ "connect" \notin Kinds(Tail(q["client"]))
  BY <1>3 DEF Handshake, Confirmed
<1>5. r["server"] = <<>> /\ "connect" \notin Kinds(r["client"])
  <2>1. r["client"] = Tail(q["client"])
    BY <1>1, EndsOther, LessKinds DEF Handshake
  <2> QED
    BY <1>2, <1>4, <2>1, EndsOther DEF LessKeeps
<1>6. Queues(t) /\ t["client"] = r["client"] /\ Longer(<<>>, m, t["server"])
  BY <1>1, <1>2, <1>5, MoreKinds, EndsOther DEF LessKeeps
<1>7. /\ Kinds(t["server"]) = {"headers"} /\ ToSet(t["server"]) = {m}
      /\ Kinds(q["server"]) = {} /\ Kinds(q["client"]) = {"connect"} \cup Kinds(t["client"])
      /\ "connect" \notin Kinds(t["client"])
  BY <1>2, <1>4, <1>5, <1>6, KindsNone, EndsOther DEF Longer, LessKeeps
<1>8. Named(N, k, t)
  BY <1>2, <1>6, <1>7, EndsOther DEF Named, LessKeeps, Entered
<1>9. Asked(k, t) /\ Confirmed(k, t)
  BY <1>7 DEF Asked, Confirmed
<1>10. Closed(k, t)
  <2>1. "close" \in Kinds(q["client"]) => "server" \notin l.up
    BY EndsOther DEF Handshake, Closed
  <2> QED
    BY <1>7, <2>1, EndsOther DEF Closed, Entered
<1>11. Noticed(k, t)
  <2>1. "lost" \in Kinds(q["client"]) => "server" \notin l.up
    BY <1>7, EndsOther DEF Handshake, Noticed
  <2> QED
    BY <1>7, <2>1, EndsOther DEF Noticed, Entered
<1>12. Paired(k, t)
  <2>1. "server" \in l.up \/ Kinds(t["client"]) \cap Broken # {}
    BY <1>3, <1>7 DEF Handshake, Paired, Broken
  <2> QED
    BY <2>1 DEF Paired, Entered
<1>13. Greeted(k, t, P)
  BY <1>7 DEF Greeted
<1> QED
  BY <1>1, <1>6, <1>8, <1>9, <1>10, <1>11, <1>12, <1>13 DEF Handshake

LEMMA HeadersShake ==
  ASSUME NEW N, NEW l, NEW q, NEW P, Handshake(N, l, q, P), NEW e \in Ends, q[e] # <<>>,
         Head(q[e]).kind = "headers"
  PROVE  Handshake(N, l, Less(q, e), IF e \in l.up THEN P \cup {e} ELSE P)
<1>1. PICK r : r = Less(q, e)
  OBVIOUS
<1>2. LessKeeps(N, l, q, e, r)
  BY <1>1, LessShake
<1>3. \A o \in Ends : \A c : c # "headers" => (c \in Kinds(r[o]) <=> c \in Kinds(q[o]))
  BY <1>2, EndsOther DEF LessKeeps
<1>4. \A o \in Ends : Kinds(r[o]) \cap Broken # {} <=> Kinds(q[o]) \cap Broken # {}
  BY <1>3 DEF Broken
<1>5. Asked(l, r) /\ Confirmed(l, r)
  BY <1>2 DEF Asked, Confirmed, LessKeeps
<1>6. Closed(l, r) /\ Noticed(l, r)
  BY <1>3, EndsOther DEF Handshake, Closed, Noticed
<1>7. Paired(l, r)
  BY <1>3, <1>4, EndsOther DEF Handshake, Paired
<1>8. Greeted(l, r, IF e \in l.up THEN P \cup {e} ELSE P)
  <2>1. CASE e = "server"
    <3>1. r["client"] = q["client"]
      BY <1>2, <2>1, EndsOther DEF LessKeeps
    <3>2. CASE "server" \in l.up
      BY <1>4, <2>1, <3>1, <3>2 DEF Handshake, Greeted
    <3>3. CASE "server" \notin l.up
      <4>1. "client" \in l.up => Kinds(r["client"]) \cap Broken # {}
        BY <1>4, <3>3, EndsOther DEF Handshake, Paired
      <4> QED
        BY <2>1, <3>3, <4>1 DEF Greeted
    <3> QED
      BY <3>2, <3>3
  <2>2. CASE e = "client"
    <3>1. r["server"] = q["server"]
      BY <1>2, <2>2, EndsOther DEF LessKeeps
    <3>2. "connect" \in Kinds(r["client"]) <=> "connect" \in Kinds(q["client"])
      BY <1>3, EndsOther
    <3> QED
      BY <1>4, <2>2, <3>1, <3>2, EndsOther DEF Handshake, Greeted
  <2> QED
    BY <2>1, <2>2, EndsOther
<1> QED
  BY <1>1, <1>2, <1>5, <1>6, <1>7, <1>8 DEF Handshake, LessKeeps

\* The end e learns that the socket is closed.
LEMMA CloseShake ==
  ASSUME NEW N, NEW l, NEW q, NEW P, Handshake(N, l, q, P), NEW e \in Ends, q[e] # <<>>,
         Head(q[e]).kind \in Broken, NEW k, Quitted(l, e, k)
  PROVE  Handshake(N, k, Less(q, e), P)
<1>1. PICK r : r = Less(q, e)
  OBVIOUS
<1>2. LessKeeps(N, l, q, e, r)
  BY <1>1, LessShake
<1>3. \A o \in Ends : Kinds(r[o]) \subseteq Kinds(q[o])
  BY <1>2, EndsOther DEF LessKeeps
<1>4. Asked(k, r) /\ Confirmed(k, r)
  BY <1>2 DEF Asked, Confirmed, LessKeeps, Broken
<1>5. Named(N, k, r)
  BY <1>2 DEF LessKeeps, Named, Quitted
<1>6. Closed(k, r)
  BY <1>3 DEF Handshake, Closed, Quitted
<1>7. r[Other(e)] = q[Other(e)] /\ e \notin k.up /\ k.up \subseteq l.up
  BY <1>2 DEF LessKeeps, Quitted
<1>8. Noticed(k, r)
  <2> SUFFICES ASSUME NEW o \in Ends, "lost" \in Kinds(r[o])
               PROVE  Other(o) \notin k.up \/ "lost" \in Kinds(r[Other(o)])
    BY DEF Noticed
  <2>1. CASE o = e
    BY <1>3, <1>7, <2>1 DEF Handshake, Noticed
  <2>2. CASE o = Other(e)
    BY <1>7, <2>2, EndsOther
  <2> QED
    BY <2>1, <2>2, EndsOther
\* The other end is closed already, or about to notice.
<1>9. \/ Other(e) \notin l.up
      \/ "lost" \in Kinds(r[Other(e)])
  <2>1. Head(q[e]).kind \in Kinds(q[e])
    BY <1>2 DEF LessKeeps
  <2> QED
    BY <1>7, <2>1 DEF Handshake, Closed, Noticed, Broken
<1>10. Other(e) \in k.up => Kinds(r[Other(e)]) \cap Broken # {}
  BY <1>7, <1>9 DEF Broken
<1>11. "connect" \notin Kinds(r["client"])
  BY <1>2 DEF LessKeeps, Broken
<1>12. Paired(k, r)
  BY <1>7, <1>10, <1>11, EndsOther DEF Paired
<1>13. Greeted(k, r, P)
  BY <1>7, <1>10, EndsOther DEF Greeted
<1> QED
  BY <1>1, <1>2, <1>4, <1>5, <1>6, <1>8, <1>12, <1>13 DEF Handshake, LessKeeps

LEMMA OtherShake ==
  ASSUME NEW N, NEW l, NEW q, NEW P, Handshake(N, l, q, P), NEW e \in Ends, q[e] # <<>>,
         Head(q[e]).kind \notin {"connect", "headers", "close", "lost"}
  PROVE  Handshake(N, l, Less(q, e), P)
<1>1. PICK r : r = Less(q, e)
  OBVIOUS
<1>2. LessKeeps(N, l, q, e, r)
  BY <1>1, LessShake
<1>3. \A o \in Ends : \A c \in {"connect", "headers", "close", "lost"} :
        c \in Kinds(r[o]) <=> c \in Kinds(q[o])
  BY <1>2, EndsOther DEF LessKeeps
<1>4. \A o \in Ends : Kinds(r[o]) \cap Broken # {} <=> Kinds(q[o]) \cap Broken # {}
  BY <1>3 DEF Broken
<1>5. Asked(l, r) /\ Confirmed(l, r)
  BY <1>2 DEF Asked, Confirmed, LessKeeps
<1>6. Closed(l, r) /\ Noticed(l, r)
  BY <1>3, EndsOther DEF Handshake, Closed, Noticed
<1>7. Paired(l, r)
  BY <1>3, <1>4, EndsOther DEF Handshake, Paired
<1>8. Greeted(l, r, P)
  BY <1>3, <1>4, EndsOther DEF Handshake, Greeted
<1> QED
  BY <1>1, <1>2, <1>5, <1>6, <1>7, <1>8 DEF Handshake, LessKeeps

LEMMA OpenShake ==
  ASSUME NEW N, NEW n \in N, NEW p \in N, NEW q, Queues(q), q["client"] = <<>>,
         NEW m, m.kind = "connect", q["server"] = <<m>>, NEW P
  PROVE  Handshake(N, Opened(n, p), q, P)
<1>1. PICK k : k = Opened(n, p)
  OBVIOUS
<1>2. k.client = n /\ k.server = p /\ k.up = {} /\ k.ears = {}
  BY <1>1 DEF Opened
<1>3. /\ Kinds(q["server"]) = {"connect"} /\ ToSet(q["server"]) = {m}
      /\ Tail(q["server"]) = <<>>
      /\ Kinds(q["client"]) = {} /\ ToSet(q["client"]) = {}
  BY KindsOne, KindsNone
<1>4. Named(N, k, q)
  BY <1>2, <1>3, EndsOther DEF Named
<1>5. Asked(k, q) /\ Confirmed(k, q) /\ Closed(k, q) /\ Noticed(k, q)
  BY <1>2, <1>3, EndsOther DEF Asked, Confirmed, Closed, Noticed
<1>6. Paired(k, q) /\ Greeted(k, q, P)
  BY <1>2, <1>3 DEF Paired, Greeted
<1> QED
  BY <1>1, <1>4, <1>5, <1>6 DEF Handshake

LEMMA LoseShake ==
  ASSUME NEW N, NEW l, NEW q, NEW P, Handshake(N, l, q, P), l # NoLink,
         NEW m, m.kind = "lost", NEW r, r = [e \in Ends |-> <<m>>]
  PROVE  Handshake(N, l, r, P)
<1>1. \A e \in Ends : /\ Kinds(r[e]) = {"lost"} /\ ToSet(r[e]) = {m} /\ IsSequence(r[e])
  BY KindsOne
<1>2. Queues(r)
  BY <1>1 DEF Queues
<1>3. Named(N, l, r)
  BY <1>1 DEF Handshake, Named
<1>4. Asked(l, r) /\ Confirmed(l, r) /\ Closed(l, r) /\ Noticed(l, r)
  BY <1>1, EndsOther DEF Asked, Confirmed, Closed, Noticed
<1>5. \A e \in Ends : Kinds(r[e]) \cap Broken # {}
  BY <1>1 DEF Broken
<1>6. Paired(l, r) /\ Greeted(l, r, P)
  BY <1>5, EndsOther DEF Paired, Greeted
<1> QED
  BY <1>2, <1>3, <1>4, <1>6 DEF Handshake

LEMMA NoShake ==
  ASSUME NEW N, NEW P
  PROVE  Handshake(N, NoLink, Silent, P)
<1>1. \A e \in Ends : Silent[e] = <<>> /\ Kinds(Silent[e]) = {} /\ ToSet(Silent[e]) = {}
                      /\ IsSequence(Silent[e])
  BY KindsNone DEF Silent
<1>2. Queues(Silent)
  BY <1>1 DEF Queues, Silent
<1>3. NoLink.up = {}
  BY DEF NoLink
<1>4. Named(N, NoLink, Silent)
  BY <1>1, EndsOther DEF Named
<1>5. /\ Asked(NoLink, Silent) /\ Confirmed(NoLink, Silent) /\ Closed(NoLink, Silent)
      /\ Noticed(NoLink, Silent)
  BY <1>1, EndsOther DEF Asked, Confirmed, Closed, Noticed
<1>6. Paired(NoLink, Silent) /\ Greeted(NoLink, Silent, P)
  BY <1>1, <1>3, EndsOther DEF Paired, Greeted
<1> QED
  BY <1>2, <1>4, <1>5, <1>6 DEF Handshake

-----------------------------------------------------------------------------
(* The handshakes of a world, in which the headers that came to X wait to  *)
(* be handled besides those that are posted.                               *)

Greets(v, s, e) == v.kind = "HEADERS_RECEIVE" /\ v.s = s /\ v.e = e
Awaits(N, w, s, X) ==
  {e \in Ends : \/ [s |-> s, e |-> e] \in X
                \/ \E n \in N : \E v \in ToSet(w.posted[n]) : Greets(v, s, e)}

\* The entry x that the node n has for the peer p is a connection of the two.
Connects(N, w, n, p, x) ==
  /\ p \in N /\ x.s \in Sockets /\ x.e \in Ends
  /\ EndOf(w, x.s, x.e) = n /\ EndOf(w, x.s, Other(x.e)) = p

Shaking(N, w, X) ==
  /\ DOMAIN w.wire = Sockets
  /\ \A s \in Sockets : Handshake(N, w.link[s], w.wire[s], Awaits(N, w, s, X))
  /\ \A n \in N : \A p \in Entries(w, n) : Connects(N, w, n, p, w.network[n][p])
  /\ \A n \in N : \A v \in ToSet(w.posted[n]) : v.kind = "HEADERS_RECEIVE" => v.peer \in N

Sound(N, b, w, X) == Consistent(N, b, w) /\ Shaking(N, w, X)

\* v is w but for the socket s and its queues.
OnlySocket(w, v, s) ==
  /\ IsRecord(v)
  /\ v.memory = w.memory /\ v.network = w.network /\ v.posted = w.posted
  /\ DOMAIN v.link = Sockets /\ DOMAIN v.wire = Sockets
  /\ \A t \in Sockets : t # s => v.link[t] = w.link[t] /\ v.wire[t] = w.wire[t]
  /\ \A e \in Ends : EndOf(v, s, e) = EndOf(w, s, e)

SameElsewhere(X, Y, s) ==
  \A t, e : t # s => ([s |-> t, e |-> e] \in X <=> [s |-> t, e |-> e] \in Y)

LEMMA OneSocket ==
  ASSUME NEW N, NEW w, NEW X, Shaking(N, w, X), NEW s \in Sockets, NEW v,
         OnlySocket(w, v, s), NEW Y, SameElsewhere(X, Y, s),
         Handshake(N, v.link[s], v.wire[s], Awaits(N, w, s, Y))
  PROVE  Shaking(N, v, Y)
<1>1. \A t \in Sockets : Awaits(N, v, t, Y) = Awaits(N, w, t, Y)
  BY DEF Awaits, OnlySocket
<1>2. \A t \in Sockets : t # s => Awaits(N, w, t, Y) = Awaits(N, w, t, X)
  BY DEF Awaits, SameElsewhere
<1>3. ASSUME NEW t \in Sockets
      PROVE  Handshake(N, v.link[t], v.wire[t], Awaits(N, v, t, Y))
  <2>1. CASE t = s
    <3>1. Awaits(N, v, t, Y) = Awaits(N, w, s, Y)
      BY <1>1, <2>1
    <3> QED
      BY <2>1, <3>1
  <2>2. CASE t # s
    <3>1. v.link[t] = w.link[t] /\ v.wire[t] = w.wire[t]
      BY <2>2 DEF OnlySocket
    <3>2. Awaits(N, v, t, Y) = Awaits(N, w, t, X)
      BY <1>1, <1>2, <2>2
    <3>3. Handshake(N, w.link[t], w.wire[t], Awaits(N, w, t, X))
      BY DEF Shaking
    <3> QED
      BY <3>1, <3>2, <3>3
  <2> QED
    BY <2>1, <2>2
<1>4. \A t \in Sockets, e \in Ends : EndOf(v, t, e) = EndOf(w, t, e)
  BY DEF OnlySocket, EndOf
<1>5. \A n \in N : \A p \in Entries(v, n) : Connects(N, v, n, p, v.network[n][p])
  <2> SUFFICES ASSUME NEW n \in N, NEW p \in Entries(v, n)
               PROVE  Connects(N, v, n, p, v.network[n][p])
    OBVIOUS
  <2>1. v.network = w.network /\ p \in Entries(w, n)
    BY DEF OnlySocket, Entries
  <2>2. Connects(N, w, n, p, w.network[n][p])
    BY <2>1 DEF Shaking
  <2> QED
    BY <1>4, <2>1, <2>2, EndsOther DEF Connects
<1>6. \A n \in N : \A u \in ToSet(v.posted[n]) : u.kind = "HEADERS_RECEIVE" => u.peer \in N
  BY DEF Shaking, OnlySocket
<1>7. DOMAIN v.wire = Sockets
  BY DEF OnlySocket
<1> QED
  BY <1>3, <1>5, <1>6, <1>7 DEF Shaking

\* The world with other queues of the socket s, or another state of it.
Rewired(w, s, q) == [w EXCEPT !.wire = [w.wire EXCEPT ![s] = q]]
Relinked(w, s, l) == [w EXCEPT !.link = [w.link EXCEPT ![s] = l]]

LEMMA RewiredIs ==
  ASSUME NEW N, NEW w, Shape(N, w), DOMAIN w.wire = Sockets, NEW s \in Sockets, NEW q
  PROVE  /\ OnlySocket(w, Rewired(w, s, q), s)
         /\ Rewired(w, s, q).link = w.link /\ Rewired(w, s, q).wire[s] = q
<1>1. PICK x, v : x = [w.wire EXCEPT ![s] = q] /\ v = Rewired(w, s, q)
  OBVIOUS
<1>2. v = [memory |-> w.memory, network |-> w.network, posted |-> w.posted, link |-> w.link,
           wire |-> x]
  BY <1>1 DEF Rewired, Shape, IsRecord
<1>3. /\ v.memory = w.memory /\ v.network = w.network /\ v.posted = w.posted
      /\ v.link = w.link /\ v.wire = x /\ IsRecord(v)
  BY <1>2 DEF IsRecord
<1>4. DOMAIN x = Sockets /\ x[s] = q /\ \A t \in Sockets : t # s => x[t] = w.wire[t]
  BY <1>1
<1>5. \A e \in Ends : EndOf(v, s, e) = EndOf(w, s, e)
  BY <1>3 DEF EndOf
<1>6. OnlySocket(w, v, s)
  BY <1>3, <1>4, <1>5 DEF OnlySocket, Shape
<1> QED
  BY <1>1, <1>3, <1>4, <1>6

LEMMA RelinkedIs ==
  ASSUME NEW N, NEW w, Shape(N, w), DOMAIN w.wire = Sockets, NEW s \in Sockets, NEW l,
         l.client = w.link[s].client, l.server = w.link[s].server
  PROVE  /\ OnlySocket(w, Relinked(w, s, l), s)
         /\ Relinked(w, s, l).wire = w.wire /\ Relinked(w, s, l).link[s] = l
<1>1. PICK j, v : j = [w.link EXCEPT ![s] = l] /\ v = Relinked(w, s, l)
  OBVIOUS
<1>2. v = [memory |-> w.memory, network |-> w.network, posted |-> w.posted, link |-> j,
           wire |-> w.wire]
  BY <1>1 DEF Relinked, Shape, IsRecord
<1>3. /\ v.memory = w.memory /\ v.network = w.network /\ v.posted = w.posted
      /\ v.link = j /\ v.wire = w.wire /\ IsRecord(v)
  BY <1>2 DEF IsRecord
<1>4. DOMAIN j = Sockets /\ j[s] = l /\ \A t \in Sockets : t # s => j[t] = w.link[t]
  BY <1>1 DEF Shape
<1>5. \A e \in Ends : EndOf(v, s, e) = EndOf(w, s, e)
  BY <1>3, <1>4 DEF EndOf
<1>6. OnlySocket(w, v, s)
  BY <1>3, <1>4, <1>5 DEF OnlySocket
<1> QED
  BY <1>1, <1>3, <1>4, <1>6

LEMMA OnlyTwice ==
  ASSUME NEW u, NEW v, NEW w, NEW s, OnlySocket(u, v, s), OnlySocket(v, w, s)
  PROVE  OnlySocket(u, w, s)
  BY DEF OnlySocket

LEMMA OnlyNothing ==
  ASSUME NEW N, NEW w, Shape(N, w), DOMAIN w.wire = Sockets, NEW s PROVE OnlySocket(w, w, s)
  BY DEF OnlySocket, Shape

\* A message to the other end, when this one is connected.
Sent(w, s, e, m) == IF e \in w.link[s].up THEN More(w.wire[s], e, m) ELSE w.wire[s]

LEMMA SendIs ==
  ASSUME NEW N, NEW w, Shape(N, w), DOMAIN w.wire = Sockets, NEW s \in Sockets, NEW e, NEW m
  PROVE  /\ OnlySocket(w, Send(w, s, e, m), s)
         /\ Send(w, s, e, m).link = w.link
         /\ Send(w, s, e, m).wire[s] = Sent(w, s, e, m)
<1>1. CASE e \in w.link[s].up
  <2>1. PICK q : q = More(w.wire[s], e, m)
    OBVIOUS
  <2>2. [w EXCEPT !.wire[s][Other(e)] = Append(@, m)] = Rewired(w, s, q)
    BY <2>1 DEF More, Rewired
  <2>3. Send(w, s, e, m) = Rewired(w, s, q) /\ Sent(w, s, e, m) = q
    BY <1>1, <2>1, <2>2 DEF Send, Sent
  <2> QED
    BY <2>3, RewiredIs
<1>2. CASE e \notin w.link[s].up
  <2>1. Send(w, s, e, m) = w /\ Sent(w, s, e, m) = w.wire[s]
    BY <1>2 DEF Send, Sent
  <2> QED
    BY <2>1, OnlyNothing
<1> QED
  BY <1>1, <1>2

\* A message that opens and closes nothing.
Plain(N, m) ==
  /\ m.kind \notin {"connect", "close", "lost"}
  /\ m.kind = "RESPONSE_PEERS" => m.peers \subseteq N

LEMMA SendShaking ==
  ASSUME NEW N, NEW w, Shape(N, w), NEW X, Shaking(N, w, X), NEW s \in Sockets,
         NEW e \in Ends, NEW m, Plain(N, m)
  PROVE  Shaking(N, Send(w, s, e, m), X)
<1>1. PICK v, q : v = Send(w, s, e, m) /\ q = Sent(w, s, e, m)
  OBVIOUS
<1>2. OnlySocket(w, v, s) /\ v.link = w.link /\ v.wire[s] = q
  BY <1>1, SendIs DEF Shaking
<1>3. Handshake(N, w.link[s], w.wire[s], Awaits(N, w, s, X))
  BY DEF Shaking
<1>4. Handshake(N, w.link[s], q, Awaits(N, w, s, X))
  <2>1. CASE e \in w.link[s].up
    BY <1>1, <1>3, <2>1, SendShake DEF Plain, Sent
  <2>2. CASE e \notin w.link[s].up
    BY <1>1, <1>3, <2>2 DEF Sent
  <2> QED
    BY <2>1, <2>2
<1>5. Handshake(N, v.link[s], v.wire[s], Awaits(N, w, s, X))
  BY <1>2, <1>4
<1>6. Shaking(N, v, X)
  BY <1>2, <1>5, OneSocket DEF SameElsewhere
<1> QED
  BY <1>1, <1>6

\* The server answers headers, when it has listed the client.
LEMMA AnswerShaking ==
  ASSUME NEW N, NEW w, Shape(N, w), NEW s \in Sockets,
         Shaking(N, w, {[s |-> s, e |-> "server"]}), "server" \in w.link[s].ears,
         NEW m, m.kind = "headers"
  PROVE  Shaking(N, Send(w, s, "server", m), {})
<1>1. PICK v, q, P, X : /\ v = Send(w, s, "server", m) /\ q = Sent(w, s, "server", m)
                        /\ P = Awaits(N, w, s, {}) /\ X = {[s |-> s, e |-> "server"]}
  OBVIOUS
<1>2. OnlySocket(w, v, s) /\ v.link = w.link /\ v.wire[s] = q
  BY <1>1, SendIs DEF Shaking
<1>3. Awaits(N, w, s, X) \subseteq P \cup {"server"}
  BY <1>1 DEF Awaits
<1>4. Handshake(N, w.link[s], w.wire[s], P \cup {"server"})
  BY <1>1, <1>3, MoreWaits DEF Shaking
<1>5. Handshake(N, w.link[s], q, P)
  BY <1>1, <1>4, AnswerShake DEF Sent
<1>6. SameElsewhere(X, {}, s)
  BY <1>1 DEF SameElsewhere
<1>7. Handshake(N, v.link[s], v.wire[s], Awaits(N, w, s, {}))
  BY <1>1, <1>2, <1>5
<1>8. Shaking(N, v, {})
  BY <1>1, <1>2, <1>6, <1>7, OneSocket
<1> QED
  BY <1>1, <1>8

\* An end that is closed need not wait any more.
LEMMA DisconnectIs ==
  ASSUME NEW N, NEW w, Shape(N, w), DOMAIN w.wire = Sockets, NEW s \in Sockets, NEW e,
         NEW v, v = Disconnect(w, s, e)
  PROVE  /\ OnlySocket(w, v, s) /\ Quitted(w.link[s], e, v.link[s])
         /\ v.wire[s] = Sent(w, s, e, [kind |-> "close"])
         /\ v.link[s].ears = w.link[s].ears
<1>1. PICK u, l, k : /\ u = Send(w, s, e, [kind |-> "close"]) /\ l = u.link[s]
                     /\ k = [l EXCEPT !.up = l.up \ {e}]
  OBVIOUS
<1>2. /\ OnlySocket(w, u, s) /\ u.link = w.link
      /\ u.wire[s] = Sent(w, s, e, [kind |-> "close"])
  BY <1>1, SendIs
<1>3. Shape(N, u)
  BY <1>1, SendCalmer, CalmerShape
<1>4. v = Relinked(u, s, k)
  BY <1>1 DEF Disconnect, Relinked
<1>5. IsLink(l)
  BY <1>1, <1>3 DEF Shape
<1>6. k = [client |-> l.client, server |-> l.server, up |-> l.up \ {e}, ears |-> l.ears,
           hello |-> l.hello]
  BY <1>1, <1>5 DEF IsLink
<1>7. l = NoLink => k = NoLink
  <2>1. {} \ {e} = {}
    OBVIOUS
  <2>2. l = NoLink => /\ l.client = "" /\ l.server = "" /\ l.up = {} /\ l.ears = {}
                      /\ l.hello = 0
    BY NoLinkIs
  <2> QED
    BY <1>6, <2>1, <2>2 DEF NoLink
<1>8. Quitted(l, e, k) /\ k.ears = l.ears
  BY <1>6, <1>7 DEF Quitted
<1>9. OnlySocket(u, v, s) /\ v.wire = u.wire /\ v.link[s] = k
  BY <1>1, <1>2, <1>3, <1>4, <1>6, RelinkedIs DEF OnlySocket
<1> QED
  BY <1>1, <1>2, <1>8, <1>9, OnlyTwice

LEMMA DisconnectShaking ==
  ASSUME NEW N, NEW w, Shape(N, w), NEW X, Shaking(N, w, X), NEW s \in Sockets,
         NEW e \in Ends
  PROVE  Shaking(N, Disconnect(w, s, e), X \ {[s |-> s, e |-> e]})
<1>1. PICK v, Y, P, m : /\ v = Disconnect(w, s, e) /\ Y = X \ {[s |-> s, e |-> e]}
                        /\ P = Awaits(N, w, s, Y) /\ m = [kind |-> "close"]
  OBVIOUS
<1>2. /\ OnlySocket(w, v, s) /\ Quitted(w.link[s], e, v.link[s])
      /\ v.wire[s] = Sent(w, s, e, m)
  BY <1>1, DisconnectIs DEF Shaking
<1>3. Awaits(N, w, s, X) \subseteq P \cup {e}
  BY <1>1 DEF Awaits
<1>4. Handshake(N, w.link[s], w.wire[s], P \cup {e})
  BY <1>3, MoreWaits DEF Shaking
<1>5. m.kind = "close"
  BY <1>1
<1>6. Handshake(N, v.link[s], Sent(w, s, e, m), P)
  BY <1>2, <1>4, <1>5, QuitShake DEF Sent
<1>7. SameElsewhere(X, Y, s)
  BY <1>1 DEF SameElsewhere
<1>8. Shaking(N, v, Y)
  BY <1>1, <1>2, <1>6, <1>7, OneSocket
<1> QED
  BY <1>1, <1>8

\* A connection is given up, with its listeners.
LEMMA HangupShaking ==
  ASSUME NEW N, NEW w, Shape(N, w), NEW X, Shaking(N, w, X), NEW s \in Sockets,
         NEW e \in Ends
  PROVE  Shaking(N, Hangup(w, s, e), X)
<1>1. PICK l, k, u, v, m : /\ l = w.link[s] /\ k = [l EXCEPT !.ears = l.ears \ {e}]
                           /\ u = Relinked(w, s, k) /\ v = Hangup(w, s, e)
                           /\ m = [kind |-> "close"]
  OBVIOUS
<1>2. v = Disconnect(u, s, e)
  BY <1>1 DEF Hangup, Relinked
<1>3. IsLink(l)
  BY <1>1 DEF Shape
<1>4. k = [client |-> l.client, server |-> l.server, up |-> l.up, ears |-> l.ears \ {e},
           hello |-> l.hello]
  BY <1>1, <1>3 DEF IsLink
<1>5. OnlySocket(w, u, s) /\ u.wire = w.wire /\ u.link[s] = k
  BY <1>1, <1>4, RelinkedIs DEF Shaking
<1>6. Shape(N, u)
  <2>1. \A t \in Sockets : IsLink(u.link[t])
    BY <1>4, <1>5 DEF Shape, OnlySocket, IsLink
  <2>2. \A n : Entries(u, n) = Entries(w, n)
    BY <1>5 DEF OnlySocket, Entries
  <2> QED
    BY <1>5, <2>1, <2>2 DEF Shape, OnlySocket
<1>7. /\ OnlySocket(u, v, s) /\ Quitted(k, e, v.link[s]) /\ v.wire[s] = Sent(u, s, e, m)
      /\ v.link[s].ears = k.ears
  <2>1. DOMAIN u.wire = Sockets
    BY <1>5 DEF OnlySocket
  <2>2. /\ OnlySocket(u, v, s) /\ Quitted(u.link[s], e, v.link[s])
        /\ v.wire[s] = Sent(u, s, e, [kind |-> "close"]) /\ v.link[s].ears = u.link[s].ears
    BY <1>2, <1>6, <2>1, DisconnectIs
  <2> QED
    BY <1>1, <1>5, <2>2
<1>8. Quitted(l, e, v.link[s])
  <2>1. {} \ {e} = {}
    OBVIOUS
  <2>2. l = NoLink => /\ l.client = "" /\ l.server = "" /\ l.up = {} /\ l.ears = {}
                      /\ l.hello = 0
    BY NoLinkIs
  <2>3. l = NoLink => k = NoLink
    BY <1>4, <2>1, <2>2 DEF NoLink
  <2> QED
    BY <1>4, <1>7, <2>3 DEF Quitted
<1>9. Sent(u, s, e, m) = Sent(w, s, e, m)
  BY <1>1, <1>4, <1>5 DEF Sent
<1>10. OnlySocket(w, v, s)
  BY <1>5, <1>7, OnlyTwice
<1>11. PICK P : P = Awaits(N, w, s, X)
  OBVIOUS
<1>12. Handshake(N, l, w.wire[s], P \cup {e})
  BY <1>1, <1>11, MoreWaits DEF Shaking
<1>13. Handshake(N, v.link[s], Sent(w, s, e, m), P)
  <2>1. m.kind = "close"
    BY <1>1
  <2> QED
    BY <1>1, <1>8, <1>12, <2>1, QuitShake DEF Sent
<1>14. Shaking(N, v, X)
  BY <1>7, <1>9, <1>10, <1>11, <1>13, OneSocket DEF SameElsewhere
<1> QED
  BY <1>1, <1>14

-----------------------------------------------------------------------------
(* Callbacks, repositories and new sockets.                                *)

LEMMA CallbacksShaking ==
  ASSUME NEW N, NEW w, Shape(N, w), NEW X, Shaking(N, w, X), NEW x,
         \A n \in N : \A v \in ToSet(x[n]) : v.kind = "HEADERS_RECEIVE" => v.peer \in N,
         NEW u, u = [w EXCEPT !.posted = x], NEW Y,
         \A s \in Sockets : Awaits(N, w, s, X) \subseteq Awaits(N, u, s, Y)
  PROVE  Shaking(N, u, Y)
<1>1. u = [memory |-> w.memory, network |-> w.network, posted |-> x, link |-> w.link,
           wire |-> w.wire]
  BY DEF Shape, IsRecord
<1>2. u.network = w.network /\ u.posted = x /\ u.link = w.link /\ u.wire = w.wire
  BY <1>1
<1>3. ASSUME NEW s \in Sockets
      PROVE  Handshake(N, u.link[s], u.wire[s], Awaits(N, u, s, Y))
  <2>1. Handshake(N, w.link[s], w.wire[s], Awaits(N, w, s, X))
    BY DEF Shaking
  <2> QED
    BY <1>2, <2>1, MoreWaits
<1>4. \A s, e : EndOf(u, s, e) = EndOf(w, s, e)
  BY <1>2 DEF EndOf
<1>5. ASSUME NEW n \in N, NEW p \in Entries(u, n)
      PROVE  Connects(N, u, n, p, u.network[n][p])
  <2>1. p \in Entries(w, n) /\ u.network[n][p] = w.network[n][p]
    BY <1>2 DEF Entries
  <2>2. Connects(N, w, n, p, w.network[n][p])
    BY <2>1 DEF Shaking
  <2> QED
    BY <1>4, <2>1, <2>2 DEF Connects
<1> QED
  BY <1>2, <1>3, <1>5 DEF Shaking

LEMMA PostShaking ==
  ASSUME NEW N, NEW w, Shape(N, w), NEW X, Shaking(N, w, X), NEW n,
         NEW v, v.kind # "HEADERS_RECEIVE"
  PROVE  Shaking(N, Post(w, n, v), X)
<1>1. PICK x, u : x = [w.posted EXCEPT ![n] = Append(@, v)] /\ u = [w EXCEPT !.posted = x]
  OBVIOUS
<1>2. Post(w, n, v) = u
  BY <1>1 DEF Post
<1>3. ASSUME NEW m \in N
      PROVE  ToSet(w.posted[m]) \subseteq ToSet(x[m]) /\ ToSet(x[m]) \subseteq ToSet(w.posted[m]) \cup {v}
  <2>1. IsSequence(w.posted[m]) /\ DOMAIN w.posted = N
    BY DEF Shape
  <2>2. ToSet(Append(w.posted[m], v)) = ToSet(w.posted[m]) \cup {v}
    BY <2>1, AppendAny
  <2> QED
    BY <1>1, <2>1, <2>2
<1>4. \A m \in N : \A y \in ToSet(x[m]) : y.kind = "HEADERS_RECEIVE" => y.peer \in N
  BY <1>3 DEF Shaking
<1>5. u.posted = x
  BY <1>1 DEF Shape, IsRecord
<1>6. \A s \in Sockets : Awaits(N, w, s, X) \subseteq Awaits(N, u, s, X)
  BY <1>3, <1>5 DEF Awaits
<1> QED
  BY <1>1, <1>2, <1>4, <1>6, CallbacksShaking

LEMMA PostGreeting ==
  ASSUME NEW N, NEW w, Shape(N, w), NEW X, Shaking(N, w, X), NEW n \in N,
         NEW v, v.kind = "HEADERS_RECEIVE", v.peer \in N
  PROVE  Shaking(N, Post(w, n, v), X \ {[s |-> v.s, e |-> v.e]})
<1>1. PICK x, u, Y : /\ x = [w.posted EXCEPT ![n] = Append(@, v)] /\ u = [w EXCEPT !.posted = x]
                     /\ Y = X \ {[s |-> v.s, e |-> v.e]}
  OBVIOUS
<1>2. Post(w, n, v) = u
  BY <1>1 DEF Post
<1>3. ASSUME NEW m \in N
      PROVE  /\ ToSet(w.posted[m]) \subseteq ToSet(x[m])
             /\ ToSet(x[m]) \subseteq ToSet(w.posted[m]) \cup {v}
             /\ m = n => v \in ToSet(x[m])
  <2>1. IsSequence(w.posted[m]) /\ DOMAIN w.posted = N
    BY DEF Shape
  <2>2. ToSet(Append(w.posted[m], v)) = ToSet(w.posted[m]) \cup {v}
    BY <2>1, AppendAny
  <2> QED
    BY <1>1, <2>1, <2>2
<1>4. \A m \in N : \A y \in ToSet(x[m]) : y.kind = "HEADERS_RECEIVE" => y.peer \in N
  BY <1>3 DEF Shaking
<1>5. u.posted = x
  BY <1>1 DEF Shape, IsRecord
<1>6. ASSUME NEW s \in Sockets, NEW e \in Awaits(N, w, s, X)
      PROVE  e \in Awaits(N, u, s, Y)
  <2>1. CASE s = v.s /\ e = v.e
    BY <1>3, <1>5, <2>1 DEF Awaits, Greets
  <2>2. CASE ~(s = v.s /\ e = v.e)
    <3>1. [s |-> s, e |-> e] \in X => [s |-> s, e |-> e] \in Y
      BY <1>1, <2>2
    <3> QED
      BY <1>3, <1>5, <3>1 DEF Awaits
  <2> QED
    BY <2>1, <2>2
<1>7. Shaking(N, u, Y)
  BY <1>1, <1>4, <1>6, CallbacksShaking
<1> QED
  BY <1>1, <1>2, <1>7

\* The first callback begins; headers wait with it until it has ended.
LEMMA CalledShaking ==
  ASSUME NEW N, NEW w, Shape(N, w), Shaking(N, w, {}), NEW n \in N, w.posted[n] # <<>>,
         NEW X, LET v == Head(w.posted[n]) IN
                  v.kind = "HEADERS_RECEIVE" => [s |-> v.s, e |-> v.e] \in X
  PROVE  /\ Shaking(N, [w EXCEPT !.posted[n] = Tail(@)], X)
         /\ Head(w.posted[n]).kind = "HEADERS_RECEIVE" => Head(w.posted[n]).peer \in N
<1>1. PICK v, x, u : /\ v = Head(w.posted[n]) /\ x = [w.posted EXCEPT ![n] = Tail(@)]
                     /\ u = [w EXCEPT !.posted = x]
  OBVIOUS
<1>2. ASSUME NEW m \in N
      PROVE  /\ ToSet(x[m]) \subseteq ToSet(w.posted[m])
             /\ ToSet(w.posted[m]) \subseteq ToSet(x[m]) \cup {v}
             /\ m = n => v \in ToSet(w.posted[m])
  <2>1. IsSequence(w.posted[m]) /\ DOMAIN w.posted = N
    BY DEF Shape
  <2>2. m = n => ToSet(w.posted[m]) = {Head(w.posted[m])} \cup ToSet(Tail(w.posted[m]))
    BY <2>1, TailAny
  <2> QED
    BY <1>1, <2>1, <2>2
<1>3. \A m \in N : \A y \in ToSet(x[m]) : y.kind = "HEADERS_RECEIVE" => y.peer \in N
  BY <1>2 DEF Shaking
<1>4. u.posted = x
  BY <1>1 DEF Shape, IsRecord
<1>5. \A s \in Sockets : Awaits(N, w, s, {}) \subseteq Awaits(N, u, s, X)
  BY <1>1, <1>2, <1>4 DEF Awaits, Greets
<1>6. Shaking(N, u, X)
  BY <1>1, <1>3, <1>5, CallbacksShaking
<1>7. [w EXCEPT !.posted[n] = Tail(@)] = u
  BY <1>1
<1> QED
  BY <1>1, <1>2, <1>6, <1>7 DEF Shaking

\* Fewer entries, the same sockets.
LEMMA FewerShaking ==
  ASSUME NEW N, NEW w, NEW X, Shaking(N, w, X), NEW v,
         v.posted = w.posted, v.link = w.link, v.wire = w.wire,
         \A m \in N : \A q \in Entries(v, m) :
           /\ q \in Entries(w, m)
           /\ v.network[m][q].s = w.network[m][q].s
           /\ v.network[m][q].e = w.network[m][q].e
  PROVE  Shaking(N, v, X)
<1>1. \A s : Awaits(N, v, s, X) = Awaits(N, w, s, X)
  BY DEF Awaits
<1>2. \A s, e : EndOf(v, s, e) = EndOf(w, s, e)
  BY DEF EndOf
<1>3. ASSUME NEW n \in N, NEW p \in Entries(v, n)
      PROVE  Connects(N, v, n, p, v.network[n][p])
  <2>1. Connects(N, w, n, p, w.network[n][p])
    BY DEF Shaking
  <2> QED
    BY <1>2, <2>1 DEF Connects
<1> QED
  BY <1>1, <1>3 DEF Shaking

LEMMA DiscardShaking ==
  ASSUME NEW N, NEW b, NEW w, NEW X, Sound(N, b, w, X), NEW n \in N, NEW p, NEW check
  PROVE  /\ Sound(N, b, Discard(w, n, p, check), X)
         /\ Gone(N, b, w, n, p, Discard(w, n, p, check))
<1> DEFINE left == [w EXCEPT !.memory[n] = Without(@, p), !.network[n] = Without(@, p)]
           closed == IF p \notin DOMAIN w.network[n] THEN left
                     ELSE Hangup(left, w.network[n][p].s, w.network[n][p].e)
           asks == [kind |-> "EMIT_REQUEST_PEERS"]
<1>1. \/ Discard(w, n, p, check) = closed
      \/ Discard(w, n, p, check) = Post(closed, n, asks)
  BY DEF Discard
<1>2. PICK v, x : v = left /\ x = w.network[n][p]
  OBVIOUS
<1>3. v = [w EXCEPT !.memory[n] = Without(@, p), !.network[n] = Without(@, p)]
  BY <1>2
<1> HIDE DEF left
<1>4. PICK u : u = closed
  OBVIOUS
<1>5. u = IF p \notin DOMAIN w.network[n] THEN v ELSE Hangup(v, x.s, x.e)
  BY <1>2, <1>4
<1> HIDE DEF closed
<1>6. Left(N, b, w, n, p, v)
  BY <1>3, LeftShape DEF Sound
<1>7. Shaking(N, v, X)
  <2>1. \A m \in N : Entries(v, m) \subseteq Entries(w, m)
    BY <1>6 DEF Left
  <2>2. \A m \in N : \A q \in Entries(v, m) : v.network[m][q] = w.network[m][q]
    BY <1>6 DEF Left
  <2>3. v.posted = w.posted /\ v.link = w.link /\ v.wire = w.wire
    BY <1>6 DEF Left
  <2> QED
    BY <2>1, <2>2, <2>3, FewerShaking DEF Sound
<1>8. Shape(N, v)
  BY <1>6 DEF Left
<1>9. Shaking(N, u, X) /\ Shape(N, u)
  <2>1. CASE p \notin DOMAIN w.network[n]
    BY <1>5, <1>7, <1>8, <2>1
  <2>2. CASE p \in DOMAIN w.network[n]
    <3>1. x.s \in Sockets /\ x.e \in Ends
      BY <1>2, <2>2 DEF Sound, Shaking, Connects, Entries
    <3>2. Calmer(v, Hangup(v, x.s, x.e))
      BY <1>8, HangupCalmer
    <3>3. Shape(N, Hangup(v, x.s, x.e))
      BY <1>8, <3>2, CalmerShape
    <3>4. Shaking(N, Hangup(v, x.s, x.e), X)
      BY <1>7, <1>8, <3>1, HangupShaking
    <3> QED
      BY <1>5, <2>2, <3>3, <3>4
  <2> QED
    BY <2>1, <2>2
<1>10. Shaking(N, Post(u, n, asks), X)
  <2>1. asks.kind # "HEADERS_RECEIVE"
    OBVIOUS
  <2> HIDE DEF asks
  <2> QED
    BY <1>9, <2>1, PostShaking
<1>11. Gone(N, b, w, n, p, Discard(w, n, p, check))
  BY DiscardKeeps DEF Sound
<1> QED
  BY <1>1, <1>4, <1>9, <1>10, <1>11 DEF Sound, Gone

\* The socket that X waits for is listed at its end e.
LEMMA EnterShaking ==
  ASSUME NEW N, NEW b, NEW w, NEW X, Sound(N, b, w, X), b = banned, NEW n \in N, NEW p \in N,
         p \notin Entries(w, n), NEW s \in Sockets, NEW e \in Ends,
         EndOf(w, s, e) = n, EndOf(w, s, Other(e)) = p, "" \notin N, NEW head
  PROVE  /\ Sound(N, b, Enter(w, n, p, s, e, head), X)
         /\ e \in Enter(w, n, p, s, e, head).link[s].ears
<1>1. PICK v : v = Enter(w, n, p, s, e, head)
  OBVIOUS
<1>2. Consistent(N, b, v) /\ EnteredAs(N, w, n, p, s, e, v)
  BY <1>1, EnterKeeps DEF Sound
<1>3. \A t \in Sockets : Awaits(N, v, t, X) = Awaits(N, w, t, X)
  BY <1>2 DEF Awaits, EnteredAs
<1>4. \A t \in Sockets : \A o : EndOf(v, t, o) = EndOf(w, t, o)
  BY <1>2 DEF EnteredAs, EndOf
<1>5. w.link[s] # NoLink
  BY NoLinkIs DEF EndOf
<1>6. ASSUME NEW t \in Sockets
      PROVE  Handshake(N, v.link[t], v.wire[t], Awaits(N, v, t, X))
  <2>1. Handshake(N, w.link[t], w.wire[t], Awaits(N, w, t, X))
    BY DEF Sound, Shaking
  <2>2. v.wire = w.wire
    BY <1>2 DEF EnteredAs
  <2>3. CASE t # s
    <3>1. v.link[t] = w.link[t]
      BY <1>2, <2>3 DEF EnteredAs
    <3> QED
      BY <1>3, <2>1, <2>2, <3>1
  <2>4. CASE t = s
    <3>1. PICK l, k, P : l = w.link[s] /\ k = v.link[s] /\ P = Awaits(N, w, s, X)
      OBVIOUS
    <3>2. /\ k.up = l.up /\ k.ears = l.ears \cup {e}
          /\ k.client = l.client /\ k.server = l.server
      BY <1>2, <3>1 DEF EnteredAs
    <3>3. Handshake(N, k, w.wire[s], P)
      BY <1>5, <2>1, <2>4, <3>1, <3>2, HearShake
    <3> QED
      BY <1>3, <2>2, <2>4, <3>1, <3>3
  <2> QED
    BY <2>3, <2>4
<1>7. ASSUME NEW m \in N, NEW q \in Entries(v, m)
      PROVE  Connects(N, v, m, q, v.network[m][q])
  <2>1. CASE m = n /\ q = p /\ v.network[m][q].s = s /\ v.network[m][q].e = e
    BY <1>4, <2>1 DEF Connects
  <2>2. CASE q \in Entries(w, m) /\ v.network[m][q] = w.network[m][q]
    <3>1. Connects(N, w, m, q, w.network[m][q])
      BY <2>2 DEF Sound, Shaking
    <3> QED
      BY <1>4, <2>2, <3>1 DEF Connects
  <2> QED
    BY <1>2, <2>1, <2>2 DEF EnteredAs
<1>8. /\ DOMAIN v.wire = Sockets
      /\ \A m \in N : \A u \in ToSet(v.posted[m]) : u.kind = "HEADERS_RECEIVE" => u.peer \in N
  BY <1>2 DEF EnteredAs, Sound, Shaking
<1>9. Shaking(N, v, X)
  BY <1>6, <1>7, <1>8 DEF Shaking
<1>10. e \in v.link[s].ears
  BY <1>2 DEF EnteredAs
<1> QED
  BY <1>1, <1>2, <1>9, <1>10 DEF Sound

LEMMA SameShake ==
  ASSUME NEW N, NEW l, NEW q, NEW P, Handshake(N, l, q, P), NEW r, DOMAIN r = Ends,
         r["client"] = q["client"], r["server"] = q["server"]
  PROVE  Handshake(N, l, r, P)
<1>1. \A e \in Ends : r[e] = q[e] /\ r[Other(e)] = q[Other(e)]
  BY EndsOther
<1>2. Queues(r) /\ Named(N, l, r)
  BY <1>1, EndsOther DEF Handshake, Queues, Named
<1>3. Asked(l, r) /\ Confirmed(l, r)
  BY DEF Handshake, Asked, Confirmed
<1>4. Closed(l, r) /\ Noticed(l, r)
  BY <1>1 DEF Handshake, Closed, Noticed
<1>5. Paired(l, r) /\ Greeted(l, r, P)
  BY DEF Handshake, Paired, Greeted
<1> QED
  BY <1>2, <1>3, <1>4, <1>5 DEF Handshake

\* A message that may be sent from both ends.
LEMMA BroadcastShake ==
  ASSUME NEW N, NEW l, NEW q, NEW P, Handshake(N, l, q, P), NEW m, Plain(N, m),
         NEW r, DOMAIN r = Ends,
         \A e \in Ends : \/ r[e] = q[e]
                         \/ Other(e) \in l.up /\ r[e] = Append(q[e], m)
  PROVE  Handshake(N, l, r, P)
<1>1. ASSUME NEW e \in Ends, Other(e) \in l.up, r[e] = Append(q[e], m)
      PROVE  Handshake(N, l, r, P)
  <2>1. PICK t : t = More(q, Other(e), m)
    OBVIOUS
  <2>2. Handshake(N, l, t, P)
    BY <1>1, <2>1, EndsOther, SendShake DEF Plain
  <2>3. DOMAIN t = Ends /\ t[e] = r[e] /\ t[Other(e)] = q[Other(e)]
    BY <1>1, <2>1, EndsOther DEF More, Handshake, Queues
  <2>4. CASE r[Other(e)] = q[Other(e)]
    <3>1. r["client"] = t["client"] /\ r["server"] = t["server"]
      BY <2>3, <2>4, EndsOther
    <3> QED
      BY <2>2, <3>1, SameShake
  <2>5. CASE e \in l.up /\ r[Other(e)] = Append(q[Other(e)], m)
    <3>1. PICK u : u = More(t, e, m)
      OBVIOUS
    <3>2. Handshake(N, l, u, P)
      BY <2>2, <2>5, <3>1, SendShake DEF Plain
    <3>3. u[e] = r[e] /\ u[Other(e)] = r[Other(e)]
      BY <2>3, <2>5, <3>1, EndsOther DEF More
    <3>4. r["client"] = u["client"] /\ r["server"] = u["server"]
      BY <3>3, EndsOther
    <3> QED
      BY <3>2, <3>4, SameShake
  <2> QED
    BY <2>4, <2>5, EndsOther
<1>2. CASE \A e \in Ends : r[e] = q[e]
  BY <1>2, EndsOther, SameShake
<1> QED
  BY <1>1, <1>2

LEMMA ToAllShaking ==
  ASSUME NEW N, NEW w, Shape(N, w), NEW X, Shaking(N, w, X), NEW n, NEW m, Plain(N, m)
  PROVE  Shaking(N, ToAll(w, n, m), X)
<1>1. PICK x, v : /\ x = [s \in DOMAIN w.wire |-> [e \in Ends |->
                           IF [s |-> s, e |-> Other(e)] \in Connections(n) /\ Other(e) \in w.link[s].up
                           THEN Append(w.wire[s][e], m) ELSE w.wire[s][e]]]
                  /\ v = [w EXCEPT !.wire = x]
  OBVIOUS
<1>2. ToAll(w, n, m) = v
  BY <1>1 DEF ToAll
<1>3. v = [memory |-> w.memory, network |-> w.network, posted |-> w.posted, link |-> w.link,
           wire |-> x]
  BY <1>1 DEF Shape, IsRecord
<1>4. v.network = w.network /\ v.posted = w.posted /\ v.link = w.link /\ v.wire = x
  BY <1>3
<1>5. ASSUME NEW s \in Sockets
      PROVE  Handshake(N, v.link[s], v.wire[s], Awaits(N, v, s, X))
  <2>1. Awaits(N, v, s, X) = Awaits(N, w, s, X)
    BY <1>4 DEF Awaits
  <2>2. Handshake(N, w.link[s], w.wire[s], Awaits(N, w, s, X))
    BY DEF Shaking
  <2>3. PICK r : r = x[s]
    OBVIOUS
  <2>4. /\ DOMAIN r = Ends
        /\ \A e \in Ends : \/ r[e] = w.wire[s][e]
                           \/ Other(e) \in w.link[s].up /\ r[e] = Append(w.wire[s][e], m)
    BY <1>1, <2>3 DEF Shaking
  <2>5. Handshake(N, w.link[s], r, Awaits(N, w, s, X))
    BY <2>2, <2>4, BroadcastShake
  <2> QED
    BY <1>4, <2>1, <2>3, <2>5
<1>6. \A s, e : EndOf(v, s, e) = EndOf(w, s, e)
  BY <1>4 DEF EndOf
<1>7. ASSUME NEW k \in N, NEW p \in Entries(v, k)
      PROVE  Connects(N, v, k, p, v.network[k][p])
  <2>1. p \in Entries(w, k)
    BY <1>4 DEF Entries
  <2>2. Connects(N, w, k, p, w.network[k][p])
    BY <2>1 DEF Shaking
  <2> QED
    BY <1>4, <1>6, <2>2 DEF Connects
<1>8. DOMAIN v.wire = Sockets
  BY <1>1, <1>4 DEF Shaking
<1>9. Shaking(N, v, X)
  BY <1>4, <1>5, <1>7, <1>8 DEF Shaking
<1> QED
  BY <1>2, <1>9

LEMMA ConnectShaking ==
  ASSUME NEW N, "" \notin N, NEW w, Shape(N, w), NEW X, Shaking(N, w, X),
         NEW n \in N, NEW peers \in SUBSET N, NEW with,
         \A p \in peers : \A e \in Ends : EndOf(w, with[p], e) \notin N
  PROVE  Shaking(N, ConnectPeers(w, n, peers, with), X)
<1>made. PICK j, x : /\ j = [s \in DOMAIN w.link |->
                            IF s \notin {with[p] : p \in peers} THEN w.link[s]
                            ELSE Opened(n, CHOOSE p \in peers : with[p] = s)]
                  /\ x = [s \in DOMAIN w.wire |->
                            IF s \notin {with[p] : p \in peers} THEN w.wire[s]
                            ELSE [w.wire[s] EXCEPT !["server"] = <<[kind |-> "connect"]>>]]
  OBVIOUS
<1>0. PICK new, m : new = {with[p] : p \in peers} /\ m = [kind |-> "connect"]
  OBVIOUS
<1>1. /\ DOMAIN j = Sockets /\ DOMAIN x = Sockets
      /\ \A s \in Sockets : s \notin new => j[s] = w.link[s] /\ x[s] = w.wire[s]
      /\ \A s \in Sockets : s \in new =>
           /\ \E c \in peers : j[s] = Opened(n, c)
           /\ x[s] = [w.wire[s] EXCEPT !["server"] = <<m>>]
  <2>1. DOMAIN w.link = Sockets /\ DOMAIN w.wire = Sockets
    BY DEF Shape, Shaking
  <2>2. ASSUME NEW s \in Sockets, s \in new
        PROVE  \E c \in peers : j[s] = Opened(n, c)
    <3>1. PICK c : c = CHOOSE p \in peers : with[p] = s
      OBVIOUS
    <3>2. j[s] = Opened(n, c)
      BY <1>made, <1>0, <2>1, <2>2, <3>1
    <3>3. c \in peers
      <4>1. PICK p \in peers : with[p] = s
        BY <1>0, <2>2
      <4> QED
        BY <3>1, <4>1
    <3> QED
      BY <3>2, <3>3
  <2>3. \A s \in Sockets : s \in new => x[s] = [w.wire[s] EXCEPT !["server"] = <<m>>]
    BY <1>made, <1>0, <2>1
  <2> QED
    BY <1>made, <1>0, <2>1, <2>2, <2>3
<1>2. PICK u, v : u = [w EXCEPT !.link = j] /\ v = [u EXCEPT !.wire = x]
  OBVIOUS
<1>3. u = [memory |-> w.memory, network |-> w.network, posted |-> w.posted, link |-> j,
           wire |-> w.wire]
  BY <1>2 DEF Shape, IsRecord
<1>4. v = [memory |-> w.memory, network |-> w.network, posted |-> w.posted, link |-> j,
           wire |-> x]
  BY <1>2, <1>3
<1>5. ConnectPeers(w, n, peers, with) = v
  <2>1. u.wire = w.wire
    BY <1>3
  <2>2. ConnectPeers(w, n, peers, with) = [[w EXCEPT !.link = j] EXCEPT !.wire = x]
    BY <1>made, <1>2, <2>1 DEF ConnectPeers
  <2> QED
    BY <1>2, <2>2
<1>6. v.network = w.network /\ v.posted = w.posted /\ v.link = j /\ v.wire = x
  BY <1>4
<1>7. ASSUME NEW s \in Sockets
      PROVE  Handshake(N, v.link[s], v.wire[s], Awaits(N, v, s, X))
  <2>1. Awaits(N, v, s, X) = Awaits(N, w, s, X)
    BY <1>6 DEF Awaits
  <2>2. Handshake(N, w.link[s], w.wire[s], Awaits(N, w, s, X))
    BY DEF Shaking
  <2>3. CASE s \notin new
    <3>1. v.link[s] = w.link[s] /\ v.wire[s] = w.wire[s]
      BY <1>1, <1>6, <2>3 DEF Shape, Shaking
    <3> QED
      BY <2>1, <2>2, <3>1
  <2>4. CASE s \in new
    <3>1. PICK p \in peers : with[p] = s
      BY <1>0, <2>4
    <3>2. PICK c \in peers : v.link[s] = Opened(n, c)
      BY <1>1, <1>6, <2>4
    <3>4. PICK q : q = [w.wire[s] EXCEPT !["server"] = <<m>>]
      OBVIOUS
    <3>5. v.wire[s] = q
      BY <1>1, <1>6, <2>4, <3>4
    <3>6. w.link[s].client \notin N
      BY <3>1, EndsOther DEF EndOf
    <3>7. w.wire[s]["client"] = <<>>
      BY <2>2, <3>6 DEF Handshake, Named
    <3>8. DOMAIN w.wire[s] = Ends
      BY <2>2 DEF Handshake, Queues
    <3>9. DOMAIN q = Ends /\ q["client"] = <<>> /\ q["server"] = <<m>>
      BY <3>4, <3>7, <3>8, EndsOther
    <3>10. Queues(q)
      BY <3>9, EndsOther, KindsNone, KindsOne DEF Queues
    <3>11. m.kind = "connect"
      BY <1>0
    <3>12. c \in N
      BY <3>2
    <3>13. Handshake(N, Opened(n, c), q, Awaits(N, w, s, X))
      BY <3>9, <3>10, <3>11, <3>12, OpenShake
    <3> QED
      BY <2>1, <3>2, <3>5, <3>13
  <2> QED
    BY <2>3, <2>4
<1>8. ASSUME NEW k \in N, NEW p \in Entries(v, k)
      PROVE  Connects(N, v, k, p, v.network[k][p])
  <2>1. p \in Entries(w, k) /\ v.network[k][p] = w.network[k][p]
    BY <1>6 DEF Entries
  <2>2. PICK y : y = w.network[k][p]
    OBVIOUS
  <2>3. Connects(N, w, k, p, y)
    BY <2>1, <2>2 DEF Shaking
  <2>4. y.s \notin new
    BY <1>0, <2>3 DEF Connects
  <2>5. \A e : EndOf(v, y.s, e) = EndOf(w, y.s, e)
    BY <1>1, <1>6, <2>3, <2>4 DEF EndOf, Connects, Shape
  <2> QED
    BY <2>1, <2>2, <2>3, <2>5 DEF Connects
<1>9. DOMAIN v.wire = Sockets
  BY <1>1, <1>6 DEF Shaking
<1>10. Shaking(N, v, X)
  BY <1>6, <1>7, <1>8, <1>9 DEF Shaking
<1> QED
  BY <1>5, <1>10

-----------------------------------------------------------------------------
(* The handshakes of the state: no headers are in the hands of a callback, *)
(* and whoever is named in what pickNewPeers and stepReconnect remember is *)
(* a node.                                                                 *)

PickOf(N) == [node : N, what : {"discover", "reboot", "done"},
              asked : SUBSET [s : Sockets, e : Ends], got : SUBSET N]
Tracked(N) ==
  /\ picks \in Seq(PickOf(N))
  /\ steps \in [N -> [gone : SUBSET N, new : SUBSET N]]

Hand == Shaking(Nodes, World, {}) /\ Tracked(Nodes)

LEMMA WorldSound ==
  ASSUME IInv, Hand, NEW w, w = World
  PROVE  /\ Sound(Nodes, banned, w, {}) /\ Shape(Nodes, w) /\ DOMAIN w.wire = Sockets
         /\ w.memory = memory /\ w.network = network /\ w.posted = posted /\ w.link = link
         /\ w.wire = wire
         /\ "" \notin Nodes
<1>1. Consistent(Nodes, banned, w) /\ Shaking(Nodes, w, {})
  BY DEF IInv, Hand
<1>2. /\ w.memory = memory /\ w.network = network /\ w.posted = posted /\ w.link = link
      /\ w.wire = wire
  BY DEF World
<1>3. "" \notin Nodes
  BY NoNameIsNoNode DEF IInv
<1> QED
  BY <1>1, <1>2, <1>3 DEF Sound, Consistent, Shaking

LEMMA TrackedKept ==
  ASSUME IInv, Hand, PlanKept, UNCHANGED <<picks, steps>> PROVE Tracked(Nodes)'
<1>1. PICK N : N = Nodes
  OBVIOUS
<1>2. Nodes' = N
  BY <1>1, SameNodes DEF IInv
<1>3. Tracked(N)
  BY <1>1 DEF Hand
<1>4. picks' \in Seq(PickOf(N)) /\ steps' \in [N -> [gone : SUBSET N, new : SUBSET N]]
  BY <1>3 DEF Tracked
<1> QED
  BY <1>2, <1>4 DEF Tracked, PickOf

LEMMA ShakingBecomes ==
  ASSUME IInv, PlanKept, NEW w, IsRecord(w), Shaking(Nodes, w, {}), Become(w)
  PROVE  Shaking(Nodes', World', {})
<1>1. PICK N : N = Nodes
  OBVIOUS
<1>2. World' = w
  BY DEF Become, World, IsRecord
<1>3. Nodes' = N
  BY <1>1, SameNodes DEF IInv
<1> QED
  BY <1>1, <1>2, <1>3

LEMMA HandBecomes ==
  ASSUME IInv, Hand, PlanKept, UNCHANGED <<picks, steps>>,
         NEW w, IsRecord(w), Shaking(Nodes, w, {}), Become(w)
  PROVE  Hand'
<1>1. Shaking(Nodes', World', {})
  BY ShakingBecomes
<1>2. Tracked(Nodes)'
  BY TrackedKept
<1> QED
  BY <1>1, <1>2 DEF Hand

\* A message is taken from its queue.
ReceivedAs(w, s, e, r) ==
  /\ OnlySocket(w, r, s) /\ r.link = w.link /\ r.wire[s] = Less(w.wire[s], e)
  /\ Shape(Nodes, r) /\ DOMAIN r.wire = Sockets

LEMMA ReceivedIs ==
  ASSUME IInv, Hand, NEW w, w = World, NEW s \in Sockets, NEW e
  PROVE  ReceivedAs(w, s, e, Received(s, e))
<1>1. PICK q : q = Less(w.wire[s], e)
  OBVIOUS
<1>2. PICK r : r = Received(s, e)
  OBVIOUS
<1>3. r = Rewired(w, s, q)
  BY <1>1, <1>2 DEF Received, Less, Rewired
<1>4. Shape(Nodes, w) /\ DOMAIN w.wire = Sockets
  BY WorldSound
<1>5. OnlySocket(w, r, s) /\ r.link = w.link /\ r.wire[s] = q
  BY <1>3, <1>4, RewiredIs
<1>6. Calmer(w, r)
  BY <1>2, ReceivedKeeps
<1>7. Shape(Nodes, r)
  BY <1>4, <1>6, CalmerShape
<1> QED
  BY <1>1, <1>2, <1>5, <1>7 DEF ReceivedAs, OnlySocket

\* The end e of the socket s is connected, or closed without a message.
Up(w, s, e) == [w EXCEPT !.link[s].up = @ \cup {e}]
Down(w, s, e) == [w EXCEPT !.link[s].up = @ \ {e}, !.link[s].ears = @ \ {e}]

LEMMA UpIs ==
  ASSUME NEW N, NEW w, Shape(N, w), DOMAIN w.wire = Sockets, NEW s \in Sockets, NEW e,
         NEW v, v = Up(w, s, e)
  PROVE  /\ OnlySocket(w, v, s) /\ v.wire = w.wire /\ Entered(w.link[s], e, v.link[s])
         /\ Shape(N, v)
<1>1. PICK l, x, k : l = w.link[s] /\ x = l.up \cup {e} /\ k = [l EXCEPT !.up = x]
  OBVIOUS
<1>2. IsLink(l)
  BY <1>1 DEF Shape
<1>3. k = [client |-> l.client, server |-> l.server, up |-> x, ears |-> l.ears,
           hello |-> l.hello]
  BY <1>1, <1>2 DEF IsLink
<1>4. v = Relinked(w, s, k)
  BY <1>1 DEF Relinked, Up
<1>5. OnlySocket(w, v, s) /\ v.wire = w.wire /\ v.link[s] = k
  <2>1. k.client = w.link[s].client /\ k.server = w.link[s].server
    BY <1>1, <1>3
  <2>2. PICK u : u = Relinked(w, s, k)
    OBVIOUS
  <2>3. OnlySocket(w, u, s) /\ u.wire = w.wire /\ u.link[s] = k
    BY <2>1, <2>2, RelinkedIs
  <2> QED
    BY <1>4, <2>2, <2>3
<1>6. Entered(l, e, k)
  BY <1>1, <1>3 DEF Entered
<1>7. Shape(N, v)
  <2>1. Calmer(w, [w EXCEPT !.link[s].up = x])
    BY EndCalmer
  <2>2. v = [w EXCEPT !.link[s].up = x]
    BY <1>1 DEF Up
  <2> QED
    BY <2>1, <2>2, CalmerShape
<1> QED
  BY <1>1, <1>5, <1>6, <1>7

LEMMA DownIs ==
  ASSUME NEW N, NEW w, Shape(N, w), DOMAIN w.wire = Sockets, NEW s \in Sockets, NEW e,
         w.link[s] # NoLink,
         NEW v, v = Down(w, s, e)
  PROVE  /\ OnlySocket(w, v, s) /\ v.wire = w.wire /\ Quitted(w.link[s], e, v.link[s])
         /\ Shape(N, v)
<1>0. PICK l, x, y, h : /\ l = w.link[s] /\ x = l.up \ {e} /\ y = l.ears \ {e}
                        /\ h = [l EXCEPT !.up = x]
  OBVIOUS
<1>1. PICK k : k = [h EXCEPT !.ears = y]
  OBVIOUS
<1>2. IsLink(l)
  BY <1>0 DEF Shape
<1>3. h = [client |-> l.client, server |-> l.server, up |-> x, ears |-> l.ears,
           hello |-> l.hello]
  BY <1>0, <1>2 DEF IsLink
<1>4. k = [client |-> l.client, server |-> l.server, up |-> x, ears |-> y,
           hello |-> l.hello]
  BY <1>1, <1>3
<1>5. PICK d : d = [w EXCEPT !.link[s].up = x, !.link[s].ears = y]
  OBVIOUS
<1>6. v = d
  <2>1. PICK u : u = [w EXCEPT !.link[s].up = x]
    OBVIOUS
  <2>2. u.link[s] = h
    BY <1>0, <2>1 DEF Shape, IsRecord
  <2>3. u.link[s].ears = l.ears
    BY <1>3, <2>2
  <2>4. [w EXCEPT !.link[s].up = @ \ {e}] = u
    BY <1>0, <2>1
  <2>5. [u EXCEPT !.link[s].ears = @ \ {e}] = [u EXCEPT !.link[s].ears = y]
    BY <1>0, <2>3
  <2> QED
    BY <1>0, <1>5, <2>1, <2>4, <2>5 DEF Down
<1>7. d = Relinked(w, s, k)
  <2>1. PICK m, u : m = [w.link EXCEPT ![s] = h] /\ u = [w EXCEPT !.link = m]
    OBVIOUS
  <2>2. u = [memory |-> w.memory, network |-> w.network, posted |-> w.posted, link |-> m,
             wire |-> w.wire]
    BY <2>1 DEF Shape, IsRecord
  <2>3. d = [u EXCEPT !.link[s].ears = y]
    BY <1>0, <1>5, <2>1
  <2>4. m[s] = h
    BY <2>1 DEF Shape
  <2>5. [u EXCEPT !.link[s].ears = y] = [u EXCEPT !.link = [m EXCEPT ![s] = k]]
    BY <1>1, <2>2, <2>4
  <2>6. [m EXCEPT ![s] = k] = [w.link EXCEPT ![s] = k]
    BY <2>1 DEF Shape
  <2>7. [u EXCEPT !.link = [m EXCEPT ![s] = k]] = [w EXCEPT !.link = [m EXCEPT ![s] = k]]
    BY <2>1
  <2> QED
    BY <2>3, <2>5, <2>6, <2>7 DEF Relinked
<1>8. OnlySocket(w, v, s) /\ v.wire = w.wire /\ v.link[s] = k
  <2>1. k.client = w.link[s].client /\ k.server = w.link[s].server
    BY <1>0, <1>4
  <2>2. PICK u : u = Relinked(w, s, k)
    OBVIOUS
  <2>3. OnlySocket(w, u, s) /\ u.wire = w.wire /\ u.link[s] = k
    BY <2>1, <2>2, RelinkedIs
  <2> QED
    BY <1>6, <1>7, <2>2, <2>3
<1>9. Quitted(l, e, k)
  BY <1>0, <1>4 DEF Quitted
<1>10. Shape(N, v)
  <2>1. y \subseteq w.link[s].ears
    BY <1>0
  <2>2. Calmer(w, [w EXCEPT !.link[s].up = x, !.link[s].ears = y])
    BY <2>1, EndCalmer
  <2> QED
    BY <1>5, <1>6, <2>2, CalmerShape
<1> QED
  BY <1>0, <1>8, <1>9, <1>10

LEMMA PostRecord ==
  ASSUME NEW w, IsRecord(w), NEW n, NEW v PROVE IsRecord(Post(w, n, v))
<1>1. PICK x, u : x = [w.posted EXCEPT ![n] = Append(@, v)] /\ u = [w EXCEPT !.posted = x]
  OBVIOUS
<1>2. u = [memory |-> w.memory, network |-> w.network, posted |-> x, link |-> w.link,
           wire |-> w.wire]
  BY <1>1 DEF IsRecord
<1>3. IsRecord(u)
  BY <1>2 DEF IsRecord
<1>4. Post(w, n, v) = u
  BY <1>1 DEF Post
<1> QED
  BY <1>3, <1>4

LEMMA OneSocketOnly ==
  ASSUME NEW N, NEW w, NEW X, Shaking(N, w, X), NEW s \in Sockets, NEW v,
         OnlySocket(w, v, s), Handshake(N, v.link[s], v.wire[s], Awaits(N, w, s, X))
  PROVE  Shaking(N, v, X)
<1>1. SameElsewhere(X, X, s)
  BY DEF SameElsewhere
<1> QED
  BY <1>1, OneSocket

-----------------------------------------------------------------------------
(* Messages that arrive.                                                   *)

LEMMA ServerConnectHand ==
  ASSUME IInv, Hand, NEW s \in Sockets, ServerConnect(s) PROVE Hand'
<1>1. PICK w, r, m : w = World /\ r = Received(s, "server") /\ m = [kind |-> "connect"]
  OBVIOUS
<1>2. PICK u : u = Up(r, s, "server")
  OBVIOUS
<1>3. PICK t : t = Send(u, s, "server", m)
  OBVIOUS
<1>4. ReceivedAs(w, s, "server", r) /\ Sound(Nodes, banned, w, {}) /\ w.wire = wire
  BY <1>1, ReceivedIs, WorldSound
<1>5. /\ OnlySocket(r, u, s) /\ u.wire = r.wire /\ Entered(r.link[s], "server", u.link[s])
      /\ Shape(Nodes, u)
  BY <1>2, <1>4, UpIs DEF ReceivedAs
<1>6. DOMAIN u.wire = Sockets
  BY <1>5 DEF OnlySocket
<1>7. /\ OnlySocket(u, t, s) /\ t.link = u.link
      /\ t.wire[s] = More(Less(w.wire[s], "server"), "server", m)
  <2>1. /\ OnlySocket(u, t, s) /\ t.link = u.link /\ t.wire[s] = Sent(u, s, "server", m)
    BY <1>3, <1>5, <1>6, SendIs
  <2>2. "server" \in u.link[s].up
    BY <1>5 DEF Entered
  <2>3. u.wire[s] = Less(w.wire[s], "server")
    BY <1>4, <1>5 DEF ReceivedAs
  <2> QED
    BY <2>1, <2>2, <2>3 DEF Sent
<1>8. OnlySocket(w, t, s)
  BY <1>4, <1>5, <1>7, OnlyTwice DEF ReceivedAs
<1>9. PICK P : P = Awaits(Nodes, w, s, {})
  OBVIOUS
<1>10. Handshake(Nodes, t.link[s], t.wire[s], P)
  <2>1. Handshake(Nodes, w.link[s], w.wire[s], P)
    BY <1>4, <1>9 DEF Sound, Shaking
  <2>2. Entered(w.link[s], "server", t.link[s])
    BY <1>4, <1>5, <1>7 DEF ReceivedAs
  <2>3. w.wire[s]["server"] # <<>> /\ Head(w.wire[s]["server"]).kind = "connect"
    BY <1>4 DEF ServerConnect, Arrives
  <2>4. m.kind = "connect"
    BY <1>1
  <2>5. Handshake(Nodes, t.link[s], More(Less(w.wire[s], "server"), "server", m), P)
    BY <2>1, <2>2, <2>3, <2>4, ServerConnectShake
  <2> QED
    BY <1>7, <2>5
<1>11. Shaking(Nodes, t, {})
  BY <1>4, <1>8, <1>9, <1>10, OneSocketOnly DEF Sound
<1>12. Shape(Nodes, t)
  BY <1>3, <1>5, SendCalmer, CalmerShape
<1>13. Shaking(Nodes, Disconnect(t, s, "server"), {}) /\ IsRecord(Disconnect(t, s, "server"))
  <2>1. {} \ {[s |-> s, e |-> "server"]} = {}
    OBVIOUS
  <2>2. Shaking(Nodes, Disconnect(t, s, "server"), {} \ {[s |-> s, e |-> "server"]})
    BY <1>11, <1>12, EndsOther, DisconnectShaking
  <2>3. Calmer(t, Disconnect(t, s, "server"))
    BY <1>12, DisconnectCalmer
  <2> QED
    BY <2>1, <2>2, <2>3 DEF Calmer
<1>14. Become(t) \/ Become(Disconnect(t, s, "server"))
  BY <1>1, <1>2, <1>3 DEF ServerConnect, Up
<1>15. UNCHANGED <<picks, steps>> /\ PlanKept
  BY CountKept DEF ServerConnect, IInv
<1>16. PICK d : d = Disconnect(t, s, "server")
  OBVIOUS
<1> QED
  BY <1>11, <1>12, <1>13, <1>14, <1>15, <1>16, HandBecomes DEF Shape

LEMMA ClientConnectHand ==
  ASSUME IInv, Hand, NEW s \in Sockets, ClientConnect(s) PROVE Hand'
<1>1. PICK w, r, m : /\ w = World /\ r = Received(s, "client")
                     /\ m = [kind |-> "headers", head |-> link[s].hello]
  OBVIOUS
<1>2. PICK u : u = Up(r, s, "client")
  OBVIOUS
<1>3. PICK t : t = Send(u, s, "client", m)
  OBVIOUS
<1>4. ReceivedAs(w, s, "client", r) /\ Sound(Nodes, banned, w, {}) /\ w.wire = wire
  BY <1>1, ReceivedIs, WorldSound
<1>5. /\ OnlySocket(r, u, s) /\ u.wire = r.wire /\ Entered(r.link[s], "client", u.link[s])
      /\ Shape(Nodes, u)
  BY <1>2, <1>4, UpIs DEF ReceivedAs
<1>6. DOMAIN u.wire = Sockets
  BY <1>5 DEF OnlySocket
<1>7. /\ OnlySocket(u, t, s) /\ t.link = u.link
      /\ t.wire[s] = More(Less(w.wire[s], "client"), "client", m)
  <2>1. /\ OnlySocket(u, t, s) /\ t.link = u.link /\ t.wire[s] = Sent(u, s, "client", m)
    BY <1>3, <1>5, <1>6, SendIs
  <2>2. "client" \in u.link[s].up
    BY <1>5 DEF Entered
  <2>3. u.wire[s] = Less(w.wire[s], "client")
    BY <1>4, <1>5 DEF ReceivedAs
  <2> QED
    BY <2>1, <2>2, <2>3 DEF Sent
<1>8. OnlySocket(w, t, s)
  BY <1>4, <1>5, <1>7, OnlyTwice DEF ReceivedAs
<1>9. PICK P : P = Awaits(Nodes, w, s, {})
  OBVIOUS
<1>10. Handshake(Nodes, t.link[s], t.wire[s], P)
  <2>1. Handshake(Nodes, w.link[s], w.wire[s], P)
    BY <1>4, <1>9 DEF Sound, Shaking
  <2>2. Entered(w.link[s], "client", t.link[s])
    BY <1>4, <1>5, <1>7 DEF ReceivedAs
  <2>3. w.wire[s]["client"] # <<>> /\ Head(w.wire[s]["client"]).kind = "connect"
    BY <1>4 DEF ClientConnect, Arrives
  <2>4. m.kind = "headers"
    BY <1>1
  <2>5. Handshake(Nodes, t.link[s], More(Less(w.wire[s], "client"), "client", m), P)
    BY <2>1, <2>2, <2>3, <2>4, ClientConnectShake
  <2> QED
    BY <1>7, <2>5
<1>11. Shaking(Nodes, t, {})
  BY <1>4, <1>8, <1>9, <1>10, OneSocketOnly DEF Sound
<1>12. Shape(Nodes, t)
  BY <1>3, <1>5, SendCalmer, CalmerShape
<1>13. Become(t)
  BY <1>1, <1>2, <1>3 DEF ClientConnect, Up
<1>14. UNCHANGED <<picks, steps>> /\ PlanKept
  BY CountKept DEF ClientConnect, IInv
<1> QED
  BY <1>11, <1>12, <1>13, <1>14, HandBecomes DEF Shape

LEMMA HeadersArriveHand ==
  ASSUME IInv, Hand, NEW s \in Sockets, NEW e \in Ends, HeadersArrive(s, e) PROVE Hand'
<1>1. PICK w, r, v : /\ w = World /\ r = Received(s, e)
                     /\ v = [kind |-> "HEADERS_RECEIVE", peer |-> At(s, Other(e)), s |-> s, e |-> e,
                             head |-> Head(wire[s][e]).head]
  OBVIOUS
<1>2. /\ ReceivedAs(w, s, e, r) /\ Sound(Nodes, banned, w, {}) /\ w.wire = wire /\ w.link = link
      /\ Shape(Nodes, w)
  BY <1>1, ReceivedIs, WorldSound
<1>3. w.wire[s][e] # <<>> /\ Head(w.wire[s][e]).kind = "headers"
  BY <1>2 DEF HeadersArrive, Arrives
<1>4. PICK P, X : P = Awaits(Nodes, w, s, {}) /\ X = {[s |-> s, e |-> e]}
  OBVIOUS
<1>5. Handshake(Nodes, w.link[s], w.wire[s], P)
  BY <1>2, <1>4 DEF Sound, Shaking
<1>6. Handshake(Nodes, r.link[s], r.wire[s], IF e \in w.link[s].up THEN P \cup {e} ELSE P)
  <2>1. Handshake(Nodes, w.link[s], Less(w.wire[s], e), IF e \in w.link[s].up THEN P \cup {e} ELSE P)
    BY <1>3, <1>5, HeadersShake
  <2> QED
    BY <1>2, <2>1 DEF ReceivedAs
<1>7. w.link[s].client \in Nodes /\ w.link[s].server \in Nodes
  BY <1>3, <1>5, NamedEnds DEF Handshake
<1>8. At(s, e) \in Nodes /\ At(s, Other(e)) \in Nodes
  BY <1>2, <1>7 DEF At
<1>9. UNCHANGED <<picks, steps>> /\ PlanKept
  BY CountKept DEF HeadersArrive, IInv
<1>10. CASE e \notin link[s].up
  <2>1. Handshake(Nodes, r.link[s], r.wire[s], P)
    BY <1>2, <1>6, <1>10
  <2>2. Shaking(Nodes, r, {})
    BY <1>2, <1>4, <2>1, OneSocketOnly DEF Sound, ReceivedAs
  <2>3. Become(r)
    BY <1>1, <1>10 DEF HeadersArrive
  <2> QED
    BY <1>2, <1>9, <2>2, <2>3, HandBecomes DEF ReceivedAs, Shape
<1>11. CASE e \in link[s].up
  <2>1. Handshake(Nodes, r.link[s], r.wire[s], Awaits(Nodes, w, s, X))
    <3>1. P \cup {e} \subseteq Awaits(Nodes, w, s, X)
      BY <1>4 DEF Awaits
    <3>2. Handshake(Nodes, r.link[s], r.wire[s], P \cup {e})
      BY <1>2, <1>6, <1>11
    <3> QED
      BY <3>1, <3>2, MoreWaits
  <2>2. SameElsewhere({}, X, s)
    BY <1>4 DEF SameElsewhere
  <2>3. Shaking(Nodes, r, X)
    BY <1>2, <2>1, <2>2, OneSocket DEF Sound, ReceivedAs
  <2>4. PICK n, u : n = At(s, e) /\ u = Post(r, n, v)
    OBVIOUS
  <2>5. v.kind = "HEADERS_RECEIVE" /\ v.peer \in Nodes /\ v.s = s /\ v.e = e
    BY <1>1, <1>8
  <2>6. Shaking(Nodes, u, X \ {[s |-> s, e |-> e]})
    <3>1. Shaking(Nodes, u, X \ {[s |-> v.s, e |-> v.e]})
      BY <1>2, <1>8, <2>3, <2>4, <2>5, PostGreeting DEF ReceivedAs
    <3> QED
      BY <2>5, <3>1
  <2>7. X \ {[s |-> s, e |-> e]} = {}
    BY <1>4
  <2>8. Become(u)
    BY <1>1, <1>11, <2>4 DEF HeadersArrive
  <2>9. IsRecord(u)
    BY <1>2, <2>4, PostRecord DEF ReceivedAs, Shape
  <2> QED
    BY <1>9, <2>6, <2>7, <2>8, <2>9, HandBecomes
<1> QED
  BY <1>10, <1>11

LEMMA CloseArrivesHand ==
  ASSUME IInv, Hand, NEW s \in Sockets, NEW e \in Ends, CloseArrives(s, e) PROVE Hand'
<1>1. PICK w, r, v : /\ w = World /\ r = Received(s, e)
                     /\ v = [kind |-> "REMOVE_PEER", peer |-> At(s, Other(e))]
  OBVIOUS
<1>2. PICK d : d = Down(r, s, e)
  OBVIOUS
<1>3. /\ ReceivedAs(w, s, e, r) /\ Sound(Nodes, banned, w, {}) /\ w.wire = wire /\ w.link = link
      /\ "" \notin Nodes
  BY <1>1, ReceivedIs, WorldSound
<1>4. w.wire[s][e] # <<>> /\ Head(w.wire[s][e]).kind \in Broken
  BY <1>3 DEF CloseArrives, Arrives, Broken
<1>5. PICK P : P = Awaits(Nodes, w, s, {})
  OBVIOUS
<1>6. Handshake(Nodes, w.link[s], w.wire[s], P)
  BY <1>3, <1>5 DEF Sound, Shaking
<1>7. w.link[s] # NoLink
  <2>1. w.link[s].client \in Nodes
    BY <1>4, <1>6, NamedEnds DEF Handshake
  <2> QED
    BY <1>3, <2>1, NoLinkIs
<1>8. /\ OnlySocket(r, d, s) /\ d.wire = r.wire /\ Quitted(r.link[s], e, d.link[s])
      /\ Shape(Nodes, d)
  <2>1. r.link[s] # NoLink
    BY <1>3, <1>7 DEF ReceivedAs
  <2>2. Shape(Nodes, r) /\ DOMAIN r.wire = Sockets
    BY <1>3 DEF ReceivedAs
  <2> QED
    BY <1>2, <2>1, <2>2, DownIs
<1>9. OnlySocket(w, d, s)
  BY <1>3, <1>8, OnlyTwice DEF ReceivedAs
<1>10. Handshake(Nodes, d.link[s], d.wire[s], P)
  <2>1. Quitted(w.link[s], e, d.link[s])
    BY <1>3, <1>8 DEF ReceivedAs
  <2>2. Handshake(Nodes, d.link[s], Less(w.wire[s], e), P)
    BY <1>4, <1>6, <2>1, CloseShake
  <2> QED
    BY <1>3, <1>8, <2>2 DEF ReceivedAs
<1>11. Shaking(Nodes, d, {})
  BY <1>3, <1>5, <1>9, <1>10, OneSocketOnly DEF Sound
<1>12. PICK n, u : n = At(s, e) /\ u = Post(d, n, v)
  OBVIOUS
<1>13. Shaking(Nodes, u, {}) /\ IsRecord(u)
  <2>1. v.kind # "HEADERS_RECEIVE"
    BY <1>1
  <2>2. IsRecord(u)
    BY <1>8, <1>12, PostRecord DEF Shape
  <2> QED
    BY <1>8, <1>11, <1>12, <2>1, <2>2, PostShaking
<1>14. Become(d) \/ Become(u)
  BY <1>1, <1>2, <1>12 DEF CloseArrives, Down
<1>15. UNCHANGED <<picks, steps>> /\ PlanKept
  BY CountKept DEF CloseArrives, IInv
<1> QED
  BY <1>8, <1>11, <1>13, <1>14, <1>15, HandBecomes DEF Shape

\* A message that opens and closes nothing is read.
LEMMA OtherReceived ==
  ASSUME IInv, Hand, NEW s \in Sockets, NEW e \in Ends, wire[s][e] # <<>>,
         Head(wire[s][e]).kind \notin {"connect", "headers", "close", "lost"},
         NEW r, r = Received(s, e)
  PROVE  /\ Shaking(Nodes, r, {}) /\ Shape(Nodes, r)
         /\ Head(wire[s][e]).kind = "RESPONSE_PEERS" => Head(wire[s][e]).peers \subseteq Nodes
<1>1. PICK w : w = World
  OBVIOUS
<1>2. ReceivedAs(w, s, e, r) /\ Sound(Nodes, banned, w, {}) /\ w.wire = wire
  BY <1>1, ReceivedIs, WorldSound
<1>3. PICK P : P = Awaits(Nodes, w, s, {})
  OBVIOUS
<1>4. Handshake(Nodes, w.link[s], w.wire[s], P)
  BY <1>2, <1>3 DEF Sound, Shaking
<1>5. Handshake(Nodes, r.link[s], r.wire[s], P)
  <2>1. Handshake(Nodes, w.link[s], Less(w.wire[s], e), P)
    BY <1>2, <1>4, OtherShake
  <2> QED
    BY <1>2, <2>1 DEF ReceivedAs
<1>6. Shaking(Nodes, r, {})
  BY <1>2, <1>3, <1>5, OneSocketOnly DEF Sound, ReceivedAs
<1>7. Head(wire[s][e]).kind = "RESPONSE_PEERS" => Head(wire[s][e]).peers \subseteq Nodes
  <2>1. IsSequence(w.wire[s][e])
    BY <1>4 DEF Handshake, Queues
  <2>2. Head(w.wire[s][e]) \in ToSet(w.wire[s][e])
    BY <1>2, <2>1, KindsTail
  <2> QED
    BY <1>2, <1>4, <2>2 DEF Handshake, Named
<1> QED
  BY <1>2, <1>6, <1>7 DEF ReceivedAs

LEMMA BroadcastArrivesHand ==
  ASSUME IInv, Hand, NEW s \in Sockets, NEW e \in Ends, BroadcastArrives(s, e) PROVE Hand'
<1>1. PICK kind \in {"PEER_HEADERS_UPDATE", "PING", "REQUEST_PEERS",
                   "TRANSACTION_RECEIVE"} :
        /\ Arrives(s, e, kind)
        /\ Become(IF ~Heard(s, e, kind) THEN Received(s, e)
                  ELSE Post(Received(s, e), At(s, e),
                            [kind |-> kind, peer |-> At(s, Other(e)), about |-> Head(wire[s][e])]))
  BY DEF BroadcastArrives
<1>2. PICK r, n, v : /\ r = Received(s, e) /\ n = At(s, e)
                     /\ v = [kind |-> kind, peer |-> At(s, Other(e)), about |-> Head(wire[s][e])]
  OBVIOUS
<1>3. Shaking(Nodes, r, {}) /\ Shape(Nodes, r)
  BY <1>1, <1>2, OtherReceived DEF Arrives
<1>4. PICK u : u = Post(r, n, v)
  OBVIOUS
<1>5. Shaking(Nodes, u, {}) /\ IsRecord(u)
  <2>1. v.kind # "HEADERS_RECEIVE"
    BY <1>1, <1>2
  <2>2. IsRecord(u)
    BY <1>3, <1>4, PostRecord DEF Shape
  <2> QED
    BY <1>3, <1>4, <2>1, <2>2, PostShaking
<1>6. Become(r) \/ Become(u)
  BY <1>1, <1>2, <1>4
<1>7. UNCHANGED <<picks, steps>> /\ PlanKept
  BY CountKept DEF BroadcastArrives, IInv
<1> QED
  BY <1>3, <1>5, <1>6, <1>7, HandBecomes DEF Shape

LEMMA PongArrivesHand ==
  ASSUME IInv, Hand, NEW s \in Sockets, NEW e \in Ends, PongArrives(s, e) PROVE Hand'
<1>1. PICK r : r = Received(s, e)
  OBVIOUS
<1>2. Shaking(Nodes, r, {}) /\ Shape(Nodes, r)
  BY <1>1, OtherReceived DEF PongArrives, Arrives
<1>3. Become(r) /\ UNCHANGED <<picks, steps>> /\ PlanKept
  BY <1>1, CountKept DEF PongArrives, IInv
<1> QED
  BY <1>2, <1>3, HandBecomes DEF Shape

LEMMA ExceptSeqAny ==
  ASSUME NEW S, NEW q \in Seq(S), NEW k \in DOMAIN q, NEW y \in S
  PROVE  [q EXCEPT ![k] = y] \in Seq(S)
  OBVIOUS

LEMMA ExceptElsewhere ==
  ASSUME NEW S, NEW q \in Seq(S), NEW k, k \notin DOMAIN q, NEW y
  PROVE  [q EXCEPT ![k] = y] = q
<1>1. q = [i \in DOMAIN q |-> q[i]]
  OBVIOUS
<1> QED
  BY <1>1

\* The peers of an answer are nodes.
LEMMA PeersArriveHand ==
  ASSUME IInv, Hand, NEW s \in Sockets, NEW e \in Ends, PeersArrive(s, e) PROVE Hand'
<1>1. PICK r, N, m : r = Received(s, e) /\ N = Nodes /\ m = Head(wire[s][e])
  OBVIOUS
<1>2. Shaking(Nodes, r, {}) /\ Shape(Nodes, r) /\ m.peers \subseteq N
  BY <1>1, OtherReceived DEF PeersArrive, Arrives
<1>3. Become(r) /\ UNCHANGED steps /\ PlanKept
  BY <1>1, CountKept DEF PeersArrive, IInv
<1>4. Shaking(Nodes', World', {})
  BY <1>2, <1>3, ShakingBecomes DEF Shape
<1>5. picks \in Seq(PickOf(N)) /\ steps \in [N -> [gone : SUBSET N, new : SUBSET N]]
  BY <1>1 DEF Hand, Tracked
<1>6. picks' \in Seq(PickOf(N))
  <2>1. CASE picks' = picks
    BY <1>5, <2>1
  <2>2. PICK k, c : k = m.pick /\ c = [s |-> s, e |-> e]
    OBVIOUS
  <2>5. PICK t : t = [picks EXCEPT ![m.pick].asked = @ \ {[s |-> s, e |-> e]},
                                   ![m.pick].got = @ \cup m.peers]
    OBVIOUS
  <2>3. CASE picks' = t
    <3>0. t = [picks EXCEPT ![k].asked = @ \ {c}, ![k].got = @ \cup m.peers]
      BY <2>2, <2>5
    <3>1. CASE k \in DOMAIN picks
      <4>1. PICK x : x = picks[k]
        OBVIOUS
      <4>2. x \in PickOf(N)
        BY <1>5, <3>1, <4>1
      <4>3. PICK y : y = [node |-> x.node, what |-> x.what, asked |-> x.asked \ {c},
                          got |-> x.got \cup m.peers]
        OBVIOUS
      <4>4. y \in PickOf(N)
        BY <1>2, <4>2, <4>3 DEF PickOf
      <4>5. picks' = [picks EXCEPT ![k] = y]
        <5>1. PICK z : z = [picks EXCEPT ![k].asked = x.asked \ {c}]
          OBVIOUS
        <5>2. z[k] = [x EXCEPT !.asked = x.asked \ {c}]
          BY <3>1, <4>1, <5>1
        <5>3. z[k] = [node |-> x.node, what |-> x.what, asked |-> x.asked \ {c}, got |-> x.got]
          BY <4>2, <5>2 DEF PickOf
        <5>4. PICK a : a = z[k]
          OBVIOUS
        <5>5. [a EXCEPT !.got = a.got \cup m.peers] = y
          BY <4>3, <5>3, <5>4
        <5>6. picks' = [z EXCEPT ![k] = [a EXCEPT !.got = a.got \cup m.peers]]
          BY <2>3, <3>0, <4>1, <5>1, <5>4
        <5>7. picks' = [z EXCEPT ![k] = y]
          BY <5>5, <5>6
        <5> QED
          BY <1>5, <5>1, <5>7
      <4>6. [picks EXCEPT ![k] = y] \in Seq(PickOf(N))
        BY <1>5, <3>1, <4>4, ExceptSeqAny
      <4> QED
        BY <4>5, <4>6
    <3>2. CASE k \notin DOMAIN picks
      <4>1. PICK x, z : x = [picks[k] EXCEPT !.asked = picks[k].asked \ {c}]
                        /\ z = [picks EXCEPT ![k] = x]
        OBVIOUS
      <4>2. z = picks
        BY <1>5, <3>2, <4>1, ExceptElsewhere
      <4>3. PICK y : y = [z[k] EXCEPT !.got = picks[k].got \cup m.peers]
        OBVIOUS
      <4>4. t = [z EXCEPT ![k] = y]
        BY <3>0, <4>1, <4>3
      <4>5. [picks EXCEPT ![k] = y] = picks
        BY <1>5, <3>2, ExceptElsewhere
      <4> QED
        BY <1>5, <2>3, <4>2, <4>4, <4>5
    <3> QED
      BY <3>1, <3>2
  <2>4. picks' = picks \/ picks' = t
    BY <1>1, <2>5 DEF PeersArrive
  <2> QED
    BY <2>1, <2>3, <2>4
<1>7. Nodes' = N
  BY <1>1, <1>3, SameNodes DEF IInv
<1>8. Tracked(Nodes)'
  BY <1>3, <1>5, <1>6, <1>7 DEF Tracked, PickOf
<1> QED
  BY <1>4, <1>8 DEF Hand

-----------------------------------------------------------------------------
(* The callbacks.                                                          *)

CalledAs(n, X, w) ==
  /\ Sound(Nodes, banned, w, X) /\ Shape(Nodes, w)
  /\ w.link = link /\ w.memory = memory /\ w.network = network

LEMMA CalledSound ==
  ASSUME IInv, Hand, NEW n \in Nodes, posted[n] # <<>>,
         NEW X, Event(n).kind = "HEADERS_RECEIVE" => [s |-> Event(n).s, e |-> Event(n).e] \in X
  PROVE  /\ CalledAs(n, X, Called(n))
         /\ Event(n).kind = "HEADERS_RECEIVE" => Event(n).peer \in Nodes
<1>1. PICK w, u, v : w = World /\ u = Called(n) /\ v = Event(n)
  OBVIOUS
<1>2. Sound(Nodes, banned, w, {}) /\ Shape(Nodes, w) /\ w.posted = posted
  BY <1>1, WorldSound
<1>3. u = [w EXCEPT !.posted[n] = Tail(@)]
  BY <1>1 DEF Called
<1>4. v = Head(w.posted[n])
  BY <1>1, <1>2 DEF Event
<1>5. /\ Shaking(Nodes, [w EXCEPT !.posted[n] = Tail(@)], X)
      /\ v.kind = "HEADERS_RECEIVE" => v.peer \in Nodes
  <2>1. Shaking(Nodes, w, {}) /\ w.posted[n] # <<>>
    BY <1>2 DEF Sound
  <2>2. Head(w.posted[n]).kind = "HEADERS_RECEIVE" =>
          [s |-> Head(w.posted[n]).s, e |-> Head(w.posted[n]).e] \in X
    BY <1>1, <1>4
  <2> QED
    BY <1>2, <1>4, <2>1, <2>2, CalledShaking
<1>6. /\ Consistent(Nodes, banned, u)
      /\ u.link = link /\ u.memory = memory /\ u.network = network
  BY <1>1, CalledKeepsWorld
<1>7. Shaking(Nodes, u, X)
  BY <1>3, <1>5
<1> QED
  BY <1>1, <1>5, <1>6, <1>7 DEF CalledAs, Sound, Consistent

LEMMA HeadersReceiveHand ==
  ASSUME IInv, Hand, NEW n \in Nodes, HeadersReceive(n) PROVE Hand'
<1>1. PICK v, w : v = Event(n) /\ w = Called(n)
  OBVIOUS
<1>2. posted[n] # <<>> /\ v.kind = "HEADERS_RECEIVE"
  BY <1>1 DEF HeadersReceive, Runs
<1>3. PICK X : X = {[s |-> v.s, e |-> v.e]}
  OBVIOUS
<1>4. CalledAs(n, X, w) /\ v.peer \in Nodes
  BY <1>1, <1>2, <1>3, CalledSound
<1>5. /\ v.s \in Sockets /\ v.e \in Ends
      /\ EndOf(w, v.s, v.e) = n /\ EndOf(w, v.s, Other(v.e)) = v.peer
  <2>1. Announced(World, n, v)
    BY <1>1, <1>2, CalledKeepsWorld
  <2>2. \A s, e : EndOf(w, s, e) = EndOf(World, s, e)
    BY <1>4 DEF EndOf, World, CalledAs
  <2> QED
    BY <1>2, <2>1, <2>2 DEF Announced
<1>6. PICK u : u = IF v.peer \in DOMAIN memory[n] THEN Discard(w, n, v.peer, FALSE) ELSE w
  OBVIOUS
<1>7. /\ Sound(Nodes, banned, u, X)
      /\ v.peer \notin Entries(u, n)
      /\ EndOf(u, v.s, v.e) = n /\ EndOf(u, v.s, Other(v.e)) = v.peer
  <2>1. CASE v.peer \in DOMAIN memory[n]
    <3>1. Sound(Nodes, banned, u, X) /\ Gone(Nodes, banned, w, n, v.peer, u)
      BY <1>4, <1>6, <2>1, DiscardShaking DEF CalledAs
    <3> QED
      BY <1>5, <3>1, EndsOther DEF Gone
  <2>2. CASE v.peer \notin DOMAIN memory[n]
    <3>1. DOMAIN w.memory[n] = Entries(w, n)
      BY <1>4 DEF CalledAs, Sound, Consistent, Agreed
    <3> QED
      BY <1>4, <1>5, <1>6, <2>2, <3>1 DEF CalledAs
  <2> QED
    BY <2>1, <2>2
<1>8. PICK t : t = Enter(u, n, v.peer, v.s, v.e, v.head)
  OBVIOUS
<1>9. Sound(Nodes, banned, t, X) /\ v.e \in t.link[v.s].ears
  <2>1. "" \notin Nodes
    BY NoNameIsNoNode DEF IInv
  <2> QED
    BY <1>4, <1>5, <1>7, <1>8, <2>1, EnterShaking
<1>10. Shape(Nodes, t) /\ IsRecord(t)
  BY <1>9 DEF Sound, Consistent, Shape
<1>11. UNCHANGED <<picks, steps>> /\ PlanKept
  BY CountKept DEF HeadersReceive, IInv
<1>12. CASE Become(Disconnect(w, v.s, v.e))
  <2>1. X \ {[s |-> v.s, e |-> v.e]} = {}
    BY <1>3
  <2>2. PICK d : d = Disconnect(w, v.s, v.e)
    OBVIOUS
  <2>3. Shaking(Nodes, d, X \ {[s |-> v.s, e |-> v.e]})
    BY <1>4, <1>5, <2>2, DisconnectShaking DEF CalledAs, Sound
  <2>4. Calmer(w, d)
    BY <1>4, <2>2, DisconnectCalmer DEF CalledAs
  <2> QED
    BY <1>11, <1>12, <2>1, <2>2, <2>3, <2>4, HandBecomes DEF Calmer
<1>13. CASE v.e = "client" /\ Become(t)
  <2>1. PICK P : P = Awaits(Nodes, t, v.s, {})
    OBVIOUS
  <2>2. Awaits(Nodes, t, v.s, X) \subseteq P \cup {"client"}
    BY <1>3, <1>13, <2>1 DEF Awaits
  <2>3. Handshake(Nodes, t.link[v.s], t.wire[v.s], P \cup {"client"})
    BY <1>5, <1>9, <2>2, MoreWaits DEF Sound, Shaking
  <2>4. Handshake(Nodes, t.link[v.s], t.wire[v.s], P)
    BY <1>9, <1>13, <2>3, ListedShake
  <2>5. OnlySocket(t, t, v.s)
    BY <1>9, <1>10, OnlyNothing DEF Sound, Shaking
  <2>6. SameElsewhere(X, {}, v.s)
    BY <1>3 DEF SameElsewhere
  <2>7. Shaking(Nodes, t, {})
    BY <1>5, <1>9, <2>1, <2>4, <2>5, <2>6, OneSocket DEF Sound
  <2> QED
    BY <1>10, <1>11, <1>13, <2>7, HandBecomes
<1>14. PICK m : m = [kind |-> "headers", head |-> tip[n]]
  OBVIOUS
<1>15. CASE v.e = "server" /\ Become(Send(t, v.s, v.e, m))
  <2>1. PICK d : d = Send(t, v.s, v.e, m)
    OBVIOUS
  <2>2. m.kind = "headers"
    BY <1>14
  <2>3. Shaking(Nodes, t, {[s |-> v.s, e |-> "server"]}) /\ "server" \in t.link[v.s].ears
    BY <1>3, <1>9, <1>15 DEF Sound
  <2>4. Shaking(Nodes, Send(t, v.s, "server", m), {})
    BY <1>5, <1>10, <2>2, <2>3, AnswerShaking
  <2>5. Calmer(t, d)
    BY <1>10, <2>1, SendCalmer
  <2> QED
    BY <1>11, <1>15, <2>1, <2>4, <2>5, HandBecomes DEF Calmer
<1>16. \/ Become(Disconnect(w, v.s, v.e))
       \/ v.e = "client" /\ Become(t)
       \/ v.e # "client" /\ Become(Send(t, v.s, v.e, m))
  BY <1>1, <1>6, <1>8, <1>14 DEF HeadersReceive
<1> QED
  BY <1>5, <1>12, <1>13, <1>15, <1>16, EndsOther

LEMMA RemovePeerHand ==
  ASSUME IInv, Hand, NEW n \in Nodes, RemovePeer(n) PROVE Hand'
<1>1. PICK p, w : p = Event(n).peer /\ w = Called(n)
  OBVIOUS
<1>2. CalledAs(n, {}, w)
  BY <1>1, CalledSound DEF RemovePeer, Runs
<1>3. PICK d : d = Discard(w, n, p, TRUE)
  OBVIOUS
<1>4. Sound(Nodes, banned, d, {})
  BY <1>2, <1>3, DiscardShaking DEF CalledAs
<1>5. Become(d)
  BY <1>1, <1>3 DEF RemovePeer
<1>6. UNCHANGED <<picks, steps>> /\ PlanKept
  BY CountKept DEF RemovePeer, IInv
<1> QED
  BY <1>4, <1>5, <1>6, HandBecomes DEF Sound, Consistent, Shape

\* The flag of an entry, and the head that is remembered, are not the socket.
LEMMA UpdatePeerHand ==
  ASSUME IInv, Hand, NEW n \in Nodes, UpdatePeer(n) PROVE Hand'
<1>1. PICK w, p, head : w = Called(n) /\ p = Event(n).peer /\ head = Event(n).about.head
  OBVIOUS
<1>2. CalledAs(n, {}, w)
  BY <1>1, CalledSound DEF UpdatePeer, Runs
<1>3. UNCHANGED <<picks, steps>> /\ PlanKept
  BY CountKept DEF UpdatePeer, IInv
<1>4. PICK k, u : k = [w.memory EXCEPT ![n][p] = head] /\ u = [w EXCEPT !.memory = k]
  OBVIOUS
<1>5. u = [memory |-> k, network |-> w.network, posted |-> w.posted, link |-> w.link,
           wire |-> w.wire]
  BY <1>2, <1>4 DEF CalledAs, Shape, IsRecord
<1>6. /\ u.network = w.network /\ u.posted = w.posted /\ u.link = w.link /\ u.wire = w.wire
      /\ IsRecord(u)
  BY <1>5 DEF IsRecord
<1>7. Shaking(Nodes, u, {})
  BY <1>2, <1>6, FewerShaking DEF CalledAs, Sound, Entries
<1>8. [w EXCEPT !.memory[n][p] = head] = u
  BY <1>4
<1>9. CASE Become(w)
  BY <1>2, <1>3, <1>9, HandBecomes DEF CalledAs, Sound, Shape
<1>10. CASE Become(u)
  BY <1>3, <1>6, <1>7, <1>10, HandBecomes
<1>11. CASE p \in DOMAIN memory[n] /\ Become([u EXCEPT !.network[n][p].flag = FALSE])
  <2>1. PICK x, y : x = u.network[n][p] /\ y = [x EXCEPT !.flag = FALSE]
    OBVIOUS
  <2>2. PICK l, v : l = [u.network EXCEPT ![n][p] = y] /\ v = [u EXCEPT !.network = l]
    OBVIOUS
  <2>3. [u EXCEPT !.network[n][p].flag = FALSE] = v
    BY <2>1, <2>2
  <2>4. v = [memory |-> u.memory, network |-> l, posted |-> u.posted, link |-> u.link,
             wire |-> u.wire]
    BY <1>6, <2>2 DEF IsRecord
  <2>5. /\ v.network = l /\ v.posted = w.posted /\ v.link = w.link /\ v.wire = w.wire
        /\ IsRecord(v)
    BY <1>6, <2>4 DEF IsRecord
  <2>6. p \in Entries(w, n)
    BY <1>2, <1>11 DEF CalledAs, Sound, Consistent, Agreed
  <2>7. y.s = x.s /\ y.e = x.e
    <3>1. IsEntry(x)
      BY <1>2, <1>6, <2>1, <2>6 DEF CalledAs, Shape
    <3>2. DOMAIN x = {"s", "e", "flag"}
      BY <3>1 DEF IsEntry
    <3> QED
      BY <2>1, <3>2
  <2>8. ASSUME NEW m \in Nodes, NEW q \in Entries(v, m)
        PROVE  /\ q \in Entries(w, m)
               /\ v.network[m][q].s = w.network[m][q].s
               /\ v.network[m][q].e = w.network[m][q].e
    <3>1. DOMAIN w.network = Nodes
      BY <1>2 DEF CalledAs, Shape
    <3>2. DOMAIN l[m] = DOMAIN w.network[m]
          /\ (m = n /\ q = p => l[m][q] = y) /\ (~(m = n /\ q = p) => l[m][q] = w.network[m][q])
      BY <1>6, <2>2, <2>5, <2>6, <3>1 DEF Entries
    <3> QED
      BY <1>6, <2>1, <2>5, <2>7, <3>2 DEF Entries
  <2>9. Shaking(Nodes, v, {})
    BY <1>2, <2>5, <2>8, FewerShaking DEF CalledAs, Sound
  <2> QED
    BY <1>3, <1>11, <2>3, <2>5, <2>9, HandBecomes
<1>12. \/ Become(w) \/ Become(u)
       \/ p \in DOMAIN memory[n] /\ Become([u EXCEPT !.network[n][p].flag = FALSE])
  BY <1>1, <1>8 DEF UpdatePeer
<1> QED
  BY <1>9, <1>10, <1>11, <1>12

LEMMA ReceiveTransactionHand ==
  ASSUME IInv, Hand, NEW n \in Nodes, ReceiveTransaction(n) PROVE Hand'
<1>1. PICK w, m, u : /\ w = Called(n) /\ m = [kind |-> "TRANSACTION_RECEIVE"]
                     /\ u = ToAll(w, n, m)
  OBVIOUS
<1>2. CalledAs(n, {}, w)
  BY <1>1, CalledSound DEF ReceiveTransaction, Runs
<1>3. Shaking(Nodes, w, {}) /\ Shape(Nodes, w) /\ IsRecord(w)
  BY <1>2 DEF CalledAs, Sound, Shape
<1>4. Plain(Nodes, m)
  BY <1>1 DEF Plain
<1>5. Shaking(Nodes, u, {}) /\ IsRecord(u)
  BY <1>1, <1>3, <1>4, ToAllShaking, ToAllCalmer DEF Calmer
<1>6. Become(w) \/ Become(u)
  BY <1>1 DEF ReceiveTransaction
<1>7. UNCHANGED <<picks, steps>> /\ PlanKept
  BY CountKept, CountedKeepsPlan DEF ReceiveTransaction, IInv
<1> QED
  BY <1>3, <1>5, <1>6, <1>7, HandBecomes

\* The answer goes to a connection the node has, and names peers it has.
LEMMA AnswersHand ==
  ASSUME IInv, Hand, NEW n \in Nodes, Pong(n) \/ SendPeers(n) PROVE Hand'
<1>1. PICK w, p : w = Called(n) /\ p = Event(n).peer
  OBVIOUS
<1>2. CalledAs(n, {}, w)
  BY <1>1, CalledSound DEF Pong, SendPeers, Runs
<1>3. DOMAIN memory[n] \subseteq Nodes
  <2>1. DOMAIN w.memory[n] = Entries(w, n)
    BY <1>2 DEF CalledAs, Sound, Consistent, Agreed
  <2> QED
    BY <1>2, <2>1 DEF CalledAs, Sound, Shaking, Connects
<1>4. PICK m : /\ Plain(Nodes, m)
               /\ Become(IF p \notin DOMAIN network[n] THEN w
                         ELSE Send(w, network[n][p].s, network[n][p].e, m))
  <2>1. CASE Pong(n)
    <3>1. PICK m : m = [kind |-> "PONG"]
      OBVIOUS
    <3>2. Plain(Nodes, m)
      BY <3>1 DEF Plain
    <3> QED
      BY <1>1, <2>1, <3>1, <3>2 DEF Pong, Answer
  <2>2. CASE SendPeers(n)
    <3>1. PICK m : m = [kind |-> "RESPONSE_PEERS", pick |-> Event(n).about.pick,
                        peers |-> DOMAIN memory[n]]
      OBVIOUS
    <3>2. Plain(Nodes, m)
      BY <1>3, <3>1 DEF Plain
    <3> QED
      BY <1>1, <2>2, <3>1, <3>2 DEF SendPeers, Answer
  <2> QED
    BY <2>1, <2>2
<1>5. UNCHANGED <<picks, steps>> /\ PlanKept
  BY CountKept DEF Pong, SendPeers, IInv
<1>6. CASE p \notin DOMAIN network[n]
  BY <1>2, <1>4, <1>5, <1>6, HandBecomes DEF CalledAs, Sound, Shape
<1>7. CASE p \in DOMAIN network[n]
  <2>1. PICK s, e : s = network[n][p].s /\ e = network[n][p].e
    OBVIOUS
  <2>2. s \in Sockets /\ e \in Ends
    BY <1>2, <1>7, <2>1 DEF CalledAs, Sound, Shaking, Connects, Entries
  <2>3. PICK u : u = Send(w, s, e, m)
    OBVIOUS
  <2>4. Shaking(Nodes, u, {})
    BY <1>2, <1>4, <2>2, <2>3, SendShaking DEF CalledAs, Sound
  <2>5. Calmer(w, u)
    BY <1>2, <2>3, SendCalmer DEF CalledAs
  <2>6. Become(u)
    BY <1>4, <1>7, <2>1, <2>3
  <2> QED
    BY <1>5, <2>4, <2>5, <2>6, HandBecomes DEF Calmer
<1> QED
  BY <1>6, <1>7

\* New sockets to nodes.
LEMMA NewShaking ==
  ASSUME IInv, Hand, NEW w, Sound(Nodes, banned, w, {}),
         \A s \in Sockets, e \in Ends : EndOf(w, s, e) = EndOf(World, s, e),
         NEW n \in Nodes, NEW peers \in SUBSET Nodes, NEW f \in Assignments(peers)
  PROVE  /\ Shaking(Nodes, ConnectPeers(w, n, peers, f), {})
         /\ IsRecord(ConnectPeers(w, n, peers, f))
<1>1. \A p \in peers : \A e \in Ends : EndOf(w, f[p], e) \notin Nodes
  BY FreeEnds
<1>2. "" \notin Nodes
  BY NoNameIsNoNode DEF IInv
<1>3. Consistent(Nodes, banned, w) /\ Shaking(Nodes, w, {}) /\ Shape(Nodes, w)
  BY DEF Sound, Consistent
<1>4. Consistent(Nodes, banned, ConnectPeers(w, n, peers, f))
  BY <1>1, <1>3, ConnectKeeps
<1>5. Shaking(Nodes, ConnectPeers(w, n, peers, f), {})
  BY <1>1, <1>2, <1>3, ConnectShaking
<1> QED
  BY <1>4, <1>5 DEF Consistent, Shape

LEMMA ConnectTrustedHand ==
  ASSUME IInv, Hand, NEW n \in Nodes, ConnectTrusted(n) PROVE Hand'
<1>1. PICK w, peers : w = Called(n) /\ peers = Unknown(w, n, Trusted[n])
  OBVIOUS
<1>2. PICK f \in Assignments(peers) : Become(ConnectPeers(w, n, peers, f))
  BY <1>1 DEF ConnectTrusted
<1>3. CalledAs(n, {}, w)
  BY <1>1, CalledSound DEF ConnectTrusted, Runs
<1>4. peers \in SUBSET Nodes
  <2>1. Trusted[n] \subseteq Nodes
    BY PlansAssumption DEF IInv, PlanInv, Nodes, Trusted
  <2> QED
    BY <1>1, <2>1 DEF Unknown
<1>5. \A s \in Sockets, e \in Ends : EndOf(w, s, e) = EndOf(World, s, e)
  BY <1>3 DEF EndOf, World, CalledAs
<1>6. PICK u : u = ConnectPeers(w, n, peers, f)
  OBVIOUS
<1>7. Shaking(Nodes, u, {}) /\ IsRecord(u)
  BY <1>3, <1>4, <1>5, <1>6, NewShaking DEF CalledAs
<1>8. Become(u)
  BY <1>2, <1>6
<1>9. UNCHANGED <<picks, steps>> /\ PlanKept
  BY CountKept DEF ConnectTrusted, IInv
<1> QED
  BY <1>7, <1>8, <1>9, HandBecomes

\* A question is asked on all connections of the node.
LEMMA PicksHand ==
  ASSUME IInv, Hand, NEW n \in Nodes, DiscoverNewPeers(n) \/ RebootPeersConnections(n)
  PROVE  Hand'
<1>1. PICK w, m, N : /\ w = Called(n) /\ N = Nodes
                     /\ m = [kind |-> "REQUEST_PEERS", pick |-> Len(picks) + 1]
  OBVIOUS
<1>2. CalledAs(n, {}, w)
  BY <1>1, CalledSound DEF DiscoverNewPeers, RebootPeersConnections, Runs
<1>3. UNCHANGED steps /\ PlanKept
  BY CountKept DEF DiscoverNewPeers, RebootPeersConnections, IInv
<1>4. CASE Become(w) /\ UNCHANGED picks
  BY <1>2, <1>3, <1>4, HandBecomes DEF CalledAs, Sound, Shape
<1>5. ASSUME NEW what \in {"discover", "reboot"}, Pick(n, what) PROVE Hand'
  <2>1. PICK u : u = ToAll(w, n, m)
    OBVIOUS
  <2>2. Become(u)
    BY <1>1, <1>5, <2>1 DEF Pick
  <2>3. Shaking(Nodes, u, {}) /\ IsRecord(u)
    <3>1. Plain(Nodes, m)
      BY <1>1 DEF Plain
    <3>2. Shaking(Nodes, u, {})
      BY <1>2, <2>1, <3>1, ToAllShaking DEF CalledAs, Sound
    <3>3. Calmer(w, u)
      BY <1>2, <2>1, ToAllCalmer DEF CalledAs
    <3> QED
      BY <3>2, <3>3 DEF Calmer
  <2>4. Shaking(Nodes', World', {})
    BY <1>3, <2>2, <2>3, ShakingBecomes
  <2>5. picks \in Seq(PickOf(N)) /\ steps \in [N -> [gone : SUBSET N, new : SUBSET N]]
    BY <1>1 DEF Hand, Tracked
  <2>6. Connections(n) \subseteq [s : Sockets, e : Ends]
    BY <1>2 DEF CalledAs, Sound, Shaking, Connects, Entries, Connections
  <2>7. [node |-> n, what |-> what, asked |-> Connections(n), got |-> {}] \in PickOf(N)
    BY <1>1, <2>6 DEF PickOf
  <2>8. picks' \in Seq(PickOf(N))
    BY <1>5, <2>5, <2>7 DEF Pick
  <2>9. Nodes' = N
    BY <1>1, <1>3, SameNodes DEF IInv
  <2>10. Tracked(Nodes)'
    BY <1>3, <2>5, <2>8, <2>9 DEF Tracked, PickOf
  <2> QED
    BY <2>4, <2>10 DEF Hand
<1> QED
  BY <1>1, <1>4, <1>5 DEF DiscoverNewPeers, RebootPeersConnections

-----------------------------------------------------------------------------
(* What goes on after an await, and what comes from outside.               *)

\* A question that is answered or given up is done.
LEMMA DoneTracked ==
  ASSUME NEW N, NEW q \in Seq(PickOf(N)), NEW k \in DOMAIN q
  PROVE  [q EXCEPT ![k].what = "done", ![k].got = {}] \in Seq(PickOf(N))
<1>1. PICK x : x = q[k]
  OBVIOUS
<1>2. x \in PickOf(N)
  BY <1>1
<1>3. PICK y : y = [node |-> x.node, what |-> "done", asked |-> x.asked, got |-> {}]
  OBVIOUS
<1>4. y \in PickOf(N)
  BY <1>2, <1>3 DEF PickOf
<1>5. PICK z, a : z = [q EXCEPT ![k] = a] /\ a = [x EXCEPT !.what = "done"]
  OBVIOUS
<1>6. a = [node |-> x.node, what |-> "done", asked |-> x.asked, got |-> x.got]
  BY <1>2, <1>5 DEF PickOf
<1>7. z[k] = a
  BY <1>5
<1>8. [a EXCEPT !.got = {}] = y
  <2>1. PICK g, o : g = {} /\ o = "done"
    OBVIOUS
  <2>2. a = [node |-> x.node, what |-> o, asked |-> x.asked, got |-> x.got]
    BY <1>6, <2>1
  <2>3. y = [node |-> x.node, what |-> o, asked |-> x.asked, got |-> g]
    BY <1>3, <2>1
  <2>4. [a EXCEPT !.got = g] = y
    BY <2>2, <2>3
  <2> QED
    BY <2>1, <2>4
<1>9. [z EXCEPT ![k] = [z[k] EXCEPT !.got = {}]] = [z EXCEPT ![k] = y]
  BY <1>7, <1>8
<1>10. [z EXCEPT ![k] = y] = [q EXCEPT ![k] = y]
  BY <1>5
<1>11. [q EXCEPT ![k].what = "done", ![k].got = {}] = [z EXCEPT ![k] = [z[k] EXCEPT !.got = {}]]
  BY <1>1, <1>5
<1> QED
  BY <1>4, <1>9, <1>10, <1>11, ExceptSeqAny

LEMMA GivenUpTracked ==
  ASSUME NEW N, NEW q \in Seq(PickOf(N)), NEW k \in DOMAIN q, NEW c
  PROVE  [q EXCEPT ![k].asked = @ \ {c}] \in Seq(PickOf(N))
<1>1. PICK x : x = q[k]
  OBVIOUS
<1>2. x \in PickOf(N)
  BY <1>1
<1>3. PICK y : y = [node |-> x.node, what |-> x.what, asked |-> x.asked \ {c}, got |-> x.got]
  OBVIOUS
<1>4. y \in PickOf(N)
  BY <1>2, <1>3 DEF PickOf
<1>5. [x EXCEPT !.asked = x.asked \ {c}] = y
  <2>1. PICK g : g = x.asked \ {c}
    OBVIOUS
  <2>2. x = [node |-> x.node, what |-> x.what, asked |-> x.asked, got |-> x.got]
    BY <1>2 DEF PickOf
  <2>3. y = [node |-> x.node, what |-> x.what, asked |-> g, got |-> x.got]
    BY <1>3, <2>1
  <2>4. [x EXCEPT !.asked = g] = y
    BY <2>2, <2>3
  <2> QED
    BY <2>1, <2>4
<1>6. [q EXCEPT ![k].asked = @ \ {c}] = [q EXCEPT ![k] = y]
  BY <1>1, <1>5
<1> QED
  BY <1>4, <1>6, ExceptSeqAny

LEMMA ConnectDiscoveredHand ==
  ASSUME IInv, Hand, NEW k \in DOMAIN picks, ConnectDiscovered(k) PROVE Hand'
<1>1. PICK w, n, N : w = World /\ n = picks[k].node /\ N = Nodes
  OBVIOUS
<1>2. picks \in Seq(PickOf(N)) /\ steps \in [N -> [gone : SUBSET N, new : SUBSET N]]
  BY <1>1 DEF Hand, Tracked
<1>3. n \in Nodes /\ picks[k].got \subseteq Nodes
  <2>1. picks[k] \in PickOf(N)
    BY <1>2
  <2> QED
    BY <1>1, <2>1 DEF PickOf
<1>4. PICK peers \in SUBSET Unknown(w, n, picks[k].got \ banned[n]) :
        \E f \in Assignments(peers) : Become(ConnectPeers(w, n, peers, f))
  BY <1>1 DEF ConnectDiscovered
<1>5. peers \in SUBSET Nodes
  BY <1>3, <1>4 DEF Unknown
<1>13. PICK f \in Assignments(peers) : Become(ConnectPeers(w, n, peers, f))
  BY <1>4
<1>6. PICK u : u = ConnectPeers(w, n, peers, f)
  OBVIOUS
<1>7. Shaking(Nodes, u, {}) /\ IsRecord(u)
  BY <1>1, <1>3, <1>5, <1>6, <1>13, NewShaking, WorldSound
<1>8. PlanKept /\ UNCHANGED steps
  BY CountKept DEF ConnectDiscovered, IInv
<1>9. Shaking(Nodes', World', {})
  BY <1>6, <1>7, <1>8, <1>13, ShakingBecomes
<1>10. picks' \in Seq(PickOf(N))
  BY <1>2, DoneTracked DEF ConnectDiscovered, Done
<1>11. Nodes' = N
  BY <1>1, <1>8, SameNodes DEF IInv
<1>12. Tracked(Nodes)'
  BY <1>2, <1>8, <1>10, <1>11 DEF Tracked, PickOf
<1> QED
  BY <1>9, <1>12 DEF Hand

\* The world is as it was.
LEMMA SameHand ==
  ASSUME IInv, Hand, PlanKept, UNCHANGED <<memory, network, posted, link, wire>>
  PROVE  Shaking(Nodes', World', {})
<1>1. PICK w, N : w = World /\ N = Nodes
  OBVIOUS
<1>2. World' = w
  BY <1>1 DEF World
<1>3. Nodes' = N
  BY <1>1, SameNodes DEF IInv
<1> QED
  BY <1>1, <1>2, <1>3 DEF Hand

LEMMA StartReconnectHand ==
  ASSUME IInv, Hand, NEW k \in DOMAIN picks, StartReconnect(k) PROVE Hand'
<1>1. PICK n, N, w : n = picks[k].node /\ N = Nodes /\ w = World
  OBVIOUS
<1>2. picks \in Seq(PickOf(N)) /\ steps \in [N -> [gone : SUBSET N, new : SUBSET N]]
  BY <1>1 DEF Hand, Tracked
<1>3. n \in Nodes /\ picks[k].got \subseteq Nodes
  <2>1. picks[k] \in PickOf(N)
    BY <1>2
  <2> QED
    BY <1>1, <2>1 DEF PickOf
<1>4. Trusted[n] \subseteq Nodes
  BY <1>3, PlansAssumption DEF IInv, PlanInv, Nodes, Trusted
<1>5. UNCHANGED <<memory, network, posted, link, wire>> /\ PlanKept
  BY CountKept DEF StartReconnect, IInv
<1>6. Shaking(Nodes', World', {})
  BY <1>5, SameHand
<1>7. PICK peers \in SUBSET (picks[k].got \cup Trusted[n]) :
        steps' = [steps EXCEPT ![n] = [gone |-> DOMAIN memory[n] \ peers,
                                       new |-> peers \ DOMAIN memory[n]]]
  BY <1>1 DEF StartReconnect
<1>8. DOMAIN memory[n] \subseteq N
  <2>1. Sound(Nodes, banned, w, {}) /\ w.memory = memory
    BY <1>1, WorldSound
  <2>2. DOMAIN w.memory[n] = Entries(w, n)
    BY <1>3, <2>1 DEF Sound, Consistent, Agreed
  <2> QED
    BY <1>1, <1>3, <2>1, <2>2 DEF Sound, Shaking, Connects
<1>9. steps' \in [N -> [gone : SUBSET N, new : SUBSET N]]
  <2>1. PICK x : x = [gone |-> DOMAIN memory[n] \ peers, new |-> peers \ DOMAIN memory[n]]
    OBVIOUS
  <2>2. x \in [gone : SUBSET N, new : SUBSET N]
    BY <1>1, <1>3, <1>4, <1>7, <1>8, <2>1
  <2> QED
    BY <1>2, <1>7, <2>1, <2>2
<1>10. picks' \in Seq(PickOf(N))
  BY <1>2, DoneTracked DEF StartReconnect, Done
<1>11. Nodes' = N
  BY <1>1, <1>5, SameNodes DEF IInv
<1>12. Tracked(Nodes)'
  BY <1>9, <1>10, <1>11 DEF Tracked, PickOf
<1> QED
  BY <1>6, <1>12 DEF Hand

LEMMA StepReconnectHand ==
  ASSUME IInv, Hand, NEW n \in Nodes, StepReconnect(n) PROVE Hand'
<1>1. PICK o, N : o = World /\ N = Nodes
  OBVIOUS
<1>2. picks \in Seq(PickOf(N)) /\ steps \in [N -> [gone : SUBSET N, new : SUBSET N]]
  BY <1>1 DEF Hand, Tracked
<1>3. PICK gone, new, p :
        /\ new \subseteq steps[n].new
        /\ LET w == IF gone = {} THEN World ELSE Discard(World, n, p, FALSE)
               peers == Unknown(w, n, new)
           IN  /\ \E f \in Assignments(peers) : Become(ConnectPeers(w, n, peers, f))
               /\ steps' = [steps EXCEPT ![n] = [gone |-> @.gone \ gone, new |-> @.new \ new]]
  <2>1. PICK gone \in IF steps[n].gone = {} THEN {{}} ELSE {{p} : p \in steps[n].gone},
             new \in IF steps[n].new = {} THEN {{}} ELSE {{p} : p \in steps[n].new} :
          LET w == IF gone = {} THEN World ELSE Discard(World, n, CHOOSE p \in gone : TRUE, FALSE)
              peers == Unknown(w, n, new)
          IN  /\ \E f \in Assignments(peers) : Become(ConnectPeers(w, n, peers, f))
              /\ steps' = [steps EXCEPT ![n] = [gone |-> @.gone \ gone, new |-> @.new \ new]]
    BY DEF StepReconnect
  <2>2. new \subseteq steps[n].new
    BY <2>1
  <2>3. PICK p : p = CHOOSE q \in gone : TRUE
    OBVIOUS
  <2> QED
    BY <2>1, <2>2, <2>3
<1>4. PICK w : w = IF gone = {} THEN o ELSE Discard(o, n, p, FALSE)
  OBVIOUS
<1>5. PICK peers : peers = Unknown(w, n, new)
  OBVIOUS
<1>6. PICK f \in Assignments(peers) : Become(ConnectPeers(w, n, peers, f))
  BY <1>1, <1>3, <1>4, <1>5
<1>7. Sound(Nodes, banned, o, {})
  BY <1>1, WorldSound
<1>8. /\ Sound(Nodes, banned, w, {})
      /\ \A s \in Sockets, e \in Ends : EndOf(w, s, e) = EndOf(World, s, e)
  <2>1. PICK d : d = Discard(o, n, p, FALSE)
    OBVIOUS
  <2>2. Sound(Nodes, banned, d, {}) /\ Gone(Nodes, banned, o, n, p, d)
    BY <1>7, <2>1, DiscardShaking
  <2> QED
    BY <1>1, <1>4, <1>7, <2>1, <2>2 DEF Gone
<1>9. steps[n] \in [gone : SUBSET N, new : SUBSET N]
  BY <1>1, <1>2
<1>10. peers \in SUBSET Nodes
  BY <1>1, <1>3, <1>5, <1>9 DEF Unknown
<1>11. PICK u : u = ConnectPeers(w, n, peers, f)
  OBVIOUS
<1>12. Shaking(Nodes, u, {}) /\ IsRecord(u)
  BY <1>6, <1>8, <1>10, <1>11, NewShaking
<1>13. UNCHANGED picks /\ PlanKept
  BY CountKept DEF StepReconnect, IInv
<1>14. Shaking(Nodes', World', {})
  BY <1>6, <1>11, <1>12, <1>13, ShakingBecomes
<1>15. steps' \in [N -> [gone : SUBSET N, new : SUBSET N]]
  <2>1. PICK x, y : /\ x = steps[n] /\ y = [gone |-> x.gone \ gone, new |-> x.new \ new]
    OBVIOUS
  <2>2. y \in [gone : SUBSET N, new : SUBSET N]
    BY <1>9, <2>1
  <2>3. steps' = [steps EXCEPT ![n] = y]
    BY <1>3, <2>1
  <2> QED
    BY <1>2, <2>2, <2>3
<1>16. Nodes' = N
  BY <1>1, <1>13, SameNodes DEF IInv
<1>17. Tracked(Nodes)'
  BY <1>2, <1>13, <1>15, <1>16 DEF Tracked, PickOf
<1> QED
  BY <1>14, <1>17 DEF Hand

LEMMA EmitHand ==
  ASSUME IInv, Hand, NEW n \in Nodes, Emit(n) PROVE Hand'
<1>1. PICK w : w = World
  OBVIOUS
<1>2. Sound(Nodes, banned, w, {}) /\ Shape(Nodes, w)
  BY <1>1, WorldSound
<1>3. PICK kind \in {"PEER_CONNECT_RUN", "EMIT_REQUEST_PEERS", "EMIT_REBOOT_PEERS_CONNECTIONS"} :
        Become(Post(w, n, [kind |-> kind]))
  BY <1>1 DEF Emit
<1>4. PICK v, u : v = [kind |-> kind] /\ u = Post(w, n, v)
  OBVIOUS
<1>5. v.kind # "HEADERS_RECEIVE"
  BY <1>3, <1>4
<1>6. Shaking(Nodes, u, {}) /\ IsRecord(u)
  BY <1>2, <1>4, <1>5, PostShaking, PostRecord DEF Sound, Shape
<1>7. UNCHANGED <<picks, steps>> /\ PlanKept
  BY CountedKeepsPlan DEF Emit, IInv
<1> QED
  BY <1>3, <1>4, <1>6, <1>7, HandBecomes

LEMMA ToAllHand ==
  ASSUME IInv, Hand, NEW n, NEW m, Plain(Nodes, m), Become(ToAll(World, n, m)),
         UNCHANGED <<picks, steps>>, PlanKept
  PROVE  Hand'
<1>1. PICK w, u : w = World /\ u = ToAll(w, n, m)
  OBVIOUS
<1>2. Sound(Nodes, banned, w, {}) /\ Shape(Nodes, w)
  BY <1>1, WorldSound
<1>3. Shaking(Nodes, u, {})
  BY <1>1, <1>2, ToAllShaking DEF Sound
<1>4. Calmer(w, u)
  BY <1>1, <1>2, ToAllCalmer
<1> QED
  BY <1>1, <1>3, <1>4, HandBecomes DEF Calmer

LEMMA PingHand ==
  ASSUME IInv, Hand, NEW n \in Nodes, Ping(n) PROVE Hand'
<1>1. PICK m : m = [kind |-> "PING"]
  OBVIOUS
<1>2. Plain(Nodes, m)
  BY <1>1 DEF Plain
<1>3. Become(ToAll(World, n, m)) /\ UNCHANGED <<picks, steps>> /\ PlanKept
  <2>1. PICK c : count' = [count EXCEPT !.pings = c] \/ UNCHANGED count
    BY DEF Ping
  <2> QED
    BY <1>1, <2>1, CountKept DEF Ping, PlanKept, IInv, PlanInv, plan
<1> QED
  BY <1>2, <1>3, ToAllHand

LEMMA UpdateHeadersHand ==
  ASSUME IInv, Hand, NEW n \in Nodes, NEW head, UpdateHeaders(n, head) PROVE Hand'
<1>1. PICK m : m = [kind |-> "PEER_HEADERS_UPDATE", head |-> head]
  OBVIOUS
<1>2. Plain(Nodes, m)
  BY <1>1 DEF Plain
<1>3. Become(ToAll(World, n, m)) /\ UNCHANGED <<picks, steps>> /\ PlanKept
  BY <1>1, CountedKeepsPlan DEF UpdateHeaders, IInv
<1> QED
  BY <1>2, <1>3, ToAllHand

LEMMA SendTransactionHand ==
  ASSUME IInv, Hand, NEW n \in Nodes, SendTransaction(n) PROVE Hand'
<1>1. PICK m : m = [kind |-> "TRANSACTION_RECEIVE"]
  OBVIOUS
<1>2. Plain(Nodes, m)
  BY <1>1 DEF Plain
<1>3. Become(ToAll(World, n, m)) /\ UNCHANGED <<picks, steps>> /\ PlanKept
  BY <1>1, CountedKeepsPlan DEF SendTransaction, IInv
<1> QED
  BY <1>2, <1>3, ToAllHand

LEMMA PingTimeoutHand ==
  ASSUME IInv, Hand, NEW x, PingTimeout(x) PROVE Hand'
<1>1. PICK w, n, v : /\ w = World /\ n = At(x.s, x.e)
                     /\ v = [kind |-> "REMOVE_PEER", peer |-> x.peer]
  OBVIOUS
<1>2. Sound(Nodes, banned, w, {}) /\ Shape(Nodes, w)
  BY <1>1, WorldSound
<1>3. PICK u : u = Post(w, n, v)
  OBVIOUS
<1>4. Shaking(Nodes, u, {}) /\ IsRecord(u)
  <2>1. v.kind # "HEADERS_RECEIVE"
    BY <1>1
  <2> QED
    BY <1>2, <1>3, <2>1, PostShaking, PostRecord DEF Sound, Shape
<1>5. Become(u) /\ UNCHANGED <<picks, steps>>
  BY <1>1, <1>3 DEF PingTimeout, PingFailed
<1>6. PlanKept
  <2>1. PICK a, b : count' = [count EXCEPT !.pings = a, !.late = b]
    BY DEF PingTimeout
  <2> QED
    BY <2>1 DEF PlanKept, IInv, PlanInv, plan
<1> QED
  BY <1>4, <1>5, <1>6, HandBecomes

LEMMA PickTimeoutHand ==
  ASSUME IInv, Hand, NEW k \in DOMAIN picks, NEW c, PickTimeout(k, c) PROVE Hand'
<1>1. UNCHANGED <<memory, network, posted, link, wire, steps>>
  BY DEF PickTimeout
<1>2. PlanKept
  <2>1. PICK a : count' = [count EXCEPT !.late = a]
    BY DEF PickTimeout
  <2> QED
    BY <2>1 DEF PlanKept, IInv, PlanInv, plan
<1>3. Shaking(Nodes', World', {})
  BY <1>1, <1>2, SameHand
<1>4. PICK N : N = Nodes
  OBVIOUS
<1>5. picks \in Seq(PickOf(N)) /\ steps \in [N -> [gone : SUBSET N, new : SUBSET N]]
  BY <1>4 DEF Hand, Tracked
<1>6. picks' \in Seq(PickOf(N))
  BY <1>5, GivenUpTracked DEF PickTimeout
<1>7. Nodes' = N
  BY <1>2, <1>4, SameNodes DEF IInv
<1>8. Tracked(Nodes)'
  BY <1>1, <1>5, <1>6, <1>7 DEF Tracked, PickOf
<1> QED
  BY <1>3, <1>8 DEF Hand

LEMMA LoseHand ==
  ASSUME IInv, Hand, NEW s \in Sockets, Lose(s) PROVE Hand'
<1>1. PICK w, m : w = World /\ m = [kind |-> "lost"]
  OBVIOUS
<1>2. PICK q : q = [e \in Ends |-> <<m>>]
  OBVIOUS
<1>3. PICK v : v = Rewired(w, s, q)
  OBVIOUS
<1>4. /\ Sound(Nodes, banned, w, {}) /\ Shape(Nodes, w) /\ DOMAIN w.wire = Sockets
      /\ w.memory = memory /\ w.network = network /\ w.posted = posted /\ w.link = link
      /\ w.wire = wire
  BY <1>1, WorldSound
<1>5. OnlySocket(w, v, s) /\ v.link = w.link /\ v.wire[s] = q
  BY <1>3, <1>4, RewiredIs
<1>6. Handshake(Nodes, w.link[s], w.wire[s], Awaits(Nodes, w, s, {}))
  BY <1>4 DEF Sound, Shaking
<1>7. w.link[s] # NoLink
  BY <1>4 DEF Lose
<1>8. m.kind = "lost"
  BY <1>1
<1>9. Handshake(Nodes, w.link[s], q, Awaits(Nodes, w, s, {}))
  BY <1>2, <1>6, <1>7, <1>8, LoseShake
<1>10. Shaking(Nodes, v, {})
  BY <1>4, <1>5, <1>9, OneSocketOnly DEF Sound
<1>11. v.wire = [wire EXCEPT ![s] = q]
  BY <1>3, <1>4 DEF Rewired, Shape, IsRecord
<1>12. Become(v)
  BY <1>1, <1>2, <1>4, <1>5, <1>11 DEF Lose, Become, OnlySocket
<1>13. UNCHANGED <<picks, steps>> /\ PlanKept
  BY CountedKeepsPlan DEF Lose, IInv
<1> QED
  BY <1>5, <1>10, <1>12, <1>13, HandBecomes DEF OnlySocket

LEMMA BanHand ==
  ASSUME IInv, Hand, NEW n \in Nodes, NEW p, Ban(n, p) PROVE Hand'
<1>1. PICK w, x, v : w = World /\ x = network' /\ v = [w EXCEPT !.network = x]
  OBVIOUS
<1>2. /\ Sound(Nodes, banned, w, {}) /\ Shape(Nodes, w)
      /\ w.memory = memory /\ w.network = network /\ w.posted = posted /\ w.link = link
      /\ w.wire = wire
  BY <1>1, WorldSound
<1>3. v = [memory |-> memory, network |-> x, posted |-> posted, link |-> link, wire |-> wire]
  BY <1>1, <1>2 DEF Shape, IsRecord
<1>4. /\ v.memory = memory /\ v.network = x /\ v.posted = posted /\ v.link = link
      /\ v.wire = wire /\ IsRecord(v)
  BY <1>3 DEF IsRecord
<1>5. Become(v)
  BY <1>1, <1>4 DEF Ban, Become
<1>6. ASSUME NEW m \in Nodes, NEW q \in Entries(v, m)
      PROVE  /\ q \in Entries(w, m)
             /\ v.network[m][q].s = w.network[m][q].s
             /\ v.network[m][q].e = w.network[m][q].e
  <2>1. CASE p \notin DOMAIN network[n]
    BY <1>1, <1>2, <1>4, <1>6, <2>1 DEF Ban, Entries
  <2>2. CASE p \in DOMAIN network[n]
    <3>1. PICK y, z : y = network[n][p] /\ z = [y EXCEPT !.flag = TRUE]
      OBVIOUS
    <3>2. z.s = y.s /\ z.e = y.e
      <4>1. IsEntry(y)
        BY <1>2, <2>2, <3>1 DEF Shape, Entries
      <4>2. DOMAIN y = {"s", "e", "flag"}
        BY <4>1 DEF IsEntry
      <4> QED
        BY <3>1, <4>2
    <3>3. x = [network EXCEPT ![n][p] = z]
      BY <1>1, <2>2, <3>1 DEF Ban
    <3>4. DOMAIN network = Nodes
      BY <1>2 DEF Shape
    <3>5. DOMAIN x[m] = DOMAIN network[m]
          /\ (m = n /\ q = p => x[m][q] = z) /\ (~(m = n /\ q = p) => x[m][q] = network[m][q])
      BY <1>4, <1>6, <3>3, <3>4 DEF Entries
    <3> QED
      BY <1>2, <1>4, <1>6, <3>1, <3>2, <3>5 DEF Entries
  <2> QED
    BY <2>1, <2>2
<1>7. Shaking(Nodes, v, {})
  BY <1>2, <1>4, <1>6, FewerShaking DEF Sound
<1>8. UNCHANGED <<picks, steps>> /\ PlanKept
  BY CountedKeepsPlan DEF Ban, IInv
<1> QED
  BY <1>4, <1>5, <1>7, <1>8, HandBecomes

\* A socket that nobody uses is forgotten.
LEMMA ForgetHand ==
  ASSUME IInv, Hand, NEW s \in Sockets, Forget(s) PROVE Hand'
<1>1. PICK w, j, v : /\ w = World /\ j = link' /\ v = [w EXCEPT !.link = j]
  OBVIOUS
<1>2. /\ Sound(Nodes, banned, w, {}) /\ Shape(Nodes, w) /\ DOMAIN w.wire = Sockets
      /\ w.memory = memory /\ w.network = network /\ w.posted = posted /\ w.link = link
      /\ w.wire = wire
  BY <1>1, WorldSound
<1>3. v = [memory |-> memory, network |-> network, posted |-> posted, link |-> j, wire |-> wire]
  BY <1>1, <1>2 DEF Shape, IsRecord
<1>4. /\ v.memory = memory /\ v.network = network /\ v.posted = posted /\ v.link = j
      /\ v.wire = wire /\ IsRecord(v)
  BY <1>3 DEF IsRecord
<1>5. Become(v)
  BY <1>1, <1>4 DEF Forget, Become
<1>6. j[s] = NoLink /\ \A t \in Sockets : t # s => j[t] = link[t]
  BY <1>1, <1>2 DEF Forget, Shape
<1>7. \A t : Awaits(Nodes, v, t, {}) = Awaits(Nodes, w, t, {})
  BY <1>2, <1>4 DEF Awaits
<1>8. ASSUME NEW t \in Sockets
      PROVE  Handshake(Nodes, v.link[t], v.wire[t], Awaits(Nodes, v, t, {}))
  <2>1. CASE t = s
    <3>1. v.link[t] = NoLink /\ v.wire[t] = Silent
      BY <1>4, <1>6, <2>1 DEF Forget, Silent
    <3> QED
      BY <3>1, NoShake
  <2>2. CASE t # s
    <3>1. v.link[t] = w.link[t] /\ v.wire[t] = w.wire[t]
      BY <1>2, <1>4, <1>6, <2>2
    <3>2. Handshake(Nodes, w.link[t], w.wire[t], Awaits(Nodes, w, t, {}))
      BY <1>2 DEF Sound, Shaking
    <3> QED
      BY <1>7, <3>1, <3>2
  <2> QED
    BY <2>1, <2>2
<1>9. ASSUME NEW n \in Nodes, NEW p \in Entries(v, n)
      PROVE  Connects(Nodes, v, n, p, v.network[n][p])
  <2>1. PICK x : x = network[n][p]
    OBVIOUS
  <2>2. p \in DOMAIN network[n]
    BY <1>4, <1>9 DEF Entries
  <2>3. Connects(Nodes, w, n, p, x)
    BY <1>2, <2>1, <2>2 DEF Sound, Shaking, Entries
  <2>4. x.s # s
    BY <2>1, <2>2 DEF Forget, Used
  <2>5. \A e : EndOf(v, x.s, e) = EndOf(w, x.s, e)
    BY <1>2, <1>4, <1>6, <2>3, <2>4 DEF EndOf, Connects
  <2> QED
    BY <1>4, <2>1, <2>3, <2>5 DEF Connects
<1>10. /\ DOMAIN v.wire = Sockets
       /\ \A n \in Nodes : \A u \in ToSet(v.posted[n]) : u.kind = "HEADERS_RECEIVE" => u.peer \in Nodes
  BY <1>2, <1>4 DEF Sound, Shaking
<1>11. Shaking(Nodes, v, {})
  BY <1>8, <1>9, <1>10 DEF Shaking
<1>12. UNCHANGED <<picks, steps>> /\ PlanKept
  BY CountKept DEF Forget, IInv
<1> QED
  BY <1>4, <1>5, <1>11, <1>12, HandBecomes

-----------------------------------------------------------------------------
(* The handshakes hold, and what they say when nothing is on its way.      *)

LEMMA InitHand == Init => Hand
<1> SUFFICES ASSUME Init PROVE Hand
  OBVIOUS
<1>1. PICK p \in Plans :
        /\ count = [plan |-> p, runs |-> 0, reboots |-> 0, bans |-> 0, tips |-> 0,
                    sends |-> 0, losses |-> 0, late |-> 0, pings |-> 0]
        /\ network = [n \in DOMAIN p.trusted |-> Nobody]
        /\ posted = [n \in DOMAIN p.trusted |-> <<>>]
        /\ link = [s \in Sockets |-> NoLink]
        /\ wire = [s \in Sockets |-> [e \in Ends |-> <<>>]]
        /\ picks = <<>> /\ steps = [n \in DOMAIN p.trusted |-> NoSteps]
  BY DEF Init
<1>2. Nodes = DOMAIN p.trusted
  BY <1>1 DEF plan, Nodes, Trusted
<1>3. PICK N, w : N = Nodes /\ w = World
  OBVIOUS
<1>4. /\ w.network = [n \in N |-> Nobody] /\ w.posted = [n \in N |-> <<>>]
      /\ w.link = [s \in Sockets |-> NoLink]
      /\ w.wire = [s \in Sockets |-> [e \in Ends |-> <<>>]]
  BY <1>1, <1>2, <1>3 DEF World
<1>5. ASSUME NEW s \in Sockets
      PROVE  Handshake(N, w.link[s], w.wire[s], Awaits(N, w, s, {}))
  <2>1. w.link[s] = NoLink /\ w.wire[s] = Silent
    BY <1>4 DEF Silent
  <2> QED
    BY <2>1, NoShake
<1>6. \A n \in N : Entries(w, n) = {} /\ ToSet(w.posted[n]) = {}
  <2>1. DOMAIN Nobody = {}
    BY DEF Nobody
  <2> QED
    BY <1>4, <2>1, KindsNone DEF Entries
<1>7. Shaking(N, w, {})
  BY <1>4, <1>5, <1>6 DEF Shaking
<1>8. steps \in [N -> [gone : SUBSET N, new : SUBSET N]]
  <2>1. NoSteps \in [gone : SUBSET N, new : SUBSET N]
    BY DEF NoSteps
  <2> QED
    BY <1>1, <1>2, <1>3, <2>1
<1>9. picks \in Seq(PickOf(N))
  BY <1>1
<1> QED
  BY <1>3, <1>7, <1>8, <1>9 DEF Hand, Tracked

LEMMA NextHand == IInv /\ Hand /\ [Next]_vars => Hand'
<1> SUFFICES ASSUME IInv, Hand, [Next]_vars PROVE Hand'
  OBVIOUS
<1>1. ASSUME NEW s \in Sockets, NEW e \in Ends, DeliverTo(s, e) PROVE Hand'
  BY <1>1, ServerConnectHand, ClientConnectHand, HeadersArriveHand, CloseArrivesHand,
     BroadcastArrivesHand, PongArrivesHand, PeersArriveHand DEF DeliverTo
<1>2. ASSUME NEW n \in Nodes, Callback(n) PROVE Hand'
  BY <1>2, HeadersReceiveHand, RemovePeerHand, UpdatePeerHand, AnswersHand,
     ConnectTrustedHand, ReceiveTransactionHand, PicksHand DEF Callback
<1>3. CASE Continue
  BY <1>3, ConnectDiscoveredHand, StartReconnectHand, StepReconnectHand DEF Continue
<1>4. CASE Timeout
  BY <1>4, PingTimeoutHand, PickTimeoutHand DEF Timeout
<1>5. ASSUME NEW n \in Nodes, Emit(n) \/ Ping(n) \/ SendTransaction(n)
      PROVE  Hand'
  BY <1>5, EmitHand, PingHand, SendTransactionHand
<1>6. ASSUME NEW n \in Nodes, NEW p \in Nodes, Ban(n, p) PROVE Hand'
  BY <1>6, BanHand
<1>7. ASSUME NEW n \in Nodes, NEW head \in plan.heads, UpdateHeaders(n, head) PROVE Hand'
  BY <1>7, UpdateHeadersHand
<1>8. ASSUME NEW s \in Sockets, Lose(s) \/ Forget(s) PROVE Hand'
  BY <1>8, LoseHand, ForgetHand
<1>9. CASE UNCHANGED vars
  <2>1. UNCHANGED <<memory, network, posted, link, wire, picks, steps, count>>
    BY <1>9 DEF vars
  <2>2. PlanKept
    BY <2>1, CountKept DEF IInv
  <2>3. Shaking(Nodes', World', {}) /\ Tracked(Nodes)'
    BY <2>1, <2>2, SameHand, TrackedKept
  <2> QED
    BY <2>3 DEF Hand
<1> QED
  BY <1>1, <1>2, <1>3, <1>4, <1>5, <1>6, <1>7, <1>8, <1>9 DEF Next

LEMMA HandInvariant == Spec => [](IInv /\ Hand)
BY InitInvariant, NextInvariant, InitHand, NextHand, PTL DEF Spec

\* When nothing is on its way, both ends of an open socket are listed.
LEMMA QuietSocket ==
  ASSUME IInv, Hand, Quiet, NEW s \in Sockets, NEW e \in Ends, e \in link[s].up
  PROVE  /\ Other(e) \in link[s].up /\ e \in link[s].ears /\ Other(e) \in link[s].ears
         /\ At(s, e) \in Nodes /\ At(s, Other(e)) \in Nodes
<1>1. PICK w, l, q : w = World /\ l = link[s] /\ q = wire[s]
  OBVIOUS
<1>2. Sound(Nodes, banned, w, {}) /\ w.link = link /\ w.wire = wire /\ w.posted = posted
  BY <1>1, WorldSound
<1>3. Awaits(Nodes, w, s, {}) = {}
  <2>1. \A n \in Nodes : ToSet(w.posted[n]) = {}
    BY <1>2, KindsNone DEF Quiet
  <2> QED
    BY <2>1 DEF Awaits
<1>4. Handshake(Nodes, l, q, {})
  BY <1>1, <1>2, <1>3 DEF Sound, Shaking
<1>5. \A o \in Ends : Kinds(q[o]) = {}
  BY <1>1, KindsNone DEF Quiet
<1>6. "client" \in l.up /\ "server" \in l.up
  BY <1>1, <1>4, <1>5, EndsOther DEF Handshake, Paired
<1>7. "client" \in l.ears /\ "server" \in l.ears
  BY <1>4, <1>5, <1>6, EndsOther DEF Handshake, Greeted
<1>8. l.client \in Nodes /\ l.server \in Nodes
  BY <1>1, <1>4, NamedEnds DEF Handshake
<1> QED
  BY <1>1, <1>6, <1>7, <1>8, EndsOther DEF At

LEMMA HandNoLeak == IInv /\ Hand => NoLeak
<1> SUFFICES ASSUME IInv, Hand, Quiet, NEW s \in Sockets, NEW e \in Ends, e \in link[s].up
             PROVE  /\ At(s, Other(e)) \in DOMAIN network[At(s, e)]
                    /\ Entry(At(s, e), At(s, Other(e))).s = s
  BY DEF NoLeak
<1>1. e \in link[s].ears /\ At(s, e) \in Nodes
  BY QuietSocket
<1> QED
  BY <1>1, InvariantAgrees DEF ListsAgree

\* An entry with a connected socket is that of another node, and this node has
\* the other end of the same socket.
LiveShared ==
  Quiet => \A n \in Nodes : \A p \in DOMAIN network[n] : Live(n, p) =>
    /\ p # n /\ Live(p, n)
    /\ Entry(n, p).s = Entry(p, n).s /\ Entry(n, p).e # Entry(p, n).e

LEMMA HandLiveShared == IInv /\ Hand => LiveShared
<1> SUFFICES ASSUME IInv, Hand, Quiet, NEW n \in Nodes, NEW p \in DOMAIN network[n], Live(n, p)
             PROVE  /\ p # n /\ Live(p, n)
                    /\ Entry(n, p).s = Entry(p, n).s /\ Entry(n, p).e # Entry(p, n).e
  BY DEF LiveShared
<1>1. PICK w, s, e : w = World /\ s = Entry(n, p).s /\ e = Entry(n, p).e
  OBVIOUS
<1>2. Sound(Nodes, banned, w, {}) /\ w.network = network
  BY <1>1, WorldSound
<1>3. s \in Sockets /\ e \in Ends /\ EndOf(w, s, e) = n /\ EndOf(w, s, Other(e)) = p
  BY <1>1, <1>2 DEF Sound, Shaking, Connects, Entries, Entry
<1>4. At(s, e) = n /\ At(s, Other(e)) = p
  BY <1>1, <1>3, WorldEnds
<1>5. e \in link[s].up
  BY <1>1 DEF Live
<1>6. /\ Other(e) \in link[s].up /\ Other(e) \in link[s].ears /\ p \in Nodes
  BY <1>3, <1>4, <1>5, QuietSocket
<1>7. n \in DOMAIN network[p] /\ Entry(p, n).s = s /\ Entry(p, n).e = Other(e)
  <2>1. At(s, Other(Other(e))) = n /\ Other(e) \in Ends
    BY <1>3, <1>4, EndsOther
  <2> QED
    BY <1>3, <1>4, <1>6, <2>1, InvariantAgrees DEF ListsAgree
<1>8. e # Other(e)
  BY <1>3, EndsOther
<1>9. p # n
  BY <1>1, <1>7, <1>8
<1> QED
  BY <1>1, <1>6, <1>7, <1>8, <1>9 DEF Live

LEMMA SharedNotItself == LiveShared => NotItself
BY DEF LiveShared, NotItself

\* In every network, and however connects, closes, headers, removals and broken
\* sockets interleave: once nothing is on its way, a socket that is still open is
\* one by which both of its nodes know each other (peer.ts add,
\* resolveConnectionConflict, remove; driver/socket/index.ts).
THEOREM NoLeakHolds == Spec => []NoLeak
BY HandInvariant, HandNoLeak, PTL

\* Once nothing is on its way, two nodes that have a live connection agree which
\* of their sockets it is, and no node has one with itself
\* (resolveConnectionConflict).
THEOREM LiveSharedHolds == Spec => []LiveShared
BY HandInvariant, HandLiveShared, PTL

\* In particular a node that connects to itself, which the other peers may lead it
\* to, has closed that connection once nothing is on its way.
THEOREM NotItselfHolds == Spec => []NotItself
BY LiveSharedHolds, SharedNotItself, PTL
=============================================================================
