------------------------------- MODULE Peers -------------------------------
(***************************************************************************)
(* The connections between nodes: src/core/service/peer.ts,                *)
(* src/core/controller/peer.ts, the repositories of src/core/repository/   *)
(* peer/, the peers of src/shared/model/Peer/ and the driver               *)
(* src/core/driver/socket/index.ts.  All nodes run this code; a socket has *)
(* a client and a server end and carries messages in order both ways.      *)
(*                                                                         *)
(* A node adds a peer when the HEADERS of a new socket arrive.  When it    *)
(* has the peer already it keeps the socket with the smaller id.  Messages *)
(* are posted to the event loop of the node (setImmediate), which handles  *)
(* one after the other.                                                    *)
(***************************************************************************)
EXTENDS Integers, Sequences, FiniteSets, SequencesExt, Functions

CONSTANTS
    Address,            \* the addresses of nodes
    Sockets,            \* numbers: sockets at a time, in the order of their ids
    MinPeers,           \* PEERS_DISCOVER.MIN
    MaxDiscover,        \* PEERS_DISCOVER.MAX
    MaxConnectTo,       \* MAX_PEERS_CONNECT_TO
    Plans               \* the networks and bounds, see count

ASSUME SocketsAssumption == Sockets \subseteq Nat

\* The addresses a node trusts are those of nodes.
ASSUME PlansAssumption ==
    /\ "" \notin Address
    /\ \A p \in Plans : /\ DOMAIN p.trusted \subseteq Address
                       /\ \A n \in DOMAIN p.trusted : p.trusted[n] \subseteq DOMAIN p.trusted

Ends == {"client", "server"}
Other(e) == IF e = "client" THEN "server" ELSE "client"

VARIABLES
    memory,             \* PeerMemoryRepository.peers of each node
    network,            \* PeerNetworkRepository.peers of each node
    banned,             \* PeerNetworkRepository.banList of each node
    tip,                \* SystemRepository.headers of each node
    posted,             \* the callbacks given to setImmediate, by node
    link,               \* the sockets
    wire,               \* the messages on their way to each end
    pings,              \* the pings without an answer: socket, end and peer
    picks,              \* the calls of pickNewPeers, by number
    steps,              \* what stepReconnect has still to do, by node
    count               \* the network and its bounds, and what has happened of them

(***************************************************************************)
(* A plan gives the nodes there are and the peers each of them trusts      *)
(* (config.CORE.PEERS.TRUSTED), the heights with their broadhash, and      *)
(* bounds: sockets at a time, PEER_CONNECT_RUN and EMIT_REQUEST_PEERS from outside, questions *)
(* for peers, EMIT_REBOOT_PEERS_CONNECTIONS, peers banned by the           *)
(* synchronization, changes of the last block, transactions a node passes  *)
(* on, sockets the network closes,                                         *)
(* requests given up before their answer arrives, and failed pings after   *)
(* which no other is sent.                                                 *)
(***************************************************************************)
plan == count.plan
Trusted == plan.trusted
Nodes == DOMAIN Trusted

vars == <<memory, network, banned, tip, posted, link, wire, pings, picks, steps, count>>

NoLink == [client |-> "", server |-> "", up |-> {}, ears |-> {}, hello |-> 0]
NoSteps == [gone |-> {}, new |-> {}]
Nobody == [p \in {} |-> 0]

Init == \E p \in Plans :
    LET nodes == DOMAIN p.trusted IN
    /\ count = [plan |-> p, runs |-> 0, reboots |-> 0, bans |-> 0, tips |-> 0,
                sends |-> 0,
                losses |-> 0, late |-> 0, pings |-> 0]
    /\ memory = [n \in nodes |-> Nobody] /\ network = [n \in nodes |-> Nobody]
    /\ banned = [n \in nodes |-> {}]
    /\ tip \in [nodes -> p.heads]
    /\ posted = [n \in nodes |-> <<>>]
    /\ link = [s \in Sockets |-> NoLink]
    /\ wire = [s \in Sockets |-> [e \in Ends |-> <<>>]]
    /\ pings = {} /\ picks = <<>>
    /\ steps = [n \in nodes |-> NoSteps]

Counted(what) == count[what] < plan[what] /\ count' = [count EXCEPT ![what] = @ + 1]

\* The node at an end of a socket.
At(s, e) == IF e = "client" THEN link[s].client ELSE link[s].server

-----------------------------------------------------------------------------
(***************************************************************************)
(* What the services do within one callback: operators from a world w, the *)
(* variables they share, to the world after it.                            *)
(***************************************************************************)
World == [memory |-> memory, network |-> network, posted |-> posted, link |-> link,
          wire |-> wire]

Become(w) ==
    /\ memory' = w.memory /\ network' = w.network /\ posted' = w.posted
    /\ link' = w.link /\ wire' = w.wire

Post(w, n, event) == [w EXCEPT !.posted[n] = Append(@, event)]

\* A message is lost when the sending end is not connected.
Send(w, s, e, message) ==
    IF e \in w.link[s].up THEN [w EXCEPT !.wire[s][Other(e)] = Append(@, message)] ELSE w

\* socket.disconnect(true) at the end e.
Disconnect(w, s, e) ==
    [Send(w, s, e, [kind |-> "close"]) EXCEPT !.link[s].up = @ \ {e}]

\* Mutant: the listeners stay.
Hangup_KeepsEars(w, s, e) == Disconnect(w, s, e)

\* Mutant: only the listeners go.
Hangup_StaysOpen(w, s, e) == [w EXCEPT !.link[s].ears = @ \ {e}]

\* NetworkPeer.disconnect: its listeners go first.
Hangup(w, s, e) == Disconnect([w EXCEPT !.link[s].ears = @ \ {e}], s, e)

Without(f, p) == [q \in DOMAIN f \ {p} |-> f[q]]
With(f, p, value) == [q \in DOMAIN f \cup {p} |-> IF q = p THEN value ELSE f[q]]

\* PeerService.remove
Discard(w, n, p, check) ==
    LET left == [w EXCEPT !.memory[n] = Without(@, p), !.network[n] = Without(@, p)]
        closed == IF p \notin DOMAIN w.network[n] THEN left
                  ELSE Hangup(left, w.network[n][p].s, w.network[n][p].e)
    IN  IF check /\ Cardinality(DOMAIN closed.memory[n]) < MinPeers
        THEN Post(closed, n, [kind |-> "EMIT_REQUEST_PEERS"])
        ELSE closed

\* Mutant: a new connection is not banned.
Enter_Unbanned(w, n, p, s, e, head) ==
    [w EXCEPT !.memory[n] = With(@, p, head),
              !.network[n] = With(@, p, [s |-> s, e |-> e, flag |-> FALSE]),
              !.link[s].ears = @ \cup {e}]

\* PeerMemoryRepository.add and PeerNetworkRepository.add
Enter(w, n, p, s, e, head) ==
    [w EXCEPT !.memory[n] = With(@, p, head),
              !.network[n] = With(@, p, [s |-> s, e |-> e, flag |-> p \in banned[n]]),
              !.link[s].ears = @ \cup {e}]

\* A client socket that was disconnected has lost its id.
HasId(w, s, e) == e = "server" \/ "client" \in w.link[s].up

\* Mutant: who was first stays.
KeepsOld_First(w, n, p, s, e) == TRUE

\* resolveConnectionConflict: the old socket stays when its id sorts first.  The
\* new one comes first in the array that is sorted: it wins when one of the two
\* ids is missing.
KeepsOld(w, n, p, s, e) ==
    LET old == w.network[n][p] IN
    old.s < s /\ HasId(w, old.s, old.e) /\ HasId(w, s, e)

\* SocketDriver.connectPeer: a free socket; who has the peer does not connect.
Free == {s \in Sockets : s <= plan.sockets /\ link[s] = NoLink /\ wire[s] = [e \in Ends |-> <<>>]}
Opened(n, p) == [client |-> n, server |-> p, up |-> {}, ears |-> {}, hello |-> tip[n]]

\* connectPeers: with[p] is the socket for p; the ids are random.
ConnectPeers(w, n, peers, with) ==
    [w EXCEPT
       !.link = [s \in DOMAIN @ |->
                   IF s \notin {with[p] : p \in peers} THEN @[s]
                   ELSE Opened(n, CHOOSE p \in peers : with[p] = s)],
       !.wire = [s \in DOMAIN @ |->
                   IF s \notin {with[p] : p \in peers} THEN @[s]
                   ELSE [@[s] EXCEPT !["server"] = <<[kind |-> "connect"]>>]]]
Assignments(peers) == {f \in [peers -> Free] : IsInjective(f)}
Unknown(w, n, peers) == peers \ DOMAIN w.memory[n]

-----------------------------------------------------------------------------
(***************************************************************************)
(* Messages that arrive at an end of a socket.                             *)
(***************************************************************************)
Arrives(s, e, kind) == wire[s][e] # <<>> /\ Head(wire[s][e]).kind = kind

Received(s, e) == [World EXCEPT !.wire[s][e] = Tail(@)]

\* onServerConnect: a second connection from one address is closed.
ServerConnect(s) ==
    /\ Arrives(s, "server", "connect")
    /\ LET redundant == \E t \in Sockets \ {s} :
               /\ link[t].server = link[s].server /\ link[t].client = link[s].client
               /\ "server" \in link[t].up
           up == [Received(s, "server") EXCEPT !.link[s].up = @ \cup {"server"}]
           told == Send(up, s, "server", [kind |-> "connect"])
       IN  Become(IF redundant THEN Disconnect(told, s, "server") ELSE told)
    /\ UNCHANGED <<banned, tip, pings, picks, steps, count>>

ClientConnect(s) ==
    /\ Arrives(s, "client", "connect")
    /\ LET up == [Received(s, "client") EXCEPT !.link[s].up = @ \cup {"client"}]
       IN  Become(Send(up, s, "client", [kind |-> "headers", head |-> link[s].hello]))
    /\ UNCHANGED <<banned, tip, pings, picks, steps, count>>

HeadersArrive(s, e) ==
    /\ Arrives(s, e, "headers")
    /\ Become(IF e \notin link[s].up THEN Received(s, e)
              ELSE Post(Received(s, e), At(s, e),
                        [kind |-> "HEADERS_RECEIVE", peer |-> At(s, Other(e)), s |-> s, e |-> e,
                         head |-> Head(wire[s][e]).head]))
    /\ UNCHANGED <<banned, tip, pings, picks, steps, count>>

\* The disconnect listener; a server does not post for the reason
\* 'client namespace disconnect', a client that closes its socket.
CloseArrives(s, e) ==
    /\ \E kind \in {"close", "lost"} :
          /\ Arrives(s, e, kind)
          /\ LET down == [Received(s, e) EXCEPT !.link[s].up = @ \ {e}, !.link[s].ears = @ \ {e}]
             IN  Become(IF /\ e \in link[s].up \cap link[s].ears
                           /\ ~(kind = "close" /\ e = "server")
                        THEN Post(down, At(s, e), [kind |-> "REMOVE_PEER", peer |-> At(s, Other(e))])
                        ELSE down)
    /\ UNCHANGED <<banned, tip, pings, picks, steps, count>>

\* NetworkPeer._onBroadcast and _onRPCRequest: whether a message is heard by the
\* listeners of a NetworkPeer.  Of a banned peer only what it says of itself and
\* what it asks for is let through.
Heard(s, e, kind) ==
    /\ e \in link[s].ears
    /\ kind = "TRANSACTION_RECEIVE" => ~network[At(s, e)][At(s, Other(e))].flag

BroadcastArrives(s, e) ==
    /\ \E kind \in {"PEER_HEADERS_UPDATE", "PING", "REQUEST_PEERS", "TRANSACTION_RECEIVE"} :
          /\ Arrives(s, e, kind)
          /\ Become(IF ~Heard(s, e, kind) THEN Received(s, e)
                    ELSE Post(Received(s, e), At(s, e),
                              [kind |-> kind, peer |-> At(s, Other(e)), about |-> Head(wire[s][e])]))
    /\ UNCHANGED <<banned, tip, pings, picks, steps, count>>

PongArrives(s, e) ==
    /\ Arrives(s, e, "PONG")
    /\ Become(Received(s, e))
    /\ pings' = IF e \in link[s].ears THEN {x \in pings : ~(x.s = s /\ x.e = e)} ELSE pings
    /\ UNCHANGED <<banned, tip, picks, steps, count>>

PeersArrive(s, e) ==
    /\ Arrives(s, e, "RESPONSE_PEERS")
    /\ LET m == Head(wire[s][e])
       IN  picks' = IF e \notin link[s].ears \/ [s |-> s, e |-> e] \notin picks[m.pick].asked THEN picks
                    ELSE [picks EXCEPT ![m.pick].asked = @ \ {[s |-> s, e |-> e]},
                                       ![m.pick].got = @ \cup m.peers]
    /\ Become(Received(s, e))
    /\ UNCHANGED <<banned, tip, pings, steps, count>>

-----------------------------------------------------------------------------
(***************************************************************************)
(* The handlers of PeerController, each a callback of the event loop.      *)
(***************************************************************************)
Event(n) == Head(posted[n])
Runs(n, kind) == posted[n] # <<>> /\ Event(n).kind = kind
Called(n) == [World EXCEPT !.posted[n] = Tail(@)]

HeadersReceive(n) ==
    /\ Runs(n, "HEADERS_RECEIVE")
    /\ LET v == Event(n)
           w == Called(n)
           known == v.peer \in DOMAIN memory[n]
           free == IF known THEN Discard(w, n, v.peer, FALSE) ELSE w
           entered == Enter(free, n, v.peer, v.s, v.e, v.head)
       IN  \/ /\ known /\ KeepsOld(w, n, v.peer, v.s, v.e)
              /\ Become(Disconnect(w, v.s, v.e))
           \/ /\ ~(known /\ KeepsOld(w, n, v.peer, v.s, v.e))
              /\ Become(IF v.e = "client" THEN entered
                        ELSE Send(entered, v.s, v.e, [kind |-> "headers", head |-> tip[n]]))
    /\ UNCHANGED <<banned, tip, pings, picks, steps, count>>

RemovePeer(n) ==
    /\ Runs(n, "REMOVE_PEER")
    /\ Become(Discard(Called(n), n, Event(n).peer, TRUE))
    /\ UNCHANGED <<banned, tip, pings, picks, steps, count>>

\* PeerService.update: a peer that has the same last block is forgiven.
UpdatePeer(n) ==
    /\ Runs(n, "PEER_HEADERS_UPDATE")
    /\ LET v == Event(n)
           w == Called(n)
           head == v.about.head
           same == head = tip[n]
       IN  \/ /\ v.peer \notin DOMAIN memory[n]
              /\ Become(w) /\ UNCHANGED banned
           \/ /\ v.peer \in DOMAIN memory[n] /\ ~(v.peer \in banned[n] /\ same)
              /\ Become([w EXCEPT !.memory[n][v.peer] = head]) /\ UNCHANGED banned
           \/ /\ v.peer \in DOMAIN memory[n] /\ v.peer \in banned[n] /\ same
              /\ Become([w EXCEPT !.memory[n][v.peer] = head, !.network[n][v.peer].flag = FALSE])
              /\ banned' = [banned EXCEPT ![n] = @ \ {v.peer}]
    /\ UNCHANGED <<tip, pings, picks, steps, count>>

\* The answer takes the connection the node has with the peer by now.
Answer(n, message) ==
    LET p == Event(n).peer
        w == Called(n)
    IN  Become(IF p \notin DOMAIN network[n] THEN w
               ELSE Send(w, network[n][p].s, network[n][p].e, message))

Pong(n) ==
    /\ Runs(n, "PING")
    /\ Answer(n, [kind |-> "PONG"])
    /\ UNCHANGED <<banned, tip, pings, picks, steps, count>>

SendPeers(n) ==
    /\ Runs(n, "REQUEST_PEERS")
    /\ Answer(n, [kind |-> "RESPONSE_PEERS", pick |-> Event(n).about.pick, peers |-> DOMAIN memory[n]])
    /\ UNCHANGED <<banned, tip, pings, picks, steps, count>>

\* broadcast
Connections(n) == {[s |-> network[n][p].s, e |-> network[n][p].e] : p \in DOMAIN network[n]}
ToAll(w, n, message) ==
    [w EXCEPT !.wire = [s \in DOMAIN @ |-> [e \in Ends |->
        IF [s |-> s, e |-> Other(e)] \in Connections(n) /\ Other(e) \in w.link[s].up
        THEN Append(@[s][e], message) ELSE @[s][e]]]]

\* A node that does not forge passes the transaction on, unless it has been
\* relayed often enough; what else becomes of it is no matter of the connections.
ReceiveTransaction(n) ==
    /\ Runs(n, "TRANSACTION_RECEIVE")
    /\ \/ Become(Called(n)) /\ UNCHANGED count
       \/ /\ network[n] # Nobody
          /\ Counted("sends")
          /\ Become(ToAll(Called(n), n, [kind |-> "TRANSACTION_RECEIVE"]))
    /\ UNCHANGED <<banned, tip, pings, picks, steps>>

\* PEER_CONNECT_RUN
ConnectTrusted(n) ==
    /\ Runs(n, "PEER_CONNECT_RUN")
    /\ LET w == Called(n)
           peers == Unknown(w, n, Trusted[n])
       IN  \E f \in Assignments(peers) : Become(ConnectPeers(w, n, peers, f))
    /\ UNCHANGED <<banned, tip, pings, picks, steps, count>>

(***************************************************************************)
(* pickNewPeers asks the peers and awaits all answers; then the node       *)
(* connects to some of the peers named, or starts to exchange its peers.   *)
(***************************************************************************)
Pick(n, what) ==
    /\ Len(picks) < plan.picks
    /\ picks' = Append(picks, [node |-> n, what |-> what, asked |-> Connections(n), got |-> {}])
    /\ Become(ToAll(Called(n), n, [kind |-> "REQUEST_PEERS", pick |-> Len(picks) + 1]))

DiscoverNewPeers(n) ==
    /\ Runs(n, "EMIT_REQUEST_PEERS")
    /\ \/ /\ Cardinality(DOMAIN network[n]) >= MaxConnectTo
          /\ Become(Called(n)) /\ UNCHANGED picks
       \/ /\ Cardinality(DOMAIN network[n]) < MaxConnectTo
          /\ Pick(n, "discover")
    /\ UNCHANGED <<banned, tip, pings, steps, count>>

RebootPeersConnections(n) ==
    /\ Runs(n, "EMIT_REBOOT_PEERS_CONNECTIONS")
    /\ Pick(n, "reboot")
    /\ UNCHANGED <<banned, tip, pings, steps, count>>

Picked(k, what) == picks[k].what = what /\ picks[k].asked = {}

\* slice(0, k) of m elements, which counts from the end when k is negative.
SliceLength(m, k) == IF k >= m THEN m ELSE IF k >= 0 THEN k ELSE IF m + k > 0 THEN m + k ELSE 0

Done(k) == picks' = [picks EXCEPT ![k].what = "done", ![k].got = {}]

ConnectDiscovered(k) ==
    /\ Picked(k, "discover")
    /\ LET n == picks[k].node
           new == Unknown(World, n, picks[k].got \ banned[n])
           limit == SliceLength(Cardinality(new), MaxConnectTo - Cardinality(DOMAIN network[n]))
       IN  \E peers \in SUBSET new :
              /\ Cardinality(peers) = limit
              /\ \E f \in Assignments(peers) : Become(ConnectPeers(World, n, peers, f))
    /\ Done(k)
    /\ UNCHANGED <<banned, tip, pings, steps, count>>

StartReconnect(k) ==
    /\ Picked(k, "reboot")
    /\ LET n == picks[k].node
           got == picks[k].got
           enough == Cardinality(got) > MinPeers
           sorted == IF enough THEN got ELSE Trusted[n]
       IN  /\ banned' = [banned EXCEPT ![n] = {}]
           /\ \E peers \in SUBSET sorted :
                 /\ Cardinality(peers) = SliceLength(Cardinality(sorted), MaxDiscover)
                 /\ steps' = [steps EXCEPT ![n] = [gone |-> DOMAIN memory[n] \ peers,
                                                   new |-> peers \ DOMAIN memory[n]]]
    /\ Done(k)
    /\ UNCHANGED <<memory, network, tip, posted, link, wire, pings, count>>

\* One round of the loop: a peer is removed, another one is connected.
StepReconnect(n) ==
    /\ steps[n] # NoSteps
    /\ \E gone \in IF steps[n].gone = {} THEN {{}} ELSE {{p} : p \in steps[n].gone},
          new \in IF steps[n].new = {} THEN {{}} ELSE {{p} : p \in steps[n].new} :
          LET w == IF gone = {} THEN World ELSE Discard(World, n, CHOOSE p \in gone : TRUE, FALSE)
              peers == Unknown(w, n, new)
          IN  /\ \E f \in Assignments(peers) : Become(ConnectPeers(w, n, peers, f))
              /\ steps' = [steps EXCEPT ![n] = [gone |-> @.gone \ gone, new |-> @.new \ new]]
    /\ UNCHANGED <<banned, tip, pings, picks, count>>

-----------------------------------------------------------------------------
(***************************************************************************)
(* What happens from outside: timers, the synchronization, the network.    *)
(***************************************************************************)
\* From the driver, from checkCommonBlock or a timer.
Emit(n) ==
    /\ \/ /\ Trusted[n] # {}
          /\ Counted("runs")
          /\ Become(Post(World, n, [kind |-> "PEER_CONNECT_RUN"]))
       \/ /\ Len(picks) < plan.picks
          /\ Counted("runs")
          /\ Become(Post(World, n, [kind |-> "EMIT_REQUEST_PEERS"]))
       \/ /\ Len(picks) < plan.picks /\ steps[n] = NoSteps
          /\ Counted("reboots")
          /\ Become(Post(World, n, [kind |-> "EMIT_REBOOT_PEERS_CONNECTIONS"]))
    /\ UNCHANGED <<banned, tip, pings, picks, steps>>

\* EMIT_PING: the interval is longer than the time a ping may take, and than
\* the callbacks that wait.
Ping(n) ==
    /\ network[n] # Nobody /\ posted[n] = <<>> /\ ~\E x \in pings : At(x.s, x.e) = n
    /\ count.pings < plan.pings
    /\ Become(ToAll(World, n, [kind |-> "PING"]))
    /\ pings' = pings \cup {[s |-> network[n][p].s, e |-> network[n][p].e, peer |-> p] :
                               p \in DOMAIN network[n]}
    /\ UNCHANGED <<banned, tip, picks, steps, count>>

\* A question asked at an end of a socket, or its answer, is still on its way.
Awaited(s, e, ask, answer) ==
    \/ \E i \in DOMAIN wire[s][Other(e)] : wire[s][Other(e)][i].kind = ask
    \/ \E i \in DOMAIN wire[s][e] : wire[s][e][i].kind = answer

\* The time a request may take is longer than the callbacks of the two nodes.
AtRest(s) == posted[link[s].client] = <<>> /\ posted[link[s].server] = <<>>

\* Mutant: the failure is only logged.
PingFailed_Logged(w, n, p) == w

PingFailed(w, n, p) == Post(w, n, [kind |-> "REMOVE_PEER", peer |-> p])

PingTimeout(x) ==
    /\ x \in pings /\ AtRest(x.s)
    /\ LET late == IF Awaited(x.s, x.e, "PING", "PONG") THEN 1 ELSE 0
       IN  /\ count.late + late <= plan.late
           /\ count' = [count EXCEPT !.pings = @ + 1, !.late = @ + late]
    /\ pings' = pings \ {x}
    /\ Become(PingFailed(World, At(x.s, x.e), x.peer))
    /\ UNCHANGED <<banned, tip, picks, steps>>

PickTimeout(k, c) ==
    /\ c \in picks[k].asked /\ AtRest(c.s)
    /\ LET late == IF Awaited(c.s, c.e, "REQUEST_PEERS", "RESPONSE_PEERS") THEN 1 ELSE 0
       IN  /\ count.late + late <= plan.late
           /\ count' = [count EXCEPT !.late = @ + late]
    /\ picks' = [picks EXCEPT ![k].asked = @ \ {c}]
    /\ UNCHANGED <<memory, network, banned, tip, posted, link, wire, pings, steps>>

\* PeerNetworkRepository.ban of the peer the last blocks came from.
Ban(n, p) ==
    /\ n # p
    /\ Counted("bans")
    /\ banned' = [banned EXCEPT ![n] = @ \cup {p}]
    /\ network' = IF p \in DOMAIN network[n] THEN [network EXCEPT ![n][p].flag = TRUE] ELSE network
    /\ UNCHANGED <<memory, tip, posted, link, wire, pings, picks, steps>>

\* updateHeaders: the last block changed.
UpdateHeaders(n, head) ==
    /\ head # tip[n]
    /\ Counted("tips")
    /\ tip' = [tip EXCEPT ![n] = head]
    /\ Become(ToAll(World, n, [kind |-> "PEER_HEADERS_UPDATE", head |-> head]))
    /\ UNCHANGED <<banned, pings, picks, steps>>

\* sendUnconfirmedTransaction; without any peer nothing is sent.  A new block
\* takes the same way to those peers that are not known to have it.
SendTransaction(n) ==
    /\ network[n] # Nobody
    /\ Counted("sends")
    /\ Become(ToAll(World, n, [kind |-> "TRANSACTION_RECEIVE"]))
    /\ UNCHANGED <<banned, tip, pings, picks, steps>>

\* The transport of a socket breaks: each end notices in its own time.
Lose(s) ==
    /\ link[s] # NoLink
    /\ {e \in Ends : wire[s][e] = <<>> \/ Last(wire[s][e]).kind \notin {"close", "lost"}} # {}
    /\ Counted("losses")
    /\ wire' = [wire EXCEPT ![s] = [e \in Ends |-> <<[kind |-> "lost"]>>]]
    /\ UNCHANGED <<memory, network, banned, tip, posted, link, pings, picks, steps>>

\* Both ends have forgotten the socket.
Used(s) ==
    \/ \E n \in Nodes : \/ \E p \in DOMAIN network[n] : network[n][p].s = s
                        \/ \E i \in DOMAIN posted[n] : posted[n][i].kind = "HEADERS_RECEIVE"
                                                       /\ posted[n][i].s = s
    \/ \E x \in pings : x.s = s
    \/ \E k \in DOMAIN picks, e \in Ends : [s |-> s, e |-> e] \in picks[k].asked
Forget(s) ==
    /\ link[s] # NoLink /\ link[s].up = {} /\ ~Used(s)
    /\ wire[s] = [e \in Ends |-> <<>>]
    /\ link' = [link EXCEPT ![s] = NoLink]
    /\ UNCHANGED <<memory, network, banned, tip, posted, wire, pings, picks, steps, count>>

-----------------------------------------------------------------------------
DeliverTo(s, e) ==
    \/ e = "server" /\ ServerConnect(s)
    \/ e = "client" /\ ClientConnect(s)
    \/ HeadersArrive(s, e) \/ CloseArrives(s, e) \/ BroadcastArrives(s, e)
    \/ PongArrives(s, e) \/ PeersArrive(s, e)

Callback(n) ==
    \/ HeadersReceive(n) \/ RemovePeer(n) \/ UpdatePeer(n) \/ Pong(n) \/ SendPeers(n)
    \/ ReceiveTransaction(n)
    \/ ConnectTrusted(n) \/ DiscoverNewPeers(n) \/ RebootPeersConnections(n)

Continue == \/ \E k \in DOMAIN picks : ConnectDiscovered(k) \/ StartReconnect(k)
            \/ \E n \in Nodes : StepReconnect(n)

Timeout == \/ \E x \in pings : PingTimeout(x)
           \/ \E k \in DOMAIN picks : \E c \in picks[k].asked : PickTimeout(k, c)

Next ==
    \/ \E s \in Sockets, e \in Ends : DeliverTo(s, e)
    \/ (\E n \in Nodes : Callback(n)) \/ Continue \/ Timeout
    \/ \E n \in Nodes : Emit(n) \/ Ping(n) \/ SendTransaction(n)
    \/ \E n, p \in Nodes : Ban(n, p)
    \/ \E n \in Nodes, head \in plan.heads : UpdateHeaders(n, head)
    \/ \E s \in Sockets : Lose(s) \/ Forget(s)

Spec == Init /\ [][Next]_vars

(***************************************************************************)
(* A socket delivers what is on its way or breaks; the event loop runs     *)
(* every callback; timers end requests that nothing answers; the interval  *)
(* of EMIT_PING ends.                                                      *)
(***************************************************************************)
FairSpec ==
    /\ Spec
    /\ \A s \in Sockets, e \in Ends : WF_vars(DeliverTo(s, e))
    /\ \A n \in Address : /\ WF_vars(n \in Nodes /\ Callback(n))
                          /\ WF_vars(n \in Nodes /\ StepReconnect(n))
                          /\ WF_vars(n \in Nodes /\ Ping(n))
    /\ \A k \in UNION {1..p.picks : p \in Plans} : WF_vars(k \in DOMAIN picks /\ (ConnectDiscovered(k) \/ StartReconnect(k)))
    /\ WF_vars(Timeout)
=============================================================================
