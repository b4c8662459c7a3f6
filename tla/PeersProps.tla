----------------------------- MODULE PeersProps -----------------------------
(***************************************************************************)
(* What the connections promise.                                           *)
(***************************************************************************)
EXTENDS Peers

\* Nothing is on its way and nothing waits for an answer.
Quiet ==
    /\ \A s \in Sockets, e \in Ends : wire[s][e] = <<>>
    /\ \A n \in Nodes : posted[n] = <<>> /\ steps[n] = NoSteps
    /\ pings = {} /\ \A k \in DOMAIN picks : picks[k].what = "done"

\* The entry a node has for a peer, and whether its socket is connected.
Entry(n, p) == network[n][p]
Live(n, p) == p \in DOMAIN network[n] /\ Entry(n, p).e \in link[Entry(n, p).s].up

-----------------------------------------------------------------------------

\* The two repositories of a node hold the same peers, and every listener a
\* node has belongs to the connection it knows the peer by
\* (peer.ts add, resolveConnectionConflict, remove).
ListsAgree ==
    \A n \in Nodes :
        /\ DOMAIN memory[n] = DOMAIN network[n]
        /\ \A s \in Sockets, e \in Ends :
              At(s, e) = n /\ e \in link[s].ears =>
                  LET p == At(s, Other(e)) IN
                  p \in DOMAIN network[n] /\ Entry(n, p).s = s /\ Entry(n, p).e = e

\* When two nodes have connected to each other at the same time, and either has
\* the other behind a connection that is alive, both have the same one of the two
\* sockets (resolveConnectionConflict).  As long as nothing was removed or lost, a
\* dead entry comes from one thing only: a client socket that the other node closed
\* before the callback of its HEADERS ran.  Such a node even gives up the other
\* socket for it.
Undisturbed == count.losses + count.late + count.pings + count.reboots = 0
SameConnection ==
    Quiet => \A n \in Nodes : \A p \in DOMAIN network[n] \ {n} :
        Live(n, p) \/ (Undisturbed /\ Entry(n, p).e = "server") =>
            /\ Live(n, p) /\ Live(p, n)
            /\ Entry(n, p).s = Entry(p, n).s /\ Entry(n, p).e # Entry(p, n).e

\* Nothing is left of the others: a socket that stays open is one by which
\* both of its nodes know each other.
NoLeak ==
    Quiet => \A s \in Sockets, e \in Ends :
        e \in link[s].up =>
            At(s, Other(e)) \in DOMAIN network[At(s, e)] /\ Entry(At(s, e), At(s, Other(e))).s = s

\* A node that is told its own address connects to itself; it finds out, because
\* the two ends of that socket have one id, and closes it.  An entry may stay, when
\* something else removed the one that the second end is compared with, but it is
\* a dead one (peer.ts add, resolveConnectionConflict).
NotItself ==
    Quiet => \A n \in Nodes : n \in DOMAIN network[n] => ~Live(n, n)

\* No connection of a banned peer lets a transaction or a block through, those
\* that it has made after the ban, or that replaced another one, included: every
\* listener there is belongs to an entry whose flag follows the list
\* (networkPeer.ts _onBroadcast, peerNetwork.ts ban, add, unban).
BannedSilenced ==
    \A n \in Nodes : \A s \in Sockets, e \in Ends :
        At(s, e) = n /\ At(s, Other(e)) \in banned[n] =>
            ~Heard(s, e, "TRANSACTION_RECEIVE")

\* Whatever was lost, a node does not keep a peer it cannot reach: the pings
\* find every dead connection and remove the peer (peer.ts ping).
PingsClean == []<>(\A n \in Nodes : \A p \in DOMAIN network[n] : Live(n, p))
=============================================================================
