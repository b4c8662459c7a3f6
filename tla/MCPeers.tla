------------------------------ MODULE MCPeers ------------------------------
(***************************************************************************)
(* Instances of Peers.                                                     *)
(***************************************************************************)
EXTENDS PeersProps

\* Two nodes that trust each other, and one that trusts the other.
Mutual == ("a" :> {"b"}) @@ ("b" :> {"a"})
OneWay == ("a" :> {"b"}) @@ ("b" :> {})
\* Two nodes that trust a third one.
Star == OneWay @@ ("c" :> {"b"})

Nothing == [heads |-> {1}, sockets |-> 2, runs |-> 1, picks |-> 0, reboots |-> 0, bans |-> 0,
            tips |-> 0, sends |-> 0, losses |-> 0, late |-> 0, pings |-> 0]
Plan(trusted, bounds) == [trusted |-> trusted] @@ bounds @@ Nothing

\* Mutual connections, undisturbed or with a loss, a late answer or a failed ping
\* (a node that has lost its last peer asks for others, so that it needs a pick to
\* come to rest); discovery and reboot among three nodes; a ban around a reboot;
\* and a banned peer that sends a transaction and comes back.
SafetyPlans == {
    Plan(Mutual, [runs |-> 2, picks |-> 2, losses |-> 1]),
    Plan(Mutual, [runs |-> 3, picks |-> 1, losses |-> 1]),
    Plan(Mutual, [runs |-> 2, picks |-> 1, late |-> 1, pings |-> 1]),
    Plan(Star, [sockets |-> 3, runs |-> 3, picks |-> 1]),
    Plan(Star, [sockets |-> 4, runs |-> 2, picks |-> 1, reboots |-> 1]),
    Plan(OneWay, [heads |-> {1, 2}, runs |-> 2, picks |-> 1, reboots |-> 1, bans |-> 1,
                  tips |-> 1, late |-> 1]),
    Plan(OneWay, [runs |-> 2, bans |-> 1, sends |-> 2, losses |-> 1])}
PingPlans == {Plan(OneWay, [runs |-> 2, losses |-> 1, pings |-> 5])}
=============================================================================
