------------------------------ MODULE SyncLoop ------------------------------
(***************************************************************************)
(* The synchronization of a node with its peers: startSyncBlocks of        *)
(* src/core/controller/sync.ts with src/core/service/sync.ts, the headers  *)
(* a node keeps of itself and of its peers (src/core/repository/system.ts, *)
(* src/shared/model/Peer/memoryPeer.ts) and the ban list.                  *)
(*                                                                         *)
(* Chains are the forks of one tree: a block is a fork and a height, and   *)
(* a chain is known by its last block.  What saving and deleting a block   *)
(* do to the node is the matter of module Node.                            *)
(***************************************************************************)
EXTENDS Integers, Sequences, FiniteSets, Functions

CONSTANTS
    Peers,              \* the other nodes
    Trunk,              \* the height of the last block all forks share
    Forks,              \* [fork name -> height of its longest chain]
    Window,             \* MAX_PEER_BLOCKS_IDS and MAX_BLOCK_IN_MEMORY
    Limit,              \* REQUEST_BLOCK_LIMIT
    MinConsensus,       \* MIN_CONSENSUS, in percent
    Starts,             \* the last blocks the node may start from
    PeerStarts,         \* the last blocks the peers may start from
    Plans               \* bounds: records of how often the node is told to
                        \* synchronize, a peer's last block changes, a peer goes
                        \* offline, and a request or a statement fails

Block(f, h) == IF h <= Trunk THEN [fork |-> "trunk", height |-> h] ELSE [fork |-> f, height |-> h]
Parent(b) == Block(b.fork, b.height - 1)
OnChain(b, last) == b.height <= last.height /\ Block(last.fork, b.height) = b

\* The peers start from blocks of the forks, and some id is kept.
ASSUME SyncAssumption ==
    /\ Trunk \in Nat /\ Window \in Nat \ {0}
    /\ \A f \in DOMAIN Forks : Forks[f] \in Nat
    /\ \A b \in PeerStarts : \E f \in DOMAIN Forks : \E h \in 1..Forks[f] : b = Block(f, h)

VARIABLES
    pc,                 \* where startSyncBlocks is
    tip,                \* BlockRepository.getLastBlock
    headers,            \* the last block SystemRepository.headers tell
    request,            \* the peer asked and the last block it is asked about
    received,           \* blocks received and not yet saved
    lastPeerRequested,
    needDelay,
    memory,             \* PeerMemoryRepository: last block and block ids of a peer
    banned,             \* the ban list
    online,             \* the connected peers
    theirs,             \* the headers each peer keeps of itself: last block and block ids
    wire,               \* the header updates of a peer on their way
    emitted,            \* events emitted for the connections
    ended,              \* why the last synchronization ended
    count               \* a plan, and what has happened of it

vars == <<pc, tip, headers, request, received, lastPeerRequested, needDelay, memory, banned,
          online, theirs, wire, emitted, ended, count>>
nodeVars == <<pc, tip, headers, request, received, lastPeerRequested, needDelay, ended>>
peerVars == <<memory, banned, online, theirs, wire, emitted>>

Nobody == "nobody"
NoRequest == [peer |-> Nobody, last |-> Block("trunk", 1)]

-----------------------------------------------------------------------------
(***************************************************************************)
(* Headers.                                                                *)
(***************************************************************************)
\* The ids of a node that has loaded its chain.
Pool(last) ==
    [h \in {k \in 1..last.height : k > last.height - Window} |-> Block(last.fork, h)]
Full(last) == [last |-> last, ids |-> Pool(last)]

\* Mutant: the ids of a fork that was left stay.
Update_KeepsFork(known, last) ==
    LET all == [k \in DOMAIN known.ids \cup {last.height} |-> IF k = last.height THEN last ELSE known.ids[k]]
        lowest == CHOOSE k \in DOMAIN all : \A j \in DOMAIN all : k <= j
        left == IF Cardinality(DOMAIN all) > Window THEN DOMAIN all \ {lowest} ELSE DOMAIN all
    IN  [last |-> last, ids |-> [k \in left |-> all[k]]]

\* MemoryPeer.update, and addBlockIdInPool for the ids a node keeps of itself
Update(known, last) ==
    LET h == last.height
        kept == IF h \in DOMAIN known.ids THEN {k \in DOMAIN known.ids : k < h}
                ELSE DOMAIN known.ids
        all == [k \in kept \cup {h} |-> IF k = h THEN last ELSE known.ids[k]]
        lowest == CHOOSE k \in DOMAIN all : \A j \in DOMAIN all : k <= j
        left == IF Cardinality(DOMAIN all) > Window THEN DOMAIN all \ {lowest} ELSE DOMAIN all
    IN  [last |-> last, ids |-> [k \in left |-> all[k]]]

Unbanned == online \ banned
Percent(common) ==
    IF Unbanned = {} THEN 0 ELSE ((Cardinality(common) + 1) * 100) \div (Cardinality(Unbanned) + 1)

\* getMyConsensus and checkBlockConsensus
InConsensus(block) == Percent({p \in Unbanned : memory[p].last = block}) >= MinConsensus
Knows(p, b) == b.height \in DOMAIN memory[p].ids /\ memory[p].ids[b.height] = b
CheckBlockConsensus(b) == Percent({p \in Unbanned : Knows(p, b)}) >= MinConsensus

MinHeight(p) == CHOOSE k \in DOMAIN memory[p].ids : \A j \in DOMAIN memory[p].ids : k <= j

\* Mutant: a peer with another block at the same height is no reason to look.
HigherPeers_Strict(b) == {p \in Unbanned : memory[p].last.height > b.height}

\* getHigherPeersByFilter
HigherPeers(b) == {p \in Unbanned : memory[p].last.height >= b.height /\ memory[p].last # b}

Init ==
    /\ pc = "idle" /\ ended = "" /\ received = <<>> /\ request = NoRequest
    /\ lastPeerRequested = Nobody /\ needDelay = FALSE
    /\ tip \in Starts /\ headers = tip
    /\ theirs \in [Peers -> {Full(b) : b \in PeerStarts}]
    /\ memory = theirs
    /\ online = Peers /\ banned = {} /\ emitted = {}
    /\ wire = [p \in Peers |-> <<>>]
    /\ count \in {[plan |-> p, syncs |-> 0, moves |-> 0, leaves |-> 0, failures |-> 0] : p \in Plans}

Counted(what) == count[what] < count.plan[what] /\ count' = [count EXCEPT ![what] = @ + 1]

-----------------------------------------------------------------------------
(***************************************************************************)
(* startSyncBlocks.  At "loop" and "check" it runs on without a turn of    *)
(* the event loop, so that nothing else happens there.                     *)
(***************************************************************************)
Waiting == pc \notin {"loop", "check"}

Start ==
    /\ pc = "idle" /\ Counted("syncs")
    /\ pc' = "start" /\ ended' = "" /\ lastPeerRequested' = Nobody /\ needDelay' = FALSE
    /\ UNCHANGED <<tip, headers, request, received, peerVars>>

End(why) == pc' = "idle" /\ ended' = why

\* The first look at the consensus, after the wait for the last synchronization.
Begin ==
    /\ pc = "start"
    /\ IF InConsensus(headers) THEN End("consensus") ELSE pc' = "loop" /\ UNCHANGED ended
    /\ UNCHANGED <<tip, headers, request, received, lastPeerRequested, needDelay, peerVars, count>>

Loop ==
    /\ pc = "loop"
    /\ IF InConsensus(headers) THEN End("consensus") /\ UNCHANGED needDelay
       ELSE /\ pc' = IF needDelay THEN "delay" ELSE "check"
            /\ needDelay' = TRUE /\ UNCHANGED ended
    /\ UNCHANGED <<tip, headers, request, received, lastPeerRequested, peerVars, count>>

Delay ==
    /\ pc = "delay" /\ headers = tip
    /\ pc' = "check"
    /\ UNCHANGED <<tip, headers, request, received, lastPeerRequested, needDelay, ended, peerVars,
                   count>>

\* checkCommonBlock, without a peer to ask.
NobodyHigher ==
    /\ pc = "check" /\ HigherPeers(tip) = {}
    /\ \/ /\ online = {}
          /\ emitted' = emitted \cup {"PEER_CONNECT_RUN"} /\ pc' = "loop" /\ UNCHANGED ended
       \/ /\ online # {} /\ Unbanned = {}
          /\ emitted' = emitted \cup {"EMIT_REBOOT_PEERS_CONNECTIONS"} /\ pc' = "loop"
          /\ UNCHANGED ended
       \/ /\ Unbanned # {}
          /\ End("no worthy peers") /\ UNCHANGED emitted
    /\ UNCHANGED <<tip, headers, request, received, lastPeerRequested, needDelay, memory, banned,
                   online, theirs, wire, count>>

\* The block does not exist: what the last peer sent was not the chain of the
\* others, and the last block goes.
Reject ==
    /\ banned' = IF lastPeerRequested = Nobody THEN banned ELSE banned \cup {lastPeerRequested}
    /\ lastPeerRequested' = Nobody
    /\ pc' = "deleting"

Ask(p, what) == request' = [peer |-> p, last |-> tip] /\ pc' = what

\* checkCommonBlock with one of the higher peers.
CheckCommonBlock(p) ==
    /\ pc = "check" /\ p \in HigherPeers(tip)
    /\ LET agreed == CheckBlockConsensus(tip) \/ tip.height = 1
       IN  \/ /\ agreed /\ Ask(p, "blocks") /\ UNCHANGED <<banned, lastPeerRequested>>
           \/ /\ ~agreed /\ MinHeight(p) > tip.height
              /\ Ask(p, "common") /\ UNCHANGED <<banned, lastPeerRequested>>
           \/ /\ ~agreed /\ MinHeight(p) <= tip.height
              /\ Reject /\ UNCHANGED request
    /\ UNCHANGED <<tip, headers, received, needDelay, ended, memory, online, theirs, wire, emitted,
                   count>>

CommonAnswered ==
    /\ pc = "common" /\ request.peer \in online /\ headers = tip
    /\ \/ /\ OnChain(request.last, theirs[request.peer].last)
          /\ pc' = "blocks" /\ UNCHANGED <<banned, lastPeerRequested>>
       \/ /\ ~OnChain(request.last, theirs[request.peer].last)
          /\ Reject
    /\ UNCHANGED <<tip, headers, request, received, needDelay, ended, memory, online, theirs, wire,
                   emitted, count>>

\* The request times out.
RequestFails ==
    /\ pc \in {"common", "blocks"} /\ headers = tip
    /\ \/ request.peer \notin online /\ UNCHANGED count
       \/ request.peer \in online /\ Counted("failures")
    /\ pc' = "loop"
    /\ UNCHANGED <<tip, headers, request, received, lastPeerRequested, needDelay, ended, peerVars>>

\* sendBlocks of the peer.
BlocksAfter(b, last) ==
    LET to == IF last.height < b.height + Limit THEN last.height ELSE b.height + Limit
    IN  [i \in 1..(to - b.height) |-> Block(last.fork, b.height + i)]

Accepted == pc' = "loop" /\ lastPeerRequested' = request.peer /\ needDelay' = FALSE

BlocksAnswered ==
    /\ pc = "blocks" /\ request.peer \in online /\ headers = tip
    /\ received' = BlocksAfter(request.last, theirs[request.peer].last)
    /\ IF received' = <<>> THEN Accepted
       ELSE pc' = "saving" /\ UNCHANGED <<lastPeerRequested, needDelay>>
    /\ UNCHANGED <<tip, headers, request, ended, peerVars, count>>

\* saveRequestedBlocks: a block that does not follow is an error, and the rest
\* is left.
SaveBlock ==
    /\ pc = "saving" /\ headers = tip
    /\ Parent(Head(received)) = tip
    /\ tip' = Head(received) /\ received' = Tail(received)
    /\ IF received' = <<>> THEN Accepted
       ELSE UNCHANGED <<pc, lastPeerRequested, needDelay>>
    /\ UNCHANGED <<headers, request, ended, peerVars, count>>

SaveFails ==
    /\ pc = "saving" /\ headers = tip
    /\ \/ Parent(Head(received)) # tip /\ UNCHANGED count
       \/ Parent(Head(received)) = tip /\ Counted("failures")
    /\ pc' = "loop" /\ received' = <<>>
    /\ UNCHANGED <<tip, headers, request, lastPeerRequested, needDelay, ended, peerVars>>

\* rollback
Deleted ==
    /\ pc = "deleting" /\ headers = tip
    /\ \/ tip' = Parent(tip) /\ UNCHANGED count
       \/ tip' = tip /\ Counted("failures")
    /\ pc' = "loop" /\ needDelay' = FALSE
    /\ UNCHANGED <<headers, request, received, lastPeerRequested, ended, peerVars>>

\* LAST_BLOCKS_UPDATE: the callback runs before anything that is received.
UpdateHeaders ==
    /\ Waiting /\ headers # tip
    /\ headers' = tip
    /\ UNCHANGED <<pc, tip, request, received, lastPeerRequested, needDelay, ended, peerVars, count>>

-----------------------------------------------------------------------------
(***************************************************************************)
(* The peers and the connections.                                          *)
(***************************************************************************)
Outside == Waiting /\ headers = tip

\* A peer saves or deletes a block and tells it.
PeerMoves(p, to) ==
    /\ Outside
    /\ Counted("moves")
    /\ to.height >= 1
    /\ to \in UNION {{Block(f, h) : h \in 1..Forks[f]} : f \in DOMAIN Forks}
    /\ theirs[p].last = Parent(to) \/ to = Parent(theirs[p].last)
    /\ theirs' = [theirs EXCEPT ![p] = Update(@, to)]
    /\ wire' = IF p \in online THEN [wire EXCEPT ![p] = Append(@, to)] ELSE wire
    /\ UNCHANGED <<nodeVars, memory, banned, online, emitted>>

\* PEER_HEADERS_UPDATE
UpdatePeer(p) ==
    /\ Outside /\ wire[p] # <<>>
    /\ wire' = [wire EXCEPT ![p] = Tail(@)]
    /\ IF p \in online
       THEN /\ memory' = [memory EXCEPT ![p] = Update(@, Head(wire[p]))]
            /\ banned' = IF Head(wire[p]) = headers THEN banned \ {p} ELSE banned
       ELSE UNCHANGED <<memory, banned>>
    /\ UNCHANGED <<nodeVars, online, theirs, emitted, count>>

PeerLeaves(p) ==
    /\ Outside /\ p \in online
    /\ Counted("leaves")
    /\ online' = online \ {p} /\ wire' = [wire EXCEPT ![p] = <<>>]
    /\ UNCHANGED <<nodeVars, memory, banned, theirs, emitted>>

\* HEADERS_RECEIVE, after PEER_CONNECT_RUN or by the peer's own doing, with the
\* ids the peer keeps of itself (getFullHeaders); it may have been started again.
PeerJoins(p) ==
    /\ Outside /\ p \notin online
    /\ online' = online \cup {p}
    /\ \/ UNCHANGED theirs
       \/ theirs' = [theirs EXCEPT ![p] = Full(@.last)]
    /\ memory' = [memory EXCEPT ![p] = theirs'[p]]
    /\ emitted' = emitted \ {"PEER_CONNECT_RUN"}
    /\ UNCHANGED <<nodeVars, banned, wire, count>>

\* rebootPeersConnections; the connections themselves are in module Peers.
ClearBanList ==
    /\ Outside /\ "EMIT_REBOOT_PEERS_CONNECTIONS" \in emitted
    /\ banned' = {} /\ emitted' = emitted \ {"EMIT_REBOOT_PEERS_CONNECTIONS"}
    /\ UNCHANGED <<nodeVars, memory, online, theirs, wire, count>>

-----------------------------------------------------------------------------
Sync ==
    \/ Begin \/ Loop \/ Delay \/ NobodyHigher \/ (\E p \in Peers : CheckCommonBlock(p))
    \/ CommonAnswered \/ RequestFails \/ BlocksAnswered \/ SaveBlock \/ SaveFails \/ Deleted
    \/ UpdateHeaders

Next ==
    \/ Start \/ Sync \/ ClearBanList
    \/ \E p \in Peers : UpdatePeer(p) \/ PeerLeaves(p) \/ PeerJoins(p)
    \/ \E p \in Peers : \E to \in {Parent(theirs[p].last)} \cup
          {Block(f, theirs[p].last.height + 1) : f \in DOMAIN Forks} : PeerMoves(p, to)

Spec == Init /\ [][Next]_vars

\* Requests are answered or time out, statements end, and the peer is picked
\* at random: a peer that can be picked again and again is picked.
FairSpec ==
    /\ Spec
    /\ WF_vars(Sync) /\ WF_vars(ClearBanList)
    /\ \A p \in Peers : WF_vars(UpdatePeer(p)) /\ WF_vars(PeerJoins(p)) /\ SF_vars(CheckCommonBlock(p))
    /\ WF_vars(Start)
=============================================================================
