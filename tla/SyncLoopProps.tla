---------------------------- MODULE SyncLoopProps ----------------------------
(***************************************************************************)
(* What the synchronization promises.                                      *)
(***************************************************************************)
EXTENDS SyncLoop

\* What a node knows of a peer whose updates have all arrived, wherever the peer
\* has been while it was not connected: its last block, and up to there only
\* blocks of its chain.  Ids of blocks the peer has left stay only when it went
\* back through all the ids known, and then all of them are at its last block or
\* above (memoryPeer.ts update).  The peer keeps such ids of itself as well
\* (system.ts addBlockIdInPool) and sends them when it connects again.
KnowsTheirChain ==
    \A p \in online : wire[p] = <<>> =>
        /\ memory[p].last = theirs[p].last
        /\ \A h \in DOMAIN memory[p].ids :
             h <= theirs[p].last.height => OnChain(memory[p].ids[h], theirs[p].last)
        /\ (\E h \in DOMAIN memory[p].ids : h > theirs[p].last.height)
             => \A h \in DOMAIN memory[p].ids : h >= theirs[p].last.height

\* When the peers stand still, a synchronization ends, whatever the peers banned
\* and the requests that fail, and where a majority has one last block the node
\* has it too, or has gone on from it or kept a longer chain of its own
\* (startSyncBlocks: it deletes down to a block a majority has, and takes theirs).
Majority(b) == 2 * Cardinality({p \in Peers : theirs[p].last = b}) > Cardinality(Peers)
Still == count.plan.moves + count.plan.leaves = 0
FollowsMajority ==
    <>[](Still => pc = "idle" /\ \A b \in PeerStarts : Majority(b) => tip = b \/ tip.height > b.height)
=============================================================================
