---------------------------- MODULE StorageProps ----------------------------
(***************************************************************************)
(* What memory and the answers to peers have to do with the chain.         *)
(***************************************************************************)
EXTENDS Storage

\* The chain as the code sees it: a statement counts when its task goes on, and
\* a starting node knows what it has loaded.
Known ==
    CASE ~running -> SubSeq(table, 1, loaded)
      [] running /\ task.op = "save" /\ task.done -> Front(table)
      [] running /\ task.op = "delete" /\ task.done -> Append(table, task.block)
      [] OTHER -> table

\* The lowest block memory can have: what was evicted does not come back when
\* blocks are deleted.
Low == IF peak > MemoryLimit THEN peak - MemoryLimit + 1 ELSE 1

\* Memory is the end of the chain, from Low on, in all three indexes, whatever
\* was saved, deleted, evicted, loaded or failed; with fewer than MemoryLimit
\* blocks deleted below the peak the last block is there (push, cleanup, popLast).
WindowIsTail ==
    /\ memory = SubSeq(Known, Low, Len(Known))
    /\ byHeight = [h \in Low..Len(Known) |-> Known[h]]
    /\ byId = {b.id : b \in ToSet(memory)}

\* Ids are known of the whole chain, evicted blocks included, so that no block
\* and no transaction is accepted a second time; transactions themselves are
\* kept for the blocks in memory (BlockStorageService.has, TransactionStorage.has).
IdsOfChain ==
    /\ headers = [i \in {b.id : b \in ToSet(Known)} |->
                    (CHOOSE b \in ToSet(Known) : b.id = i).height]
    /\ confirmed = UNION {b.trs : b \in ToSet(Known)}
    /\ memoryTrs = UNION {b.trs : b \in ToSet(memory)}

\* A peer gets linked blocks from the height it asked for, with all of their
\* transactions, and is not told that there are none when there are, wherever
\* they came from and whatever was saved meanwhile; only a block that is deleted
\* between the two statements spoils an answer (sendBlocks, getMany).
AnswerIsChain ==
    reply # Idle /\ ~reply.torn =>
        LET n == Len(reply.blocks) IN
        /\ n = RequestLimit \/ reply.offset + n >= reply.top
        /\ \A i \in 1..n :
             /\ reply.blocks[i].block.height = reply.offset + i
             /\ reply.blocks[i].trs = reply.blocks[i].block.trs
             /\ i > 1 => reply.blocks[i].block.previous = reply.blocks[i - 1].block.id
=============================================================================
