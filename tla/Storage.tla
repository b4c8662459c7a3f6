------------------------------ MODULE Storage ------------------------------
(***************************************************************************)
(* Where a node keeps its blocks: the tables of the database hold all of   *)
(* them, memory the last ones only, under three indexes, next to the ids   *)
(* of all blocks and of all confirmed transactions.  The main task saves   *)
(* and deletes blocks with awaited statements while peers ask for blocks,  *)
(* which come from memory or, when that does not have the first one, from  *)
(* the database with two statements.                                       *)
(***************************************************************************)
EXTENDS Naturals, Sequences, FiniteSets, SequencesExt

CONSTANTS Transactions, \* their ids
          MemoryLimit,  \* MEMORY_BLOCKS_LIMIT
          RequestLimit, \* REQUEST_BLOCK_LIMIT
          MaxIds,       \* bound: how many blocks are ever made
          MaxFaults     \* bound: crashes and failing statements

ASSUME LimitsAssumption == MemoryLimit \in Nat \ {0} /\ RequestLimit \in Nat \ {0}

VARIABLES
    table,       \* block and trs tables: the blocks by height, with transactions
    memory,      \* memoryBlocks
    byHeight,    \* memoryBlocksByHeight
    byId,        \* the keys of memoryBlocksById
    headers,     \* BlockHeadersStorage: id to height
    memoryTrs,   \* the keys of TransactionRepository
    confirmed,   \* ConfirmedTransactionRepository
    task,        \* the statement the main task awaits: [op, done, block]
    running,     \* whether blockWarmUp is over
    loaded,      \* how many blocks it has read so far
    reader,      \* what sendBlocks awaits
    reply,       \* what sendBlocks answered last
    ids, faults, \* bounded counters
    peak         \* history: the highest block since the node was started

mem == <<memory, byHeight, byId, headers, memoryTrs, confirmed>>
read == <<reader, reply>>
vars == <<table, mem, task, running, loaded, read, ids, faults, peak>>

Genesis == [id |-> 0, height |-> 1, previous |-> 0, trs |-> {}]
NoTask == [op |-> "none", done |-> FALSE, block |-> Genesis]
Idle == [op |-> "none"]

Init ==
    /\ table = <<Genesis>> /\ memory = <<Genesis>>
    /\ byHeight = [h \in {1} |-> Genesis] /\ byId = {0} /\ headers = [i \in {0} |-> 1]
    /\ memoryTrs = {} /\ confirmed = {}
    /\ task = NoTask /\ running = TRUE /\ loaded = 0 /\ reader = Idle /\ reply = Idle
    /\ ids = 0 /\ faults = 0 /\ peak = 1

Fault == faults < MaxFaults /\ faults' = faults + 1

-----------------------------------------------------------------------------
(* Memory.                                                                 *)

\* Map.delete, DELETE: f without the entries S.
Without(f, S) == [x \in DOMAIN f \ S |-> f[x]]

\* What cleanup takes out of memory after block b was added.
\* Mutant: size >= MEMORY_BLOCKS_LIMIT.
Evicted_TooEarly(b) ==
    SubSeq(Append(memory, b), 1, IF Len(memory) + 2 > MemoryLimit
                                 THEN Len(memory) + 2 - MemoryLimit ELSE 0)
Evicted(b) ==
    LET blocks == Append(memory, b) IN
    IF Len(blocks) > MemoryLimit THEN SubSeq(blocks, 1, Len(blocks) - MemoryLimit) ELSE <<>>

\* cleanup deletes transactions from TransactionRepository only.
\* Mutant: from TransactionStorageService.
ConfirmedAfter_Cleaned(b) ==
    (confirmed \cup b.trs) \ UNION {c.trs : c \in ToSet(Evicted(b))}
ConfirmedAfter(b) == confirmed \cup b.trs

\* BlockStorageService.push and TransactionService.apply of its transactions,
\* which follows at once or, while loading, precedes it at once.
Push(b) ==
    LET gone == ToSet(Evicted(b)) IN
    /\ memory' = SubSeq(Append(memory, b), Len(Evicted(b)) + 1, Len(memory) + 1)
    /\ byHeight' = [h \in (DOMAIN byHeight \cup {b.height}) \ {c.height : c \in gone} |->
                        IF h = b.height THEN b ELSE byHeight[h]]
    /\ byId' = (byId \cup {b.id}) \ {c.id : c \in gone}
    /\ headers' = [i \in DOMAIN headers \cup {b.id} |-> IF i = b.id THEN b.height ELSE headers[i]]
    /\ memoryTrs' = (memoryTrs \cup b.trs) \ UNION {c.trs : c \in gone}
    /\ confirmed' = ConfirmedAfter(b)
    /\ peak' = IF b.height > peak THEN b.height ELSE peak

\* popLast and TransactionService.undo.
Pop ==
    LET b == Last(memory) IN
    /\ memory' = Front(memory)
    /\ byHeight' = Without(byHeight, {b.height})
    /\ byId' = byId \ {b.id}
    /\ headers' = Without(headers, {b.id})
    /\ memoryTrs' = memoryTrs \ b.trs
    /\ confirmed' = confirmed \ b.trs
    /\ UNCHANGED peak

\* BlockRepository.getMany: up to the first height that is not in memory.
\* Mutant: continue instead of return.
GetMany_Skips(limit, offset) ==
    LET heights == SetToSortSeq((offset + 1 .. offset + limit) \cap DOMAIN byHeight, <)
    IN  [i \in DOMAIN heights |-> byHeight[heights[i]]]
GetMany(limit, offset) ==
    LET missing == {n \in 0..limit : offset + 1 + n \notin DOMAIN byHeight} \cup {limit}
        n == CHOOSE k \in missing : \A l \in missing : k <= l
    IN  [i \in 1..n |-> byHeight[offset + i]]

-----------------------------------------------------------------------------
(* The main task.  Without a last block in memory it ends with a TypeError *)
(* and does not change anything.                                           *)

\* applyBlock up to the statement of batchSave.
Save(trs) ==
    /\ running /\ task = NoTask /\ memory # <<>> /\ ids < MaxIds
    /\ trs \cap confirmed = {}
    /\ ids' = ids + 1
    /\ task' = [op |-> "save", done |-> FALSE,
                block |-> [id |-> ids + 1, height |-> Last(memory).height + 1,
                           previous |-> Last(memory).id, trs |-> trs]]
    /\ UNCHANGED <<table, mem, running, loaded, read, faults, peak>>

\* deleteLastBlock up to the statement of deleteById.
Delete ==
    /\ running /\ task = NoTask /\ memory # <<>> /\ Last(memory).height > 1
    /\ task' = [op |-> "delete", done |-> FALSE, block |-> Last(memory)]
    /\ UNCHANGED <<table, mem, running, loaded, read, ids, faults, peak>>

\* The database executes the statement; a deleted block takes its transactions
\* along, and a read in progress that has seen it is torn.
Commit ==
    /\ task.op # "none" /\ ~task.done
    /\ task' = [task EXCEPT !.done = TRUE]
    /\ table' = IF task.op = "save"
                THEN Append(table, task.block)
                ELSE Without(table, {h \in DOMAIN table : table[h].id = task.block.id})
    /\ reader' = IF task.op = "delete" /\ reader # Idle
                 THEN [reader EXCEPT !.torn = TRUE] ELSE reader
    /\ UNCHANGED <<mem, running, loaded, reply, ids, faults, peak>>

\* A failed statement changes nothing.
CommitFails ==
    /\ task.op # "none" /\ ~task.done /\ Fault
    /\ task' = NoTask
    /\ UNCHANGED <<table, mem, running, loaded, read, ids, peak>>

Continue ==
    /\ task.op # "none" /\ task.done
    /\ task' = NoTask
    /\ IF task.op = "save" THEN Push(task.block) ELSE Pop
    /\ UNCHANGED <<table, running, loaded, read, ids, faults>>

-----------------------------------------------------------------------------
(* Crash and start.                                                        *)

Crash ==
    /\ Fault
    /\ memory' = <<>> /\ byHeight' = <<>> /\ byId' = {} /\ headers' = <<>>
    /\ memoryTrs' = {} /\ confirmed' = {} /\ peak' = 0
    /\ task' = NoTask /\ running' = FALSE /\ loaded' = 0 /\ reader' = Idle /\ reply' = Idle
    /\ UNCHANGED <<table, ids>>

\* One block in the loop of blockWarmUp.
Load ==
    /\ ~running /\ loaded < Len(table)
    /\ Push(table[loaded + 1])
    /\ loaded' = loaded + 1
    /\ UNCHANGED <<table, running, task, read, ids, faults>>

Loaded ==
    /\ ~running /\ loaded = Len(table)
    /\ running' = TRUE
    /\ UNCHANGED <<table, mem, loaded, task, read, ids, faults, peak>>

-----------------------------------------------------------------------------
(* Peers that ask for blocks.                                              *)

Reply(blocks) ==
    reply' = [op |-> "reply", offset |-> reader.offset, blocks |-> blocks,
              top |-> reader.top, torn |-> reader.torn]

Whole(b) == [block |-> b, trs |-> b.trs]

\* sendBlocks with BlockStorageService.getMany: memory answers when it has the
\* first of the blocks.  A block that is deleted already, but not in memory,
\* makes what is read torn as well.
SendBlocks(offset) ==
    /\ running /\ reader = Idle
    /\ LET blocks == GetMany(RequestLimit, offset)
           top == IF memory = <<>> THEN 0 ELSE Last(memory).height
       IN  IF blocks # <<>>
           THEN /\ reply' = [op |-> "reply", offset |-> offset, top |-> top, torn |-> FALSE,
                             blocks |-> [i \in DOMAIN blocks |-> Whole(blocks[i])]]
                /\ UNCHANGED reader
           ELSE /\ reader' = [op |-> "select", offset |-> offset, top |-> top,
                              torn |-> task.op = "delete" /\ task.done, blocks |-> <<>>]
                /\ UNCHANGED reply
    /\ UNCHANGED <<table, mem, task, running, loaded, ids, faults, peak>>

\* The rows with the heights above offset, up to offset + limit.
Rows(limit, offset) ==
    SubSeq(table, offset + 1,
           IF offset + limit < Len(table) THEN offset + limit ELSE Len(table))

\* The first statement of BlockPGRepo.getMany; without a transaction in the
\* blocks there is no second one.
Select ==
    /\ reader.op = "select"
    /\ LET rows == Rows(RequestLimit, reader.offset) IN
       IF \A b \in ToSet(rows) : b.trs = {}
       THEN reader' = Idle /\ Reply([i \in DOMAIN rows |-> Whole(rows[i])])
       ELSE reader' = [reader EXCEPT !.op = "assign", !.blocks = rows] /\ UNCHANGED reply
    /\ UNCHANGED <<table, mem, task, running, loaded, ids, faults, peak>>

\* The second one, of assignTransactions.  db.many rejects when it finds no row,
\* and sendBlocks answers without blocks.
Assign ==
    /\ reader.op = "assign"
    /\ LET found == UNION {b.trs : b \in ToSet(reader.blocks) \cap ToSet(table)} IN
       Reply(IF found = {} THEN <<>>
             ELSE [i \in DOMAIN reader.blocks |->
                     [block |-> reader.blocks[i], trs |-> reader.blocks[i].trs \cap found]])
    /\ reader' = Idle
    /\ UNCHANGED <<table, mem, task, running, loaded, ids, faults, peak>>

ReadFails ==
    /\ reader # Idle /\ Fault
    /\ reader' = Idle /\ reply' = Idle
    /\ UNCHANGED <<table, mem, task, running, loaded, ids, peak>>

-----------------------------------------------------------------------------
Next ==
    \/ \E trs \in SUBSET Transactions : Save(trs)
    \/ Delete \/ Commit \/ CommitFails \/ Continue
    \/ Crash \/ Load \/ Loaded
    \/ \E offset \in 0..MaxIds : SendBlocks(offset)
    \/ Select \/ Assign \/ ReadFails

Spec == Init /\ [][Next]_vars
=============================================================================
