------------------------------- MODULE TxPool -------------------------------
(***************************************************************************)
(* The way of a transaction through a node: the queue that processes one   *)
(* transaction per timer call (src/core/service/transactionQueue.ts), the  *)
(* pool whose transactions are applied to the unconfirmed state            *)
(* (src/core/service/transactionPool.ts), and the tasks that generate,     *)
(* receive, replace and roll back blocks                                   *)
(* (src/core/service/block.ts, src/core/controller/block.ts, sync.ts),     *)
(* which take transactions out of the pool and put them back.  The ledger  *)
(* and the six types of transactions are those of Ledger.                  *)
(*                                                                         *)
(* Tasks of the main queue run one after the other and are suspended at    *)
(* every await of the database; between two steps of a task the timers of  *)
(* the queue and the arrival of transactions interleave.  Headers, slots   *)
(* and rounds are the subject of Node.                                     *)
(***************************************************************************)
EXTENDS Ledger

CONSTANTS
    Genesis,            \* the ledger after the genesis block
    MaxPerBlock,        \* MAX_TRANSACTIONS_PER_BLOCK
    Budgets             \* bounds: what may happen in a behaviour, see count

ASSUME PoolAssumption ==
    /\ "stored" \in DOMAIN Genesis /\ Genesis.stored = {}
    /\ MaxPerBlock \in Nat
    /\ \A b \in Budgets : "ids" \in DOMAIN b /\ b.ids \subseteq Ids

VARIABLES
    queue,              \* TransactionQueue.queue
    conflicted,         \* TransactionQueue.conflictedQueue
    locked,             \* TransactionQueue.locked
    ticks,              \* scheduled calls of process
    pool,               \* TransactionPool.pool, in the order of insertion
    bySender,           \* TransactionPool.poolBySender
    byRecipient,        \* TransactionPool.poolByRecipient
    ledger,             \* the memory of accounts and delegates
    chain,              \* the confirmed blocks: sequences of copies
    main,               \* the task of the main queue, between two awaits
    sync,               \* SystemRepository.synchronization
    online,             \* PeerNetworkRepository.count > 0
    stalled,            \* a call of process ended although the queue was not empty
    unverified,         \* the pool lost what it stood on and was not verified since
    count               \* what may still happen: the transactions there are and
                        \* how often each may arrive, blocks, deletions,
                        \* synchronizations, failed writes, losses of all peers

node == <<queue, conflicted, locked, ticks, pool, bySender, byRecipient, ledger>>
vars == <<node, chain, main, sync, online, stalled, unverified, count>>

Idle == [task |-> "idle"]
Empty == [a \in Address |-> <<>>]

Init ==
    /\ queue = <<>> /\ conflicted = <<>> /\ locked = FALSE /\ ticks = 0
    /\ pool = <<>> /\ bySender = Empty /\ byRecipient = Empty
    /\ ledger = Genesis /\ chain = <<>>
    /\ main = Idle /\ sync = FALSE /\ online = TRUE
    /\ stalled = FALSE /\ unverified = FALSE /\ count \in Budgets

-----------------------------------------------------------------------------
(***************************************************************************)
(* What the services do within one step: operators from a memory m, the    *)
(* variables of the node, to the memory after it.                          *)
(***************************************************************************)
Memory == [queue |-> queue, ticks |-> ticks, pool |-> pool, bySender |-> bySender,
           byRecipient |-> byRecipient, ledger |-> ledger]

Become(m) ==
    /\ queue' = m.queue /\ ticks' = m.ticks /\ pool' = m.pool
    /\ bySender' = m.bySender /\ byRecipient' = m.byRecipient /\ ledger' = m.ledger

IdsOf(s) == {s[i].id : i \in DOMAIN s}

QueuePush(m, x) ==
    IF x.id \in IdsOf(m.queue) THEN m
    ELSE IF m.queue = <<>> THEN [m EXCEPT !.queue = <<x>>, !.ticks = @ + 1]
    ELSE [m EXCEPT !.queue = Sorted(Append(@, x))]

\* The accounts under which the pool files a transaction as one they receive.
Recipients(t) ==
    CASE t.type = "SEND" -> {t.to}
      [] t.type = "STAKE" -> DOMAIN t.sponsors
      [] t.type = "VOTE" -> IF t.reward # 0 \/ t.unstake # 0 THEN DOMAIN t.sponsors ELSE {}
      [] OTHER -> {}

Filed(index, addresses, x) ==
    [a \in Address |-> IF a \in addresses THEN Append(index[a], x) ELSE index[a]]
Unfiled(index, addresses, x) ==
    [a \in Address |-> IF a \in addresses THEN RemoveFirst(index[a], x) ELSE index[a]]

PoolPush(m, x) ==
    LET t == Trs[x.id] IN
    IF x.id \in IdsOf(m.pool) THEN m
    ELSE [m EXCEPT !.pool = Append(@, x),
                   !.bySender = Filed(@, {t.sender}, x),
                   !.byRecipient = Filed(@, Recipients(t), x),
                   !.ledger = ApplyUnconfirmed(@, x)]

\* What the undo had done when it threw stays: the exception is only logged.
PoolRemove(m, x) ==
    LET t == Trs[x.id] IN
    IF x.id \notin IdsOf(m.pool) THEN m
    ELSE [m EXCEPT !.pool = RemoveAt(@, CHOOSE i \in DOMAIN @ : @[i].id = x.id),
                   !.bySender = Unfiled(@, {t.sender}, x),
                   !.byRecipient = Unfiled(@, Recipients(t), x),
                   !.ledger = UndoUnconfirmed(@, x)]

\* Removes the transactions filed under an address, the last one first, from
\* the memory c.m, and appends them to c.removed.
RemoveOne(c, x) == [m |-> PoolRemove(c.m, x), removed |-> Append(c.removed, x)]
RemoveBySender(c, a) == FoldLeft(RemoveOne, c, Reverse(c.m.bySender[a]))
\* Mutant: only the transactions of the sender are taken out.
RemoveByRecipient_None(c, a) == c
RemoveByRecipient(c, a) == FoldLeft(RemoveOne, c, Reverse(c.m.byRecipient[a]))

RemoveAround(c, x) ==
    RemoveByRecipient(RemoveBySender(c, Trs[x.id].sender), Trs[x.id].sender)
BatchRemove(m, txs) == FoldLeft(RemoveAround, [m |-> m, removed |-> <<>>], Reverse(txs))

\* The first MaxPerBlock (or all) transactions of the pool, removed from it.
PopSorted(m, limit) ==
    LET all == Sorted(m.pool)
        taken == SubSeq(all, 1, IF Len(all) < limit THEN Len(all) ELSE limit)
    IN  [taken |-> taken, m |-> FoldLeft(PoolRemove, m, Reverse(taken))]

\* Mutant: what comes back is not verified again.
PushBack_Unverified(m, x, skipSignature) == PoolPush(m, x)
PushBack(m, x, skipSignature) ==
    IF VerifyUnconfirmed(m.ledger, x, skipSignature) THEN PoolPush(m, x) ELSE QueuePush(m, x)

PushUnsigned(m, x) == PushBack(m, x, TRUE)
PushInPool(m, txs) == FoldLeft(PushUnsigned, m, txs)

\* Those that are not in the block go back.
PushOther(c, x) == IF x.id \in c.block THEN c ELSE [c EXCEPT !.m = PushUnsigned(@, x)]
PushOthers(m, txs, block) == FoldLeft(PushOther, [m |-> m, block |-> IdsOf(block)], txs).m

PushSigned(m, x) == PushBack(m, x, FALSE)
\* Mutant: the pool is left as it is.
ReturnToQueueConflicted_Not(m) == m
ReturnToQueueConflicted(m) ==
    LET all == Sorted(m.pool)
    IN  FoldLeft(PushSigned, FoldLeft(PoolRemove, m, Reverse(all)), all)

IsPotentialConflict(x) ==
    LET a == Trs[x.id].sender
        filed == ToSet(byRecipient[a] \o bySender[a])
    IN  /\ filed # {}
        /\ \/ Type(x) = "SIGNATURE"
           \/ Type(x) = "REGISTER" /\ \E y \in filed : Type(y) = "REGISTER"
           \/ \E y \in filed : Before(x, y)

\* Mutant: the queue is opened, but process is not called.
Unlock_NoCall(m) ==
    /\ Become([m EXCEPT !.queue = Sorted(@ \o conflicted)])
    /\ conflicted' = <<>> /\ locked' = FALSE
\* unlock(): the conflicted transactions join the queue.
Unlock(m) ==
    /\ Become([m EXCEPT !.queue = Sorted(@ \o conflicted), !.ticks = @ + 1])
    /\ conflicted' = <<>> /\ locked' = FALSE

Applied(c, x) ==
    [c EXCEPT !.l = ApplyUnconfirmed(@, x), !.done = Append(@, x), !.threw = Throws(c.l, Trs[x.id])]
UndoneUnlessOk(c) ==
    IF c.ok THEN c ELSE [c EXCEPT !.l = FoldLeft(UndoUnconfirmed, @, Reverse(c.done))]

(***************************************************************************)
(* checkTransactionsAndApplyUnconfirmed: the ledger with the transactions  *)
(* applied, or, when one fails its verification, with those before it      *)
(* undone.  Without verification the fees of votes are calculated again,   *)
(* and a vote may throw.                                                   *)
(***************************************************************************)
CheckVerified(c, x) ==
    IF ~c.ok THEN c
    ELSE IF ~VerifyUnconfirmed(c.l, x, FALSE) THEN [c EXCEPT !.ok = FALSE]
    ELSE Applied(c, x)
CheckUnverified(c, x) ==
    IF c.threw THEN c
    ELSE Applied(c, IF Type(x) = "VOTE" THEN Copy(c.l, x.id) ELSE x)

Check(l, txs, verify) ==
    LET begin == [ok |-> TRUE, threw |-> FALSE, l |-> l, done |-> <<>>]
    IN  UndoneUnlessOk(IF verify THEN FoldLeft(CheckVerified, begin, txs)
                       ELSE FoldLeft(CheckUnverified, begin, txs))

-----------------------------------------------------------------------------
(***************************************************************************)
(* Arrivals and the queue.                                                 *)
(***************************************************************************)
Arrive(id) ==
    /\ id \in count.ids /\ count.arrivals[id] > 0
    /\ count' = [count EXCEPT !.arrivals[id] = @ - 1]
    /\ UNCHANGED <<conflicted, locked, chain, main, sync, online, stalled, unverified>>

\* TRANSACTION_RECEIVE, which waits while the node synchronizes; a node that
\* has no slot in the round only relays it.
ReceiveTransaction(id) ==
    /\ Arrive(id)
    /\ ~sync
    /\ id \notin IdsOf(pool)
    /\ Become(QueuePush(Memory, Copy(ledger, id)))

\* CREATE_PREPARED_TRANSACTION of the wallet API.
CreatePreparedTransaction(id) ==
    /\ Arrive(id)
    /\ Become(QueuePush(Memory, Copy(ledger, id)))

\* The fee of a vote is calculated when the vote leaves the queue.
AtProcessing(x) == IF Type(x) = "VOTE" THEN Copy(ledger, x.id) ELSE x

Process ==
    /\ ticks > 0
    /\ UNCHANGED <<locked, chain, main, sync, online, unverified, count>>
    /\ LET x == Head(queue)
           y == AtProcessing(x)
           popped == [Memory EXCEPT !.queue = Tail(@)]
       IN  \/ /\ queue = <<>> \/ locked \/ sync \/ ~online
              /\ ticks' = ticks - 1
              /\ stalled' = (stalled \/ (queue # <<>> /\ ~locked))
              /\ UNCHANGED <<queue, conflicted, pool, bySender, byRecipient, ledger>>
           \/ /\ queue # <<>> /\ ~locked /\ ~sync /\ online
              /\ stalled' = FALSE
              /\ \/ /\ x.id \in IdsOf(pool)
                    /\ Become(popped)
                    /\ UNCHANGED conflicted
                 \/ /\ x.id \notin IdsOf(pool) /\ IsPotentialConflict(x)
                    /\ Become(popped)
                    /\ conflicted' = Append(conflicted, x)
                 \/ /\ x.id \notin IdsOf(pool) /\ ~IsPotentialConflict(x)
                    /\ ~VerifyUnconfirmed(ledger, y, FALSE)
                    /\ Become(popped)
                    /\ UNCHANGED conflicted
                 \/ /\ x.id \notin IdsOf(pool) /\ ~IsPotentialConflict(x)
                    /\ VerifyUnconfirmed(ledger, y, FALSE)
                    /\ Become(PoolPush(popped, y))
                    /\ UNCHANGED conflicted

Disconnect ==
    /\ online /\ count.drops > 0
    /\ online' = FALSE
    /\ count' = [count EXCEPT !.drops = @ - 1]
    /\ UNCHANGED <<node, chain, main, sync, stalled, unverified>>

Connect ==
    /\ ~online
    /\ online' = TRUE
    /\ UNCHANGED <<node, chain, main, sync, stalled, unverified, count>>

-----------------------------------------------------------------------------
(***************************************************************************)
(* Generating a block.  A task that throws is given up by the dispatcher:  *)
(* its block is lost and the queue stays locked.                           *)
(***************************************************************************)
NewBlock ==
    /\ count.blocks > 0
    /\ count' = [count EXCEPT !.blocks = @ - 1]

GenerateBlock ==
    /\ main = Idle
    /\ NewBlock
    /\ \E popped \in {PopSorted(Memory, MaxPerBlock)} :
       \E c \in {Check(popped.m.ledger, popped.taken, FALSE)} :
           /\ Become([popped.m EXCEPT !.ledger = c.l])
           /\ main' = IF c.threw THEN Idle ELSE [task |-> "generate", block |-> c.done]
           /\ unverified' = (unverified \/ c.threw)
    /\ locked' = TRUE
    /\ UNCHANGED <<conflicted, chain, sync, online, stalled>>

\* BlockStorageService.push and TransactionService.apply of each transaction.
Confirmed(l, txs) == FoldLeft(ApplyConfirmed, [l EXCEPT !.height = @ + 1], txs)

BlockGenerated ==
    /\ main.task = "generate"
    /\ chain' = Append(chain, main.block)
    /\ Unlock([Memory EXCEPT !.ledger = Confirmed(@, main.block)])
    /\ main' = Idle
    /\ UNCHANGED <<sync, online, stalled, unverified, count>>

\* Mutant: the transactions are queued and stay applied.
UndoApplied_StillApplied(m, txs) == FoldLeft(QueuePush, m, Reverse(txs))
\* Mutant: the transactions are undone and not queued.
UndoApplied_NotQueued(m, txs) == [m EXCEPT !.ledger = FoldLeft(UndoUnconfirmed, @, Reverse(txs))]
\* batchSave failed: the transactions of the block are undone and queued.
UndoOne(m, x) == QueuePush([m EXCEPT !.ledger = UndoUnconfirmed(@, x)], x)
UndoApplied(m, txs) == FoldLeft(UndoOne, m, Reverse(txs))

Fault ==
    /\ count.faults > 0
    /\ count' = [count EXCEPT !.faults = @ - 1]

GenerateFailed ==
    /\ main.task = "generate"
    /\ Fault
    /\ Unlock(ReturnToQueueConflicted(UndoApplied(Memory, main.block)))
    /\ main' = Idle
    /\ unverified' = FALSE
    /\ UNCHANGED <<chain, sync, online, stalled>>

-----------------------------------------------------------------------------
(***************************************************************************)
(* Receiving a block.  Its transactions are sorted and distinct; the votes *)
(* carry the fees their forger calculated on the same chain.               *)
(***************************************************************************)
\* The accounts a node that starts makes of the blocks in its database.
TransactionsWarmUp(l, txs) ==
    FoldLeft(LAMBDA k, x : ApplyConfirmed(ApplyUnconfirmed(k, x), x), l, txs)

Replay(l, blocks) ==
    FoldLeft(LAMBDA k, b : [TransactionsWarmUp(k, b) EXCEPT !.height = @ + 1], l, blocks)

\* The block an honest forger makes of the transactions with these ids.
Forged(l, ids) == Check(l, Sorted(SetToSeq({Copy(Genesis, id) : id \in ids})), FALSE).done

\* Transactions removed are back in the pool as if they had never left it.
Restored(removed, m) == removed = <<>> \/ Reverse(removed) = m.pool

Contents == UNION {kSubset(k, count.ids) : k \in 0..MaxPerBlock}

\* receiveBlock up to the await of the database, or to its end when the block
\* is refused; good says whether the header passes its verification.
Receiving(m, txs, good, task, deleted) ==
    \E emptied \in {BatchRemove(m, txs)} :
    \E c \in {Check(emptied.m.ledger, txs, TRUE)} :
    \E refused \in {PushInPool([emptied.m EXCEPT !.ledger = IF good THEN c.l ELSE @],
                               emptied.removed)} :
        \/ /\ good /\ c.ok
           /\ Become([emptied.m EXCEPT !.ledger = c.l])
           /\ main' = [task |-> task, block |-> txs, removed |-> emptied.removed]
           /\ locked' = TRUE
           /\ unverified' = (unverified \/ deleted)
           /\ UNCHANGED conflicted
        \/ /\ ~(good /\ c.ok)
           /\ Unlock(refused)
           /\ main' = IF task = "receive" THEN Idle ELSE [task |-> "sync"]
           /\ unverified' = (unverified \/ deleted \/ ~Restored(emptied.removed, refused))

ReceiveBlock(ids, good) ==
    /\ main = Idle
    /\ NewBlock
    /\ Receiving(Memory, Forged(Replay(Genesis, chain), ids), good, "receive", FALSE)
    /\ UNCHANGED <<chain, sync, online, stalled>>

NextMain == IF main.task = "receive" THEN Idle ELSE [task |-> "sync"]

BlockReceived ==
    /\ main.task \in {"receive", "syncReceive"}
    /\ LET m == [Memory EXCEPT !.ledger = Confirmed(@, main.block)]
       IN  Unlock(ReturnToQueueConflicted(PushOthers(m, main.removed, main.block)))
    /\ chain' = Append(chain, main.block)
    /\ main' = NextMain
    /\ unverified' = FALSE
    /\ UNCHANGED <<sync, online, stalled, count>>

ReceiveFailed ==
    /\ main.task \in {"receive", "syncReceive"}
    /\ Fault
    /\ LET m == PushInPool(UndoApplied(Memory, main.block), main.removed)
       IN  Unlock(m) /\ unverified' = (unverified \/ ~Restored(main.removed, m))
    /\ main' = NextMain
    /\ UNCHANGED <<chain, sync, online, stalled>>

(***************************************************************************)
(* A block of the same height takes the place of the last one, which is    *)
(* deleted before the queue is locked; the result of deleting is ignored.  *)
(***************************************************************************)
DeleteOne(l, x) == UndoUnconfirmed(UndoConfirmed(l, x), x)
DeleteLast(l) == FoldLeft(DeleteOne, [l EXCEPT !.height = @ - 1], Reverse(Last(chain)))

Deletion == count.deletes > 0 /\ chain # <<>>

ReplaceBlock(ids, good) ==
    /\ main = Idle
    /\ Deletion /\ count.blocks > 0
    /\ count' = [count EXCEPT !.deletes = @ - 1, !.blocks = @ - 1]
    /\ main' = [task |-> "replace", block |-> Forged(Replay(Genesis, Front(chain)), ids),
                good |-> good]
    /\ UNCHANGED <<node, chain, sync, online, stalled, unverified>>

BlockDeleted ==
    /\ main.task = "replace"
    /\ Receiving([Memory EXCEPT !.ledger = DeleteLast(@)], main.block, main.good, "receive", pool # <<>>)
    /\ chain' = Front(chain)
    /\ UNCHANGED <<sync, online, stalled, count>>

\* The last block stays: the one received does not link to it.
DeleteFailed ==
    /\ main.task = "replace"
    /\ Fault
    /\ Receiving(Memory, main.block, FALSE, "receive", FALSE)
    /\ UNCHANGED <<chain, sync, online, stalled>>

-----------------------------------------------------------------------------
(***************************************************************************)
(* Synchronization.                                                        *)
(***************************************************************************)
SyncStart ==
    /\ main = Idle /\ count.syncs > 0
    /\ count' = [count EXCEPT !.syncs = @ - 1]
    /\ sync' = TRUE
    /\ main' = [task |-> "syncWait"]
    /\ UNCHANGED <<node, chain, online, stalled, unverified>>

\* The peers agree with the node by now.
SyncConsensus ==
    /\ main.task = "syncWait"
    /\ sync' = FALSE
    /\ main' = Idle
    /\ UNCHANGED <<node, chain, online, stalled, unverified, count>>

SyncBegin ==
    /\ main.task = "syncWait"
    /\ LET popped == PopSorted(Memory, Len(pool))
       IN  Become(FoldLeft(QueuePush, popped.m, popped.taken))
    /\ locked' = TRUE
    /\ main' = [task |-> "sync"]
    /\ unverified' = FALSE
    /\ UNCHANGED <<conflicted, chain, sync, online, stalled, count>>

SyncRollback ==
    /\ main.task = "sync"
    /\ Deletion
    /\ count' = [count EXCEPT !.deletes = @ - 1]
    /\ ledger' = DeleteLast(ledger)
    /\ chain' = Front(chain)
    /\ UNCHANGED <<queue, conflicted, locked, ticks, pool, bySender, byRecipient, main, sync,
                   online, stalled, unverified>>

SyncReceive(ids, good) ==
    /\ main.task = "sync"
    /\ NewBlock
    /\ Receiving(Memory, Forged(Replay(Genesis, chain), ids), good, "syncReceive", FALSE)
    /\ UNCHANGED <<chain, sync, online, stalled>>

SyncEnd ==
    /\ main.task = "sync"
    /\ sync' = FALSE
    /\ Unlock(Memory)
    /\ main' = Idle
    /\ UNCHANGED <<chain, online, stalled, unverified, count>>

-----------------------------------------------------------------------------
Next ==
    \/ \E id \in Ids : ReceiveTransaction(id) \/ CreatePreparedTransaction(id)
    \/ Process \/ Disconnect \/ Connect
    \/ GenerateBlock \/ BlockGenerated \/ GenerateFailed
    \/ \E ids \in Contents, good \in BOOLEAN :
          ReceiveBlock(ids, good) \/ ReplaceBlock(ids, good) \/ SyncReceive(ids, good)
    \/ BlockReceived \/ ReceiveFailed \/ BlockDeleted \/ DeleteFailed
    \/ SyncStart \/ SyncConsensus \/ SyncBegin \/ SyncRollback \/ SyncEnd

Spec == Init /\ [][Next]_vars
=============================================================================
