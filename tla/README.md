# TLA+ models and proofs of the DDK core

DDK is a delegated-proof-of-stake block chain written in TypeScript. Delegates forge one
block per slot of ten seconds, in rounds in which each active delegate has one slot; every
node keeps the end of the chain in memory and all of it in PostgreSQL, replaces and rolls
back blocks when peers disagree, and pays the delegates when a round ends. Wallets talk to a
second process, the API, which passes their requests on to the core.

This directory models what a node does between two awaits of its single JavaScript thread,
what failing statements, lost connections, timers and crashes leave behind, and what must
hold nevertheless. TLC checks small instances; TLAPS proves, for every size, the main facts about
the stored chain, the dispatcher, rounds and what they pay, memory and its answers, the ids known
of peers, the connections between them, and the requests of wallets.

Paths below are relative to `src/`. To run a check: `tlc -config observer.cfg MCNode.tla`;
the proofs: `tlapm NodeProofs.tla` and the same for each module whose name ends in `Proofs`, and
`tlapm SequenceLemmas.tla`.

## 1. The system

| Component | State | Operations | Interacts with |
|---|---|---|---|
| Dispatcher: `core/controller/index.ts`, `shared/util/bus.ts`, `core/repository/eventQueue.ts` | `MAIN_QUEUE`, callbacks of `setImmediate`, `EventsQueue`, timers by topic | `messageON`, `createTaskON`, `resetTaskON`, `processMainQueue`, `EventQueue.process` | calls every controller; `System.synchronization` diverts events into `EventsQueue` |
| Block processing: `core/controller/block.ts`, `core/service/block.ts` | none of its own | receive, generate, verify, process, apply, delete the last block, genesis | storage, rounds, queue and pool, accounts, peers |
| Block storage: `core/service/blockStorage.ts`, `core/repository/block/`, `core/repository/transaction/` | blocks in memory by list, id and height; headers and confirmed ids of all blocks; the tables `block` and `trs` | push, cleanup, popLast, has, getMany; save, batchSave, deleteById, getMany | emits `LAST_BLOCKS_UPDATE` |
| Rounds: `core/service/round.ts`, `core/controller/round.ts`, `core/repository/round/`, `core/service/slot.ts`, `core/util/slot.ts` | the list of rounds, with `isForged` for each slot; what delegates earned | generate, restore, forwardProcess, backwardProcess, restoreToSlot, processReward | sets the timers of BLOCK_GENERATE and ROUND_FINISH |
| Synchronization: `core/controller/sync.ts`, `core/service/sync.ts`, `core/repository/system.ts` | `System.synchronization`, headers, `lastSyncTime` | startSyncBlocks, consensus, checkCommonBlock, rollback, requestBlocks, saveRequestedBlocks | peers, block processing, queue |
| Start-up: `core/loader.ts` | none of its own | migrations, warm-up from the database, genesis block, timers | everything |
| Queue and pool: `core/service/transactionQueue.ts`, `core/service/transactionPool.ts`, `core/service/transactionDispatcher.ts` | queue, conflicted queue, lock; pool by id, sender and recipient | push, process, lock, unlock; push, remove, batchRemove, popSorted | verifies against and applies to the ledger; blocks take and return transactions |
| Transaction types and accounts: `core/service/transaction.ts`, `core/service/transaction/`, `core/util/reward.ts`, `core/repository/account.ts`, `core/repository/delegate.ts` | accounts with votes and stakes, delegates | create, fee, verify, verifyUnconfirmed, applyUnconfirmed, undoUnconfirmed, apply for the six types | blocks, pool, airdrop |
| Peers: `core/service/peer.ts`, `core/controller/peer.ts`, `core/repository/peer/`, `shared/model/Peer/`, `core/driver/socket/` | memory peers, network peers, ban list, pending RPC requests | connect, add, resolve a double connection, ping, discover, reboot, ban, remove | synchronization, broadcast |
| Messages: `shared/util/byteSerializer/`, `core/util/` of the socket | the shared schema objects | write, read, pack, unpack | every channel between nodes |
| Wallet API: `api/middleware/socket/`, `api/driver/socket/`, `api/controller/`, `core/api/` | requests by id, the queue of those beyond the limit, timers | refuse, query, emitToCore, processQueue, answer, time out | wallets, core, database |
| Histories, referred users, cryptography, exceptions, migrations, configuration | observers, or data | | not modelled, section 8 |

What is hard. A process has one thread, but a MAIN task awaits the database or a peer, and
during an await timers, messages and ON events (among them ROUND_FINISH, which changes the
round, and the timers of the transaction queue) run. Statements fail and the process dies
between the commit and the change of memory. Rounds, and the transactions of blocks, go
forwards and backwards with the chain: a payment is undone by computing it anew, on a ledger
that other transactions have changed since. Two nodes connect to each other at once, a peer
rolls back while it is asked, an answer comes after its timer. `PROJECT.json` lists the
hazards by line ("hazards"), with the property that watches each one or the reason why none
does.

What makes each component correct:

- dispatcher: no task is lost, no two run at once, each ends, nothing stays locked;
- blocks and storage: memory is the end of one chain, the table is one chain, they agree up
  to the statement under way, the table can be loaded at any moment, and an answer to a peer
  is a stretch of the chain;
- rounds: they follow each other without gaps, their delegates and `isForged` flags are a
  function of the chain, and what delegates have been paid is too;
- queue, pool and ledger: the accounts are what the chain and the pool produce, no money is
  made or lost, no transaction is lost or confirmed twice, a forged block passes the checks of
  the others, and the verdict about a block depends on the chain alone;
- synchronization: it ends with lock and flag taken back, on the chain of the majority;
- peers: both ends agree which connection they use, dead peers go, transactions and blocks of banned
  ones are dropped;
- messages: what is read is what was written, or nothing was sent;
- wallet API: a request is answered once, in the end, in order, and not executed after it was
  given up before it left.

## 2. The plan and what is done

The core came first: `Rounds`, `Node` with everything that interleaves, `StoredChain` as its
abstract specification, the proofs of `NodeProofs`. Then the content of blocks (`Ledger`,
`TxPool`), the other nodes (`Peers`, `SyncLoop`, `Codec`), the limited memory with its proof
(`Storage`, `StorageProofs`), and the second process (`Gateway`). Then the proofs of what the
other components promise: `GatewayProofs`, `SyncLoopProofs`, `PeersProofs`, then `ChainProofs`
for chain, rounds and what the rounds pay, and last `TxPoolProofs` for pool and chain.

What is left, in the order of its use:

1. proofs of what the pool does to the accounts, beginning with `Conserved`;
2. a proof of which dead entries undisturbed handshakes leave, the other half of `SameConnection`;
3. a network of a few nodes reduced to their chains and rounds that exchange blocks;
4. `TxPool` under the tasks of `Node`, so that rounds, fees and the pool are seen together.

## 3. The modules

| Module | What it is |
|---|---|
| `Rounds` | slots, rounds, and what a finished round pays: operators only |
| `Node` | one node: 42 actions over 24 variables |
| `StoredChain` | abstract: the block table is a chain that starts with genesis and grows or shrinks at its end |
| `NodeProps` | the properties of `Node`, the refinement mapping to `StoredChain`, fairness |
| `NodeInv`, `NodeProofs` | the inductive invariant of chain, table and task; that `Node` implements `StoredChain`; the invariant of queues and callbacks and of what a task holds, the types of all variables |
| `ChainProofs` | the invariant of chain, rounds and loader together, and of what delegates have been paid |
| `Ledger` | the six types of transactions on accounts and delegates: operators only |
| `TxPool`, `TxPoolProps`, `TxPoolProofs` | queue, pool and the tasks that take transactions out and put them back, over `Ledger`; the invariant of pool, block on its way and chain |
| `Peers`, `PeersProps`, `PeersProofs` | connections among nodes that all run the code; the invariants of their lists and of each handshake |
| `SyncLoop`, `SyncLoopProps`, `SyncLoopProofs` | one node's synchronization with peers on forks; the invariant of the ids it knows |
| `Storage`, `StorageProps`, `StorageProofs` | memory, indexes, tables and the reader; their inductive invariants and proofs |
| `Codec`, `CodecProps` | the bytes of messages |
| `Gateway`, `GatewayProps`, `GatewayProofs` | the API process between wallets and the core; the invariant of its requests |
| `SequenceLemmas`, `SequenceFacts` | induction over the numbers, functions defined by recursion, sequences as sets, sums over finite sets, folds: what the proofs share; its instance for proofs without folds |
| `MC...` | instances for TLC |

A mutant of a definition, used to test a property, stands just before it and is named after it
(`Update_KeepsFork` before `Update`).

### 3.1 Node

| Variables | Code |
|---|---|
| `chain`, `byHeight` | `memoryBlocks`, `memoryBlocksByHeight`; the map by id and `BlockHeadersStorage` always hold the same blocks as `chain` and are read as `Has` |
| `db` | the rows of `block` (transactions are written in the same database transaction) |
| `mine` | the blocks of this node that its peers have received |
| `rounds`, `ledger` | `RoundRepository`; balance, `forgedBlocks` and `missedBlocks` of each delegate as changed by `processReward` |
| `sync`, `locked` | `System.synchronization`, the lock of `TransactionQueue` |
| `genTimer`, `finTimer`, `syncTimer` | the timers of `bus.ts` by topic and the one of `loader.ts:77` |
| `mainQ`, `imm`, `evq` | `MAIN_QUEUE` (its head is the running task), the callbacks given to `setImmediate` (`"MAIN"` is `processMainQueue`), `EventsQueue` |
| `pc`, `blk`, `stmt`, `ahead`, `goal`, `then` | the running task: the point it has reached, its block, its database statement, the callbacks that run before its await can end, and the target and continuation of `restoreToSlot` |
| `now`, `lastSync`, `crashes` | the slot of the clock, `lastSyncTime` in slots, a bound |
| `thrown` | history: a handler threw, and no later task has released what it left locked |

An action is a stretch of code from one await to the next, or to a point where a loop or a
shared subroutine (`restoreToSlot`, `deleteLastBlock`, `receiveBlock`) begins or ends. At a
point in `AwaitPoints` the thread is free and anything else may run; at every other point
only the task itself goes on, so the finer actions do not add interleavings.

- `onReceiveBlock`: `RefuseBlock | AcceptNext | AcceptReplacement`, `RestoreStep*`,
  `SendDelete`, `DbDelete`, `DeleteAnswered`, `RestoreStep*`, `Undo`, `RestoreReceived`,
  `RestoreStep*`, `ReceiveFails | ReceiveSaves`, `DbInsert`, `InsertFailed | ApplyBlock |
  ApplyThrows`.
- `generateBlock`: `SkipForging | ForgeFails | ForgeThrows | Forge`, then `DbInsert` and the same
  ends.
- `startSyncBlocks`: `StartSync`, `SyncWaitEnds`, `SyncNotNeeded | SyncBegins`, the loop
  `SyncLoop`, `PeerAnswers` with `SaveRequestedBlock` or a rollback (`SendDelete` ...
  `AfterRollback`), then `SyncExit`, `SyncDone`.
- `Loader.start`: `WarmUp`, `WarmRestore`, `RestoreStep*`, `WarmPush`, `WarmUpDone`.
- ON events `RoundFinish` and `WarmUpFinished`; the timers; `BlockArrives`, `Tick`, `Crash`.

`ahead` models Node's event loop: a database answer is an I/O event, so the callbacks
already given to `setImmediate` when the await began have run before the answer arrives,
later ones may come before or after it.

Abstractions. Blocks are records of id, previous id, height, slot, time of creation (in half slots),
generator and fee; their content is one verdict (`ReceiveFails` may happen to any block, and any
generation may throw as in `transaction/vote.ts:222`; `TxPool` looks inside). `MCNode` lets a block
have any slot and generator: refusing the wrong ones is left to the code's checks. `Schedule` maps a
block to the active delegates in forging order after it: the ranking by votes, pending
registrations and the MD5 shuffle of `generateSlots` are a constant function of the last block. Time
is a slot number; timers fire in or after their slot, and the clock does not leave a slot in which a
timer or a callback is due. Consensus is any value in `Consensus` whenever it is asked.

Peers are external: they send blocks whose slot is at most `Skew` ahead of the clock (`Delivered`),
blocks of this node's delegate only if this node has sent them, and, as the answer to a request,
blocks that count up from the height asked for (`SaveRequestedBlock`). A peer that answers with a
block as high as the node's last one would get it past `validateReceivedBlock`
(`core/service/block.ts:241`) and pushed without a deletion; this model leaves that out.

### 3.2 Ledger and TxPool

`Ledger` keeps, per account, balance, second key, votes, stakes, referrals and delegate, and
per delegate its votes and name. `CalculateFee`, `VerifyUnconfirmed`, `ApplyUnconfirmed`,
`UndoUnconfirmed` and `ApplyConfirmed` are the functions every service of a type has; they
dispatch to `ApplySend`, `VerifyVote`, `UndoStake` and so on, and `reward.ts` is
`RewardAndUnstake`, `CountVote`, `UncountVote` and `PayVote`. A vote for an account that is no
delegate throws in the middle of its operation (`Throws`); what was done before it, for the first
`Reached` delegates, stays.

`TxPool` holds queue, conflicted queue, lock and pending timers (`ticks`), the pool in its order
with both indexes, and the tasks cut at their awaits (`main`): `Process` is one call of
`TransactionQueue.process`; `GenerateBlock`/`BlockGenerated`, `ReceiveBlock`/`BlockReceived`,
`ReplaceBlock`/`BlockDeleted`, and the synchronization with `SyncBegin`/`SyncEnd` are the two
sides of each await, with a statement that succeeds or fails. Every block a task gets is a set
of the instance's transactions with fees as an honest delegate calculates them (`Forged`),
which includes sets that cannot be applied.

`count` is the plan of a behaviour (`Budgets`): which transactions exist, how often each
arrives, and how many blocks, deletions, synchronizations, failures and losses of all peers
happen. `unverified` marks the time in which the pool may stand on money that a deleted block
took away (section 7); three properties are stated for the rest of the time.

### 3.3 Peers, SyncLoop, Codec

`Peers` runs the code on every node. `memory`, `network`, `banned` are the repositories, `link`
and `wire` are sockets with both ends and the messages on their way in order, `posted` the
callbacks of `setImmediate`. `link[s].ears` says which end has the listeners of a `NetworkPeer`, and
ids of sockets are ordered, as `resolveConnectionConflict` compares them; a client socket has lost
its id once it is disconnected (`HasId`), the old one of the two as well as the new one whose
headers wait in `setImmediate`. `Heard` is what `_onBroadcast` and `_onRPCRequest` let through: of a
banned peer its headers and its requests, but no transaction, and no block, which takes the
same way. A transaction may be passed on to all peers (`ReceiveTransaction`). Plans give the trusted
peers of each node and what may happen.

`SyncLoop` has chains as paths in a tree of forks. `headers` and `memory` hold the window of
ids that consensus is computed from; `theirs` is what each peer keeps of itself by the same rule
(`SystemRepository.addBlockIdInPool`, `MemoryPeer.update`) and sends when it connects, cleaned only
by a restart of the peer; `request`, `received`, `lastPeerRequested`, `needDelay`
are the local variables of `startSyncBlocks`; a request may fail, a peer may move to its other
fork or leave, and updates of headers travel on `wire`.

`Codec` writes each schema of the program as a value with its type byte, as `getLength`, `write`
and `read` do, with `Base` values of a byte. `elements` is the hidden state: reading an array or
map replaces the element type of the shared schema.

### 3.4 Storage and Gateway

`Storage` saves and deletes blocks with awaited statements, evicts what exceeds `MemoryLimit`,
dies and warms up, while one reader answers a peer from memory or with two statements (`reader`,
`reply`). `reply.torn` is a history flag: a block was deleted between those two statements.

`Gateway` follows a request from the wallet to its answer: refused, read from the database, or
passed on within `Limit` a second under its id, with a timer (`cleaners`) each. The disconnected
socket keeps references to messages (`sendBuffer`), so that a timer which turns a message into a
response is seen when the buffer is sent. `arrived`, `emitted`, `withdrawn` are history.

## 4. What TLC checks

| Run | Instance | States | Shows |
|---|---|---|---|
| `observer` | up to the first race (`RacelessSpec`, below): delegates me, a, b, the node forges; insertions and deletions fail, rounds end at any await, one crash, peers one slot ahead; slots 2-4, rounds of two and three slots, chain of 3, two waiting tasks | 1 456 024 | `ChainLinked`, `SlotsIncrease`, `FlagsMatchChain`, `RoundsReproducible`, `LedgerExact`, `Loadable`, `UndoFindsSlot` |
| `forger` | me, a, b, every race but failing deletions; insertions fail, handlers throw, one crash; slots 1-3, chain of 3, rounds of two of the three | 1 288 015 | `TypeOK`, `StoredLinear`, `SingleDispatch`, `NothingHeld`, `IInv`, `PopsWhatWasCompared`, and that `Node` refines `StoredChain` (`StoredChainSpec`) |
| `liveness` | me, a; insertions and deletions fail; slots 1-3, fairness | 312 753 | `TaskEnds` |
| `reward_race` | two delegates, slots 1-5 | counterexample | `LedgerExact` is violated, section 7 |
| `payments` | eleven transactions of all six types among seven accounts, at most four of them in one behaviour; a block or two, a deletion, a synchronization, a failing statement | 111 691 | `LedgerExact`, `Conserved`, `Solvent`, `ConfirmedOnce`, `NothingForgotten` |
| `forks` | payments that depend on each other and a second signature; two blocks, a replacement or rollback, a synchronization, a failure, the loss of all peers; fairness | 118 668 | `ForgedBlockValid`, `VerdictIndependent`, `QueueDrains` |
| `connections` | two or three nodes, up to four sockets, seven plans: mutual connections, undisturbed, with a loss or with a late answer and a ping; a star with discovery, one with a reboot; a ban around a reboot, and a banned peer that sends transactions and comes back | 865 084 | `ListsAgree`, `SameConnection`, `NoLeak`, `NotItself`, `BannedSilenced` |
| `pings` | two nodes, a lost connection, five pings; fairness | 36 381 | `PingsClean` |
| `sync` | three peers on two forks up to the heights 5 and 3 over one trunk block, a window of 3 and a request limit of 2; nobody moves, one moves, or one leaves and comes back, restarted or not, failing requests and statements, or three moves without a synchronization while one may be away; fairness | 319 125 | `KnowsTheirChain`, `FollowsMajority` |
| `gateway` | five requests of two wallets, three of them for the core, limit 1, two faults; fairness | 765 286 | `Accounted`, `NoOvertaking`, `WithdrawnNotExecuted`, `EveryRequestAnswered` |
| `storage` | chains of up to five blocks over a memory of two, one fault | 910 532 | `WindowIsTail`, `IdsOfChain`, `AnswerIsChain` |
| `codec` | every schema, each field at its samples, for 64 bits also a number too large, against two backgrounds, relayed up to twice | 1 425 | `NothingGarbled`, `ReadsToTheEnd` |

Why the bounds are enough.

- `Node`: three blocks are genesis, a block and one that can be replaced or rolled back past a round
  border; slots 1-3 or 2-4 with two- or three-slot rounds are at least two rounds; who is active
  depends on the slot of the last block, so that a round generated from the wrong block comes out
  differently; with two of three delegates in a round, a late block of the node itself meets a round
  without a slot for it (the `TypeError` of `block.ts:495`); one waiting task besides the running
  one is enough for a task to arrive while another awaits; one crash meets each intermediate state
  of the table.
- `TxPool`: the transactions of an instance are chosen to touch each other: a payment that
  needs the one before it, a second signature between two payments, a registration with its
  referral, a payment to it and its delegate, a stake and three votes of which one earns and one
  pays back the stake. `VoteMilestone = 2` and counts of 2 and 3 replace seconds and the tens of
  votes of the network, so that each branch of `reward.ts` is taken. A budget picks up to four of them;
  what is combined with a failure or a deletion is named in `MCTxPool`.
- `Peers`: three nodes are a node, a peer and somebody who tells the one of the other; three
  sockets are two competing ones and a third that reuses the moment between them.
- `SyncLoop`: forks up to the heights five and three over a window of three, so that ids are forgotten
  and a common block may lie below them (`CommonAnswered`); three moves without a
  synchronization are enough for a peer to go back below all ids known of it, and up again.
- `Storage`: with a memory of two, four blocks have evicted ones below and new ones above.
- `Gateway`: with a limit of one, three requests fill the queue twice; two faults are a
  connection lost and a wallet gone, or lost twice.
- `Codec`: `Base = 20` is the least round base in which the numbers of types and schemas fit a
  byte; the samples are the largest value, the smallest and one too large or missing.

`CHECK_DEADLOCK FALSE` is set where the model really may stop: the clock ends at `MaxSlot`, a
loader that throws leaves a dead process (`pc = "dead"`), and plans and budgets are used up.

Which properties need which environment. Those of `forger` hold whatever happens to rounds, but
`IInv`, `StoredLinear` and the refinement need deletions that succeed. Those of `observer` hold up to
the first of three steps (`NodeProps`), none of which the code prevents; `RacelessSpec` is the
specification without them, and everything else may happen in it: the node forges in its slots,
rounds end during a deletion or a synchronization, deletions of rows that are not there fail.

- `DeleteLost`: the deletion of a stored block fails. Its result is ignored, and the competing block
  is saved next to the one that should be gone.
- `LateForge`: a block is forged for a slot that the current round does not give to this node, or
  that is not after the last block's. `generateBlock` verifies nothing, so a late BLOCK_GENERATE event
  (also `WarmUpFinished`, which sets the timer again in the first half second of the slot, after
  a rollback) puts a block into a round that has no slot for it, or into a slot that has a block.
  Then `SlotsIncrease`, `FlagsMatchChain`, `RoundsReproducible` and `LedgerExact` are false, and
  `deleteLastBlock` may meet an unknown slot: the row is gone while the block stays in memory.
- `EarlyRoundEnd`: ROUND_FINISH changes the rounds while a block that was verified against them is
  being saved (`batchSave`). The next round is generated from the block before it, and the
  round paid without it (`reward_race`). The block that is pushed then may have no slot
  in the current round (`ApplyThrows`, which leaves the transaction queue locked). If later
  blocks fit into the wrongly generated round, a restart generates another round for them and
  `Loadable` may fail: the loader throws at each start.

`NothingHeld` speaks of all behaviours: what a handler leaves locked when it throws (`ApplyThrows`,
`ForgeThrows`) stays locked until a later task releases it, which `thrown` remembers; nothing else
leaves the lock or the flag behind.

`LedgerExact`, `Solvent`, `ForgedBlockValid` and `VerdictIndependent` of `TxPool` are stated
outside of `unverified`, the time between the deletion of a block under a filled pool (or the
return of transactions to the pool in another order) and the next moment at which the whole pool
is verified anew. `VerdictIndependent` speaks of pools of payments and second keys:
`batchRemove` takes out what belongs to the senders of a block, and a name or a nearly empty
airdrop is nobody's (section 7). `NothingForgotten` excepts the block whose generation throws.

Fairness.

- `Node`: the thread takes its next step (`Handler`), PostgreSQL answers (`Database`), timers
  fire (`Timers`) and the clock goes on (`Tick`). This is what the event loop and the libraries
  guarantee for a living process. Nothing is assumed of peers, of consensus or of which outcome
  a statement has. `TaskEnds` excludes the synchronization task, whose loop is `SyncLoop`'s
  subject, and the hang of `restoreToSlot` (section 7).
- `TxPool`: the timers of the queue fire and the running task's awaits are answered. The
  condition is weak fairness of the two with their enabling conditions spelled out.
- `Peers`: a socket delivers what is on its way or breaks, callbacks run, timers end requests
  that nothing answers, and the interval of the pings ends.
- `SyncLoop`: requests are answered or time out, statements end, updates arrive, and a peer that
  is disconnected comes back. The peer to ask is picked at random, so one that can be picked again
  and again is picked: the one strong fairness. `FollowsMajority` is stated for peers that stand
  still.
- `Gateway`: the interval, the timers and the database are served; nothing is assumed of the
  core or of the connection to it.

Each property of a passing run has a mutant of the code that violates it ("mutants" in
`PROJECT.json`): a dropped check, a forgotten unlock, a window off by one, a swapped order.

## 5. What is proved

`NodeProofs` proves, for every set of blocks and delegates, every schedule and every bound:

- `BaseInvariant`, `StoreTypeCorrect`: `Spec => []BaseInv`, with every statement free to fail:
  types of memory, table and task; genesis is first and never deleted; a task holds a block
  exactly while it receives, replaces or loads one; a block about to be deleted for a
  competing one is still the one it was compared with.
- `PopsWhatWasComparedHolds`: from the last part, and `PopsInUndo`: memory only shrinks in
  `Undo` or in a crash.
- `IInvariant`, `StoredLinearHolds`: `Spec /\ [][~DeleteLost]_vars => []IInv`, and with it
  `[]StoredLinear`: as long as no deletion of a stored block fails. (After one it is false: section 7.)

The argument for `NodeInv!IInv`. `StoredLinear` is not inductive: that inserting `blk` keeps
heights apart needs that no row is as high as `blk`, hence that rows are in memory
(`RowsInMemory`) and not above the last block (`ChainAscends`), and that `blk` still follows the
last block after the awaits (`ReceivedFollows`). That deleting a row leaves no orphan needs the
same facts about the last block. The loader needs that what it has loaded lies below what is left
(`LoadedLowest`). `Follows` and `NamesTheOneBelow` allow for one irregularity that the invariant
cannot exclude without speaking of rounds: when `deleteLastBlock` throws on an unknown slot, the
block stays in memory without a row, and the competing block later comes on top of it. All parts
speak of `chain`, `db` and the task only, so rounds, timers, queues and rewards may do anything;
most of the 42 actions are settled by `ChainFrame`.

`StorageProofs` proves, for every memory limit, every number of faults and every chain:

- `MemoryIsTheEndOfTheChain`: `Spec => []WindowIsTail`;
- `LastBlockIsKnown`: if fewer than `MemoryLimit` blocks are deleted below the peak, memory has
  a last block.

The argument. `WindowIsTail` alone is not inductive: eviction by `byHeight` and `byId` needs that
heights and ids are unique in the table (`TableOK`), and the meaning of `Known` while a statement
is under way needs that the task's block is the end of the table, or fits on it (`TaskOK`). With
`CountersOK` (the peak bounds the chain) they make the inductive invariant; `PushWindow` and
`PopWindow` do the work for a block more and a block less, `KnownCases` and `ShorterChain`
relate the table to what the code takes for the chain.

The lemmas all proofs share are in `SequenceLemmas`: induction over the numbers and functions
defined by recursion, both with a set where the library takes a predicate (the provers cannot
instantiate operators), sequences seen as sets, sums over finite sets, and folds, whose operation
is a parameter of the module. Proofs without folds extend `SequenceFacts`, its instance for an
operation that they do not use.

`NodeProofs` proves of the dispatcher, for any number of tasks, events and timers:

- `DispatcherInvariant`: `Spec => [](DispatchInv /\ ScheduleInv)`;
- `TypeOKHolds`, `SingleDispatchHolds`, from it and `BaseInvariant`. `TypeOK` includes that what memory
  finds by height is in its chain (`HeightsKnown`), which needs no assumption either;
- `NothingHeldHolds`: `Spec => []NothingHeld`, in all behaviours. `HeldInv` says which stage of which
  task may hold the lock or the synchronization flag (`HolderRuns`, `SyncPointsInv`), unless a handler
  has thrown.

`SingleDispatch` alone is not inductive: that `processMainQueue` is among the callbacks once, when
it should be, needs that a running task is still in the queue and the queue empty while the loader
works (`TaskQueued`), that an await waits for no more callbacks than there are (`Waiting`), and
where `restoreToSlot` returns to (`Continues`). That rounds keep their types needs that nothing
works on the current round before there is one (`RoundsKnown`).

`NodeProofs` also proves `StoredChainHolds`: with no lost deletion, `Node` implements
`StoredChain`, with its table read by height as the abstract chain. `TableChanges` finds the three
actions that touch the table; `[]IInv` makes each of them a step of the abstract specification,
and `HeightsDense` relates the heights of the rows to their number.

`ChainProofs` proves, for every set of blocks, schedule and sequence of forks, rollbacks,
synchronizations, failing statements and crashes, with a node that forges and rounds that end while
tasks wait:

- `ObserverInvariant`: `RacelessSpec => [](Settled /\ ObserverInv)`;
- `ChainLinkedHolds`, `SlotsIncreaseHolds`, `FlagsMatchChainHolds`, `RoundsReproducibleHolds`,
  `LoadableHolds` and `UndoFindsSlotHolds`, from it.

`RacelessSpec` excludes three single steps, a lost deletion, a late forging and the end of a round
under a block that is being saved (section 4), and nothing else: the theorems say what holds in any
behaviour of the code up to the first such step. They do not say that it does not happen; the code
does not prevent it, and sections 4 and 7 show what becomes false then.

The argument. None of the six is inductive alone. That a block about to be undone has a slot in the
restored round needs that every block of the chain lies in its generator's slot of one of the rounds
(`Fits`). That this survives a change of rounds needs that each round is the one generated on the
last block before it (`BasedOn`), that rounds do not overlap (`Ascending`, `Gapless`) and that slots
rise (`Rising`): a round that `backwardProcess` takes away then has no block in the chain, so that
neither a slot nor a flag (`Flagged`) is lost with it, and `forwardProcess` adds the round that
follows. For a received block, `Forges` is what `verifyBlockSlot` has established, and it must last
through the await of the insertion (`TaskInv`), during which the rounds stay what they are; for a
forged one that is not late it holds as well. A round that ends while a deletion or a peer is
awaited is generated from the last block, which still is the last one (`RowsInv` says that memory
and table differ by the block under way only). After a crash rounds and flags are gone and only rows
are left. The loader has them back block by block, so its invariant (`LoaderInv`) speaks of a chain
`w` that is exactly what is stored, and of rounds `q` that `w` fits into: the loader's chain is the
beginning of `w`, its current round has the slots of one in `q`, and the round it looks for exists.
Rounds above genesis begin where `getFirstSlotNumberInRound` puts them, for any slot in them
(`FirstSlots`), so that the loader's first round, counted from the slot of block 2, is the one the
node had.

`ChainProofs` also proves `LedgerExactHolds` of `RacelessSpec`: what the delegates have been paid is
a function of the chain, although `processReward` computes what it takes back anew, from whatever
the chain and the flags are then. The invariant (`LedgerInv`) says that the ledger is the sum of the
rewards of all rounds but the current one, at every point of every task. A round's payment counts
blocks down from the last one (`getMany`); that these are the blocks of the round, when it is paid
and also when it is taken back, needs that the flags count them (`Flagged`), that each block has a
slot of its own (`Rising`), and that the heights known to memory are those of its chain
(`HeightsInv`).

`GatewayProofs` proves `AccountedHolds`, `NoOvertakingHolds` and `WithdrawnNotExecutedHolds` for
every set of wallets and requests and every limit. The invariant: each request in the queue, on
its way or answered is in one of these places only (`PlacesOK`), timers run for exactly what waits
for the core (`TimersOK`), what has left the queue does not return (`EmittedOK`), and a message is
in the buffer, on the wire or executed, in the buffer only while the connection is down, and
without its request once that has timed out there (`WireOK`).

`SyncLoopProofs` proves `KnowsTheirChainHolds` for every window, tree of forks and sequence of
moves. The property speaks of peers whose updates have arrived; its invariant speaks of all: from
the last block known of a peer, the updates on the wire lead step by step, from parent to child or
back, to the peer's last block (`WayInv`), and the ids known are those at a stretch of heights, all
on the chain of the last block, or, after a rollback through all of them, above it (`KnownInv`). The
same holds of the ids a peer keeps of itself, which it sends when it connects again.

`PeersProofs` proves `ListsAgreeHolds`, `BannedSilencedHolds`, `NoLeakHolds`, `LiveSharedHolds` and
`NotItselfHolds` for every number of nodes and sockets and every plan of calls. The operators of
`Peers` lead from one state of the network to the next, so the invariant `Consistent` is stated of
such a state, and a lemma for each operator says that it keeps it: headers that wait to be handled
belong to the ends of their socket (`Announced`), both repositories list the same peers and each
listener is on the connection the peer is listed with (`Agreed`), and the entry of a banned address
has its flag (`Silenced`). `BannedSilenced` follows from the two: a listener that a message of a
banned peer reaches belongs to that peer's entry, and looks at its flag before it passes on a
transaction or a block (`Heard`). `LiveSharedHolds` is about connections that are alive once nothing
is on its way: both nodes know each other by the same socket. It does not say that one stays alive;
after a mutual connect both may be given up (section 7).

The last three are about quiet moments, and follow from an invariant of every moment (`Hand`): for
each socket, `Handshake` says how the messages on its way in both directions, its connected ends,
its listeners and the headers that wait to be handled go together. The client asks for a connection
once and the server confirms it once (`Asked`, `Confirmed`); who has closed an end is not connected
any more and a broken socket is noticed at both ends (`Closed`, `Noticed`); no end stays connected
alone, without news of it on its way (`Paired`); and an end that is connected without a listener
still waits for headers, or for the other end to handle its own (`Greeted`). A callback that has
taken headers off its queue holds them in its hands until it has entered or refused their socket:
the invariant has them as a parameter, which lets one lemma speak of each operator of `Peers`.
`Tracked` says that everyone named in what `pickNewPeers` and `stepReconnect` remember is a node.
With empty wires and queues nothing is left but sockets closed at both ends and sockets by which both
nodes know each other.

`TxPoolProofs` proves `ConfirmedOnceHolds` and `NothingForgottenHolds` for every genesis ledger, set
of transactions, limit of a block and plan, with all failures and forks of `TxPool`. The invariant
is `PoolInv`:

- `PoolOK`: no transaction is twice in the pool, none of the pool is stored as confirmed, and the
  queue and the two indexes hold copies of transactions;
- `ChainIs`: no transaction is twice in the chain, and the stored ids are those of its blocks;
- `FlightIs`: a block that is being saved has been taken out of the pool, is not confirmed yet,
  and the queue is locked, so that the timers and the wallets cannot bring one of its transactions
  back into the pool during the await.

A received block holds any set of transactions. What keeps a confirmed one out of it is
`verifyUnconfirmed`, which looks the id up, and what keeps its transactions out of the pool is
`batchRemove`: `BatchTakes` shows that taking out everything filed under each sender takes out the
transactions themselves. A generated block is not verified; that it is new follows from the pool it
was popped from (`PopGoes`). What comes back after a failure was in neither.

`NothingForgotten` follows from the same invariant. What a node holds is what waits in queue, pool
and conflicted queue and what the running task carries (`Holding`), and a lemma for each operation
says what enters and what leaves the memory with it: `PoolPush` and `QueuePush` take one
transaction in (`Takes`), `PoolRemove` loses the one it is given (`Loses`), what `batchRemove`
loses is among what it hands out (`Carries`), and what is given back to queue and pool is there
afterwards (`Gains`). A step then keeps what is held (`Keeps`), but for a transaction that is
verified and refused, and for a block whose generation throws (`Kept`).

Nearly every operation is a loop over a sequence, a fold in the model, and sorting is one too
(`Sorted` inserts one transaction after the other). The provers have no induction over sequences
whose predicate they could be given. `SequenceLemmas` therefore has the operation of a fold and what
is claimed of it as its parameters, proves once that a claim which holds of the first value and is
kept by each step holds of the result (`FoldHolds`), and `TxPoolProofs` instantiates it once for
each fold: `PoolPush`, `QueuePush`, `ApplyConfirmed` and so on get a lemma about one transaction,
and `FoldHolds` carries it to all.

Assumptions, all evaluated by TLC in every run of their modules: `ScheduleAssumption` and
`NodeAssumption` (ids are unique, only genesis has height 1, a schedule names each delegate once,
slots are not within the first round after the epoch, where `getFirstSlotNumberInRound` would not
end), `LimitsAssumption` (the limits of `Storage` are positive), `RequestsAssumption` and
`LimitAssumption` (ids of requests are unique, the limit is positive), `SyncAssumption` (the
window is positive and peers start on blocks of the forks), `SocketsAssumption` and
`PlansAssumption` (the trusted peers of a plan are peers of it), `TrsAssumption` (the transactions
are of the six types and their senders are accounts) and `PoolAssumption` (nothing is confirmed in
the genesis ledger, and budgets name transactions that there are). `[][~DeleteLost]_vars` and
`RacelessSpec` are not assumptions on constants: they restrict the behaviours a theorem speaks
of, `DbFails` may be anything, and section 7 shows what happens after the steps they leave out.

## 6. What is only model-checked

- Liveness, and everything with fairness, which the prover does not handle.
- What the pool does to the accounts: `LedgerExact`, `Conserved`, `Solvent`, `ForgedBlockValid` and
  `VerdictIndependent` of `TxPool`. They need that undoing inverts applying
  for each type, in an order that only the pool's history determines, and what `SelectSeq` makes of
  the stakes, which is defined by recursion inside and has no facts in the library.
- `SameConnection` of `Peers`. That two nodes with a live connection agree on the socket is
  `LiveSharedHolds`; that undisturbed handshakes leave a dead entry only for a client socket which the
  other node has closed needs an invariant that follows several sockets of the same two nodes at once.
- The byte formats: their readers and writers are recursive.

## 7. Findings and observations

With a run: `reward_race`. A round that ends during `batchSave` (`core/service/block.ts:467`) is paid
without the block that is being saved (`core/service/round.ts:122`), which then marks a slot of the
next round: its forger is neither paid for it nor spared the missed block.
`test/lab/test/roundReward/undoProcessReward.test.ts:71-73` expects that whoever forged in the round
gets the reward.

The rest was met while modelling and shapes how the properties are stated. These have no run of
their own: the models contain the behaviour, or leave it out where it says so.

Blocks and rounds:

- `core/controller/block.ts:59` ignores a failed deletion and saves the competing block on top of
  the one that should go; then two blocks of one height are in the chain, against
  `docs/core/block/verification.md:33,37`. Hence `StoredLinear` with deletions that succeed.
- `core/service/block.ts:104`: a block is forged for a slot of a past round, because the event was
  put aside during a synchronization and `generateBlock` does not verify;
  `verification.md:25` requires the generator's slot in the current round.
- `restoreToSlot` (`core/service/round.ts:220`) does not end when the slot lies before the first
  round, for instance when a node that has a round and only the genesis block synchronizes
  (`sync.ts:79` asks for slot 0). Its own error branches mean to stop.
- After `backwardProcess` no timer is set until the next round or synchronization.
- The early return of `startSyncBlocks` leaves events put aside in `EventsQueue`.

Transactions (`core/service/...`):

- A received block takes transactions out of the pool in the order of the lists, which undoes a
  vote before the later down vote that rests on it (`transactionPool.ts:58`); the vote stays with
  the account.
- REGISTER replaces the account object (`core/repository/account.ts:16`), and with it what a
  transaction that came in between had paid to the address, although
  `docs/core/transaction/asset/referral.md:11` asks for an account without a balance; two REGISTERs
  of which one refers to the other's account spoil the referrals.
- `deleteLastBlock` (`block.ts:608`) does not verify the pool again: until the next block is
  received, or a synchronization empties the pool, transactions may stand on money that is gone
  (`unverified`), and a block forged from them is refused by others;
  `docs/core/transaction/processing.md:9` describes a pool of verified transactions.
- It also undoes the block's votes under a later vote of the same account that is still applied
  from the pool. `undoFrozeOrdersRewardAndUnstake` (`core/util/reward.ts:196`) and `vote.ts:275`
  then find no stake with the matching `nextVoteMilestone`, and `voteCount`,
  `previousMilestones` and `isActive` keep the undone votes even after the pool has been applied
  anew; the node judges later votes differently from others. Budgets with votes that are both
  deleted and pending are left out for this reason, and so are those with a registration of a
  delegate and a vote for it. A pool with both, to which a block with only the registration comes,
  gives back the registration first; undoing the vote then throws, which is only logged, and what
  the vote had earned stays. `undoUnconfirmed` of the registration also resets the votes that are
  counted for the delegate.
- A vote in the pool for a delegate whose registration was in a deleted block makes the next
  `generateBlock` throw (`transaction/vote.ts:222`) after it has popped the pool: block and popped
  transactions are forgotten, what was applied stays applied, and the queue stays locked until the
  next block is received (`ForgeThrows` in `Node`). `Conserved` and `LedgerExact` do not hold from
  there on.
- Whether a received block is accepted may depend on names in the pool. With a registration of the
  name n by C in the pool, a valid block in which A registers n is refused: `batchRemove`
  (`transactionPool.ts:58`) takes out what belongs to A, and `isUserNameExists`
  (`core/repository/delegate.ts`) still sees the pending name. A vote for a delegate who is only
  pending is accepted by this node and refused by others.
- A payment that, with its fee, takes all an account has is refused (`send.ts:49` compares with
  `>=`), which `docs/core/transaction/asset/send.md:34` allows.
- The `setTimeout` branch of `TransactionQueue.process` cannot be reached; the virtual undo
  (`senderOnly`) is never called, since `checkSenderTransactions` is commented out.

Peers and synchronization:

- `shared/model/Peer/networkPeer.ts:41`: a connection lost before its `disconnect` listener is
  attached leaves an entry until a ping times out; `test/lab/test/peer/remove.test.ts:63`
  expects a disconnected peer to be gone. `PingsClean` says that the pings do find it.
- A node that was told its own address may keep itself in its lists (never connected, which is
  `NotItselfHolds`) until a ping fails: when a REMOVE_PEER of an earlier connection, or a close, is
  handled between the HEADERS of the two ends, the second end finds no entry to compare its id with
  (`core/service/peer.ts:50`). Two discoveries or one lost socket are enough.
- Two nodes that connect to each other at once may end apart, with nothing lost. b answers the
  headers on socket 2, decides for socket 1 and closes 2; when a gets headers and close of 2 before
  the callback of its HEADERS_RECEIVE, its socket 2 has no id any more. An undefined id sorts as
  equal, the new socket stays first, and a gives up socket 1, which is alive, for a dead entry
  (`core/service/peer.ts:50,57-62`) that stays until a ping. The lists still have one peer each, which
  is all `test/lab/test/peer/init.test.ts:35-36` looks at, on one of the nodes.
- A ping that times out removes the peer by its address (`core/service/peer.ts:160`), also when the
  peer has connected again since and the new connection is healthy.
- `clearBanList` empties the list while the peers keep their flag: they stay silent until they
  reconnect. Banned peers are silent in transactions and blocks only: PEER_HEADERS_UPDATE
  (`shared/model/Peer/networkPeer.ts:148`) and requests (`:157-182`) pass.
- With more connections than `MAX_PEERS_CONNECT_TO`, discovery slices with a negative limit
  (`core/controller/peer.ts:36`) and connects to all new peers but the last ones.
- A node stays behind when its loop ends with `ERROR_NO_WORTHY_PEERS` (`core/controller/sync.ts:83`)
  because no peer with a higher block is left to ask; `docs/core/transaction/processing.md:35`
  says that it gets back on board. When a peer does not have the node's last block, the peer that
  sent it is banned (`core/service/sync.ts:150-185`, `core/controller/sync.ts:110`), also if it is
  the answering one that lags. An empty answer to `requestBlocks` counts as success and is
  asked again without delay.
- When a peer goes back below all the ids known of it, `update` finds no id at its new height and
  clears none (`shared/model/Peer/memoryPeer.ts:43-48`): ids of its former fork stay above its last
  block and count in `checkBlockConsensus` until the peer climbs to one of their heights, they leave
  the window. Connecting again does not help: the peer sends the ids it keeps of itself, and
  `SystemRepository.addBlockIdInPool` (`core/repository/system.ts:37-53`) leaves the same ones above;
  only a restart of the peer does. With `MAX_PEER_BLOCKS_IDS = 100` this takes a rollback of
  100 blocks, or one soon after the peer connected with fewer ids. `KnowsTheirChain` says what is
  true in every case.

Storage and messages:

- `getById`, `getLastBlock` and `getGenesisBlock` of `core/repository/block/pg.ts:91,101,111`
  index a response object with `[0]`, and `BlockRepository.getById` a `Map` with `[id]`
  (`core/repository/block/index.ts:72`): all are `undefined`. Nothing in the models' scope calls
  them for a decision.
- An answer read while a block is deleted between the two statements carries a block without its
  transactions (`torn`).
- Deleting `MEMORY_BLOCKS_LIMIT` blocks below the peak leaves memory empty, and `getLast()` null:
  memory is filled again only at start-up. Hence the premise of `LastBlockIsKnown`.
- A number out of range or a text of more than 65535 bytes makes `create` return `undefined`, and
  the message is lost; a 64-bit number that is too large is cut and sent as another one
  (`models/number64.ts:48-54`, `models/uint64.ts:42-48`). Negative or fractional `Number64` values
  come out wrong. The genesis block's `previousBlockId` arrives as `''`, and transactions in blocks
  lose `relay`.

Wallet API:

- A request that timed out while the core was connected is still executed; a wallet that sends it
  again under a new id may pay twice. `WithdrawnNotExecuted` is about requests that had not left.
- Ids are chosen by wallets: a shared one overwrites the entry of the other. The model assumes
  uuids.
- A rejected query is never answered (`api/server.ts:12` only logs it).
- `getRounds` and `getRound` of the core put a promise into the body
  (`core/api/controller/round.ts:35,41`), which arrives as `{}`; `transactionCreate` returns
  `undefined` when the creation fails (`core/controller/transaction.ts:60-80`); `GET_BLOCK` of an
  unknown id answers success with `null`, where `docs/api/block.md:69` shows errors.
- `setInterval(this.updateTransactionsCount)` (`api/repository/transaction/index.ts:26`) is not
  bound. `RoundRepository.getMany` calls `slice(offset, limit)`. Events go to the process that
  connected last.

Referred users (read, not modelled): `AirdropHistoryStorage.remove` drops all entries of one
second; the undo of REGISTER leaves the node among the children of its parent.

## 8. Not modelled

- The composition of the views: blocks have a verdict in `Node` and content in `TxPool`, the
  synchronization has tasks in `Node` and peers in `SyncLoop`. The product is out of TLC's reach.
- Of transactions: signatures and hashes as data (right or wrong as a whole), the time to live,
  slots in the future, heights at which features begin, histories and events;
  `SwapTransactionQueue`, which only throttles relaying.
- Of peers: relaying of blocks, refusal of versions, of the black list and of more peers than
  `MAX_PEERS_CONNECTED`, `removeAll`.
- Of the API: what the methods compute, the counter of transactions; timers (10 s) and ticks (1 s)
  are not related in time.
- Of messages: types no schema uses (`Int8` to `Int32`, `Double`, `Set`); map keys are assumed
  different.
- Approval percentages of delegates, and the ranking by votes (the constant `Schedule`).
- Referred users and airdrop history: an optional index for wallets that nothing in the ledger
  reads. Histories: observers that write nothing back. `FailService`'s tables: blocks of one
  network for which checks are skipped. Cryptography, z-schema checks, migrations, configuration
  and the genesis generator: pure functions, data, or tools that run before the node.
