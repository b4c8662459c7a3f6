-------------------------------- MODULE Node --------------------------------
(***************************************************************************)
(* The block chain and the forging rounds of ONE node, as its single       *)
(* JavaScript thread drives them:                                          *)
(*                                                                         *)
(*  - the dispatcher (core/controller/index.ts, shared/util/bus.ts): the   *)
(*    queue of MAIN tasks, the ON events run by setImmediate, the events   *)
(*    put aside during synchronization, the timers;                        *)
(*  - receiving, forging and deleting blocks (core/controller/block.ts,    *)
(*    core/service/block.ts) on the memory chain and the block table;      *)
(*  - rounds and rewards (core/service/round.ts, core/controller/round.ts);*)
(*  - the synchronization task (core/controller/sync.ts), with the peers   *)
(*    as an environment that may answer anything an honest peer may answer;*)
(*  - a crash of the process and the warm-up from the database             *)
(*    (core/loader.ts).                                                    *)
(*                                                                         *)
(* Between two awaits a handler runs without interruption.  pc names the   *)
(* point the running MAIN task has reached; at a point in AwaitPoints the  *)
(* thread is free for timers, messages and ON events, at every other point *)
(* only the task itself can continue.                                      *)
(***************************************************************************)
EXTENDS Rounds

CONSTANTS
  Blocks,     \* all blocks that are considered, as records
  Genesis,    \* the first block
  NoBlock,    \* stands for the absence of a block
  Me,         \* the public key this node forges with
  Consensus,  \* the values getMyConsensus may return: a subset of BOOLEAN
  DbFails,    \* the statements that may fail: a subset of DbStatements
  Skew,       \* how many slots ahead of the own clock a peer's block may be
  StartSlot,  \* the slot in which the node is first started
  MaxSlot,    \* bound: the clock stops there
  MaxQueue,   \* bound: no block arrives when so many tasks are waiting
  MaxCrashes  \* bound: how often the process may die

DbStatements == {"insert", "delete"}

ASSUME NodeAssumption ==
  /\ Genesis \in Blocks /\ NoBlock \notin Blocks
  /\ \A b \in Blocks :
       /\ b.id \in BlockIds /\ b.height \in Nat \ {0} /\ b.slot \in Nat
       /\ b.createdAt \in Nat
       /\ b.generator \in Delegates /\ b.fee \in Nat
       /\ b.height = 1 <=> b = Genesis
       /\ b.id # Genesis.previousBlockId
       \* getFirstSlotNumberInRound would count down forever
       /\ b = Genesis \/ \A id \in BlockIds : b.slot >= Len(Schedule[id]) - 1
  /\ \A a, b \in Blocks : a.id = b.id => a = b
  \* a block lies in the slot of its createdAt
  /\ \A a, b \in Blocks : a.slot < b.slot => a.createdAt < b.createdAt
  /\ \A id \in BlockIds : StartSlot >= Len(Schedule[id]) - 1
  /\ Consensus \in SUBSET BOOLEAN \ {{}}
  /\ DbFails \subseteq DbStatements
  /\ {Skew, StartSlot, MaxSlot, MaxQueue, MaxCrashes} \subseteq Nat

VARIABLES
  \* BlockRepository (memory) and the block table of the database
  chain,     \* memoryBlocks, oldest first
  byHeight,  \* memoryBlocksByHeight
  db,        \* the rows of the table block
  mine,      \* the blocks of this node that its peers have seen
  \* RoundRepository, and what rounds have paid to each delegate
  rounds,
  ledger,
  \* System.synchronization, the lock of the TransactionQueue, the clock
  sync,
  locked,
  now,
  \* the timers of bus.ts and of the loader; 0 when not set
  genTimer,  \* slot for which BLOCK_GENERATE is scheduled
  finTimer,  \* slot at whose start ROUND_FINISH is scheduled
  syncTimer, \* TRUE while the first EMIT_SYNC_BLOCKS is scheduled
  \* the dispatcher
  mainQ,     \* MAIN_QUEUE, its head is the task being processed
  imm,       \* callbacks given to setImmediate
  evq,       \* EventsQueue: events put aside during synchronization
  \* the running task
  pc,        \* where it is
  blk,       \* the block it receives, forges or loads
  stmt,      \* the statement it awaits: "none", "sent", "done", "failed"
  ahead,     \* callbacks in imm that will run before its await can end
  goal,      \* restoreToSlot: the slot to reach
  then,      \* restoreToSlot: where to continue
  lastSync,  \* slot of the last start of a synchronization; 0 before the first
  crashes,
  thrown     \* history: a handler threw and what it held is held since; no
             \* action looks at it

chainVars == <<chain, byHeight, db, mine>>
roundVars == <<rounds, ledger>>
timerVars == <<genTimer, finTimer, syncTimer>>
queueVars == <<mainQ, imm, evq>>
taskVars  == <<pc, blk, stmt, ahead, goal, then>>
miscVars  == <<lastSync, crashes, thrown>>
vars == <<chainVars, roundVars, sync, locked, now, timerVars, queueVars,
          taskVars, miscVars>>

AwaitPoints == {"idle", "deleting", "saving", "syncWait", "syncNet"}
BootPoints  == {"warmUp", "warmRestore", "warmPush"}
TaskPoints  == {"restore", "undoStart", "undo", "restoreReceived",
                "afterRollback", "receive", "syncStart", "syncLoop",
                "syncBlocks", "syncExit", "syncDone"}
Points == AwaitPoints \cup BootPoints \cup TaskPoints \cup {"dead"}

LastBlock    == Last(chain)
CurrentRound == Last(rounds)
AtAwait      == pc \in AwaitPoints
Booting      == pc \in BootPoints \/ (pc = "restore" /\ then = "warmPush")

\* getActiveDelegatesCount for the delegates active after block b
ActiveCount(b) == Len(Schedule[b.id])

-----------------------------------------------------------------------------
(* The dispatcher.                                                         *)

MainTopics == {"BLOCK_RECEIVE", "BLOCK_GENERATE", "EMIT_SYNC_BLOCKS"}
OnTopics   == {"ROUND_FINISH", "WARM_UP_FINISHED"}

\* An event; slot is the timestamp that BLOCK_GENERATE carries.
Event(topic, slot) == [topic |-> topic, slot |-> slot]
Sync == Event("EMIT_SYNC_BLOCKS", 0)

Task == Head(mainQ).topic

\* Mutant: a task is scheduled although another one runs.
MessageON_AlwaysSchedules(e) ==
  IF sync
  THEN evq' = Append(evq, e) /\ UNCHANGED <<mainQ, imm>>
  ELSE /\ evq' = evq
       /\ IF e.topic \in MainTopics
          THEN mainQ' = Append(mainQ, e) /\ imm' = Append(imm, "MAIN")
          ELSE imm' = Append(imm, e.topic) /\ mainQ' = mainQ

\* messageON: what reaches the queues of the dispatcher.
MessageON(e) ==
  IF sync
  THEN evq' = Append(evq, e) /\ UNCHANGED <<mainQ, imm>>
  ELSE /\ evq' = evq
       /\ IF e.topic \in MainTopics
          THEN /\ mainQ' = Append(mainQ, e)
               /\ imm' = IF mainQ = <<>> THEN Append(imm, "MAIN") ELSE imm
          ELSE imm' = Append(imm, e.topic) /\ mainQ' = mainQ

\* The end of processMainQueue.  queue and callbacks are the queues as the
\* handler leaves them.
NextTask(queue, callbacks) ==
  /\ mainQ' = Tail(queue)
  /\ imm' = IF Tail(queue) = <<>> THEN callbacks ELSE Append(callbacks, "MAIN")
  /\ pc' = "idle"
  /\ blk' = NoBlock
  /\ stmt' = "none"
  /\ UNCHANGED <<ahead, goal, then>>

\* The task ends; emitSync: it has emitted EMIT_SYNC_BLOCKS.
FinishTask(callbacks, emitSync) ==
  /\ NextTask(IF emitSync THEN Append(mainQ, Sync) ELSE mainQ, callbacks)
  /\ evq' = evq

\* The handler throws; processMainQueue catches and drops the task.  Neither
\* the queue is unlocked nor a synchronization ended.
AbortTask ==
  /\ FinishTask(imm, FALSE)
  /\ thrown' = TRUE
  /\ UNCHANGED <<sync, locked, lastSync, crashes>>

\* The transaction queue is unlocked: but for a synchronization that was
\* broken off, nothing is held any more.
Released ==
  thrown' = (thrown /\ sync) /\ UNCHANGED <<lastSync, crashes>>

\* The task begins an await: the callbacks already queued will run first.
Await(point, callbacks) == pc' = point /\ ahead' = Len(callbacks)

-----------------------------------------------------------------------------
(* Rounds.                                                                 *)

\* createBlockGenerateTask: in the slot itself the timer is set only within
\* the first half second.
GenTimers(r, old) ==
  IF Me \notin Active(r) \/ now > SlotOf(r, Me)
  THEN {old}
  ELSE {SlotOf(r, Me)} \cup (IF now = SlotOf(r, Me) THEN {old} ELSE {})

\* createBlockGenerateTask and createRoundFinishTask for round r
CreateTasks(r, oldGen) ==
  /\ genTimer' \in GenTimers(r, oldGen)
  /\ finTimer' = LastSlot(r) + 1

\* Mutant: the blocks are counted from one too low.
RewardedBlocks_OffByOne(r) ==
  LET n == Cardinality(r.forged)
  IN  ToSet(GetMany(byHeight, n, LastBlock.height - n - 1))

\* The blocks for which round r pays: as many of the last ones as it has
\* forged slots.
RewardedBlocks(r) ==
  LET n == Cardinality(r.forged)
  IN  ToSet(GetMany(byHeight, n, LastBlock.height - n))

ForwardProcess ==
  LET new == NewRound(LastSlot(CurrentRound) + 1, LastBlock.id)
  IN  /\ ledger' = ProcessReward(ledger, CurrentRound,
                                 RewardedBlocks(CurrentRound), 1)
      /\ rounds' = Append(rounds, new)
      /\ IF sync
         THEN genTimer' = 0 /\ finTimer' = 0
         ELSE CreateTasks(new, 0)

\* Mutant: the last round is not deleted.
BackwardProcess_KeepsRound ==
  /\ genTimer' = 0 /\ finTimer' = 0
  /\ UNCHANGED <<rounds, ledger>>

BackwardProcess ==
  /\ genTimer' = 0 /\ finTimer' = 0
  /\ IF Len(rounds) > 1
     THEN LET prev == rounds[Len(rounds) - 1]
          IN  /\ rounds' = Front(rounds)
              /\ ledger' = ProcessReward(ledger, prev, RewardedBlocks(prev), -1)
     ELSE UNCHANGED <<rounds, ledger>>

\* Mutant: rounds are only restored forwards.
Restore_OnlyForward(slot, point) ==
  IF rounds = <<>> \/ slot <= LastSlot(CurrentRound)
  THEN pc' = point /\ UNCHANGED <<goal, then>>
  ELSE pc' = "restore" /\ goal' = slot /\ then' = point

\* restoreToSlot(slot), then continue at point.
Restore(slot, point) ==
  IF rounds = <<>> \/ InRound(CurrentRound, slot)
  THEN pc' = point /\ UNCHANGED <<goal, then>>
  ELSE pc' = "restore" /\ goal' = slot /\ then' = point

LeaveRestore == pc' = then /\ goal' = 0 /\ then' = "idle"

\* One evaluation of the loop of restoreToSlot.  Rounds follow each other
\* without a gap, so the direction chosen before the loop stays the right one
\* and the slot is not stepped over: of the three error branches only "last
\* block is in current round" is ever taken.
RestoreStep ==
  /\ pc = "restore"
  /\ \/ /\ InRound(CurrentRound, goal)
        /\ LeaveRestore
        /\ UNCHANGED <<roundVars, timerVars>>
     \/ /\ goal > LastSlot(CurrentRound)
        /\ ForwardProcess
        /\ UNCHANGED <<syncTimer, pc, goal, then>>
     \/ /\ goal < CurrentRound.first
        /\ IF InRound(CurrentRound, LastBlock.slot)
           THEN LeaveRestore /\ UNCHANGED <<roundVars, timerVars>>
           ELSE BackwardProcess /\ UNCHANGED <<syncTimer, pc, goal, then>>
  /\ UNCHANGED <<chainVars, sync, locked, now, queueVars, blk, stmt, ahead,
                 miscVars>>

-----------------------------------------------------------------------------
(* ON events.                                                              *)

RunCallback(name) ==
  /\ AtAwait
  /\ imm # <<>> /\ Head(imm) = name
  /\ imm' = Tail(imm)
  /\ ahead' = IF ahead > 0 THEN ahead - 1 ELSE 0

RoundFinish ==
  /\ RunCallback("ROUND_FINISH")
  /\ ForwardProcess
  /\ UNCHANGED <<chainVars, sync, locked, now, syncTimer, mainQ, evq,
                 pc, blk, stmt, goal, then, miscVars>>

\* RoundService.restore
WarmUpFinished ==
  /\ RunCallback("WARM_UP_FINISHED")
  /\ LET r == IF rounds = <<>>
              THEN NewRound(FirstSlotInRound(now, ActiveCount(LastBlock)),
                            LastBlock.id)
              ELSE CurrentRound
     IN  /\ rounds' = IF rounds = <<>> THEN <<r>> ELSE rounds
         /\ CreateTasks(r, genTimer)
  /\ UNCHANGED <<chainVars, ledger, sync, locked, now, syncTimer, mainQ, evq,
                 pc, blk, stmt, goal, then, miscVars>>

-----------------------------------------------------------------------------
(* The checks on a block from a peer.                                      *)

IsNext(last, b) ==
  /\ b.height = last.height + 1
  /\ b.previousBlockId = last.id

IsReplacement(last, b, consensus) ==
  /\ b.height = last.height
  /\ b.createdAt > last.createdAt
  /\ ~consensus
  /\ b.previousBlockId = last.previousBlockId

\* validateReceivedBlock refuses a block that is too high without consensus:
\* the node has to synchronize.
NotClose(last, b) == b.height > last.height /\ ~IsNext(last, b)

\* Mutant: the slot of the last block is accepted again.
VerifyBlock_SameSlot(b, r) ==
  /\ b.slot <= now + ActiveCount(LastBlock) - 1
  /\ b.slot >= LastBlock.slot
  /\ b.generator \in Active(r)
  /\ b.slot = SlotOf(r, b.generator)

\* Mutant: whose slot it is is not checked.
VerifyBlock_AnyDelegate(b, r) ==
  /\ b.slot <= now + ActiveCount(LastBlock) - 1
  /\ b.slot > LastBlock.slot
  /\ InRound(r, b.slot)

\* verifyBlock and verifyBlockSlot, as far as they do not concern the content
\* of the block, with round r the current one.
VerifyBlock(b, r) ==
  /\ b.slot <= now + ActiveCount(LastBlock) - 1
  /\ b.slot > LastBlock.slot
  /\ b.generator \in Active(r)
  /\ b.slot = SlotOf(r, b.generator)

Has(id) == \E i \in DOMAIN chain : chain[i].id = id

\* What peers may send: blocks of delegates whose clocks are at most Skew
\* ahead; of the own blocks only those that were broadcast.
Delivered == {b \in Blocks \ {Genesis} :
                /\ b.slot <= now + Skew
                /\ b.generator = Me => b \in mine}

-----------------------------------------------------------------------------
(* MAIN tasks begin.                                                       *)

TaskBegins(topic) ==
  /\ pc = "idle"
  /\ imm # <<>> /\ Head(imm) = "MAIN"
  /\ Task = topic

\* onReceiveBlock: the block is refused at once.
RefuseBlock ==
  /\ TaskBegins("BLOCK_RECEIVE")
  /\ \E b \in Delivered, consensus \in Consensus :
       /\ \/ b.id = LastBlock.id
          \/ ~IsNext(LastBlock, b) /\ ~IsReplacement(LastBlock, b, consensus)
       /\ FinishTask(Tail(imm), NotClose(LastBlock, b) /\ ~consensus)
  /\ UNCHANGED <<chainVars, roundVars, sync, locked, now, timerVars, miscVars>>

\* onReceiveBlock: the block follows the last one.
AcceptNext ==
  /\ TaskBegins("BLOCK_RECEIVE")
  /\ \E b \in Delivered :
       /\ b.id # LastBlock.id /\ IsNext(LastBlock, b)
       /\ blk' = b
  /\ imm' = Tail(imm)
  /\ pc' = "restoreReceived"
  /\ UNCHANGED <<chainVars, roundVars, sync, locked, now, timerVars, mainQ,
                 evq, stmt, ahead, goal, then, miscVars>>

\* Mutant: the competing block comes on top of the last one.
AcceptReplacement_KeepsLast ==
  /\ TaskBegins("BLOCK_RECEIVE")
  /\ \E b \in Delivered, consensus \in Consensus :
       /\ b.id # LastBlock.id /\ IsReplacement(LastBlock, b, consensus)
       /\ blk' = b
  /\ imm' = Tail(imm)
  /\ pc' = "restoreReceived"
  /\ UNCHANGED <<chainVars, roundVars, sync, locked, now, timerVars, mainQ,
                 evq, stmt, ahead, goal, then, miscVars>>

\* Mutant: neither the age nor the predecessor of the block is looked at.
AcceptReplacement_SameHeight ==
  /\ TaskBegins("BLOCK_RECEIVE")
  /\ \E b \in Delivered :
       b.id # LastBlock.id /\ b.height = LastBlock.height /\ blk' = b
  /\ imm' = Tail(imm)
  /\ Restore(LastBlock.slot, "undoStart")
  /\ UNCHANGED <<chainVars, roundVars, sync, locked, now, timerVars, mainQ,
                 evq, stmt, ahead, miscVars>>

\* onReceiveBlock: the block competes with the last one, which goes first.
AcceptReplacement ==
  /\ TaskBegins("BLOCK_RECEIVE")
  /\ \E b \in Delivered, consensus \in Consensus :
       /\ b.id # LastBlock.id /\ IsReplacement(LastBlock, b, consensus)
       /\ blk' = b
  /\ imm' = Tail(imm)
  /\ Restore(LastBlock.slot, "undoStart")
  /\ UNCHANGED <<chainVars, roundVars, sync, locked, now, timerVars, mainQ,
                 evq, stmt, ahead, miscVars>>

\* generateBlock without consensus
SkipForging ==
  /\ TaskBegins("BLOCK_GENERATE")
  /\ FALSE \in Consensus
  /\ FinishTask(Tail(imm), TRUE)
  /\ UNCHANGED <<chainVars, roundVars, sync, locked, now, timerVars, miscVars>>

\* The blocks this node can forge now: they get the timestamp of the event.
Forgeable == {b \in Blocks : /\ IsNext(LastBlock, b)
                             /\ b.generator = Me
                             /\ b.slot = Head(mainQ).slot
                             /\ ~Has(b.id)}

\* generateBlock: the new block is not verified.
Forge ==
  /\ TaskBegins("BLOCK_GENERATE")
  /\ TRUE \in Consensus
  /\ \E b \in Forgeable : blk' = b
  /\ locked' = TRUE
  /\ stmt' = "sent"
  /\ imm' = Tail(imm)
  /\ Await("saving", Tail(imm))
  /\ UNCHANGED <<chainVars, roundVars, sync, now, timerVars, mainQ, evq, goal,
                 then, miscVars>>

\* process fails: the block exists already (or lies outside of Blocks).
ForgeFails ==
  /\ TaskBegins("BLOCK_GENERATE")
  /\ TRUE \in Consensus
  /\ Forgeable = {}
  /\ locked' = FALSE /\ Released
  /\ FinishTask(Tail(imm), FALSE)
  /\ UNCHANGED <<chainVars, roundVars, sync, now, timerVars>>

\* A pooled vote for a delegate that is not registered any more makes
\* applyUnconfirmed throw before the block is complete: generateBlock does not
\* come to unlock the queue.
ForgeThrows ==
  /\ TaskBegins("BLOCK_GENERATE")
  /\ TRUE \in Consensus
  /\ locked' = TRUE /\ thrown' = TRUE
  /\ FinishTask(Tail(imm), FALSE)
  /\ UNCHANGED <<chainVars, roundVars, sync, now, timerVars, lastSync, crashes>>

\* startSyncBlocks; it first waits when the last synchronization is recent.
StartSync ==
  /\ TaskBegins("EMIT_SYNC_BLOCKS")
  /\ sync' = TRUE
  /\ imm' = Tail(imm)
  /\ \/ /\ lastSync # 0 /\ now <= lastSync + 1
        /\ Await("syncWait", Tail(imm))
        /\ UNCHANGED lastSync
     \/ /\ lastSync = 0 \/ now > lastSync
        /\ pc' = "syncStart" /\ lastSync' = now
        /\ UNCHANGED ahead
  /\ UNCHANGED <<chainVars, roundVars, locked, now, timerVars, mainQ, evq, blk,
                 stmt, goal, then, crashes, thrown>>

-----------------------------------------------------------------------------
(* deleteLastBlock.                                                        *)

\* The genesis block stays; the caller ignores (onReceiveBlock) or logs
\* (rollback) a failure.
AfterFailedDelete ==
  pc' = IF blk # NoBlock THEN "restoreReceived" ELSE "syncLoop"

\* Mutant: the row stays in the database.
SendDelete_OnlyMemory ==
  /\ pc = "undoStart"
  /\ IF LastBlock.height = 1
     THEN AfterFailedDelete /\ UNCHANGED <<goal, then>>
     ELSE Restore(LastBlock.slot, "undo")
  /\ UNCHANGED <<chainVars, roundVars, sync, locked, now, timerVars, queueVars,
                 blk, stmt, ahead, miscVars>>

SendDelete ==
  /\ pc = "undoStart"
  /\ IF LastBlock.height = 1
     THEN AfterFailedDelete /\ UNCHANGED <<stmt, ahead>>
     ELSE Await("deleting", imm) /\ stmt' = "sent"
  /\ UNCHANGED <<chainVars, roundVars, sync, locked, now, timerVars, queueVars,
                 blk, goal, then, miscVars>>

DbDelete ==
  /\ pc = "deleting" /\ stmt = "sent"
  /\ \/ LastBlock \in db /\ db' = db \ {LastBlock} /\ stmt' = "done"
     \/ /\ LastBlock \notin db \/ "delete" \in DbFails
        /\ db' = db /\ stmt' = "failed"
  /\ UNCHANGED <<chain, byHeight, mine, roundVars, sync, locked, now, timerVars,
                 queueVars, pc, blk, ahead, goal, then, miscVars>>

DeleteAnswered ==
  /\ pc = "deleting" /\ stmt \in {"done", "failed"} /\ ahead = 0
  /\ stmt' = "none"
  /\ IF stmt = "failed"
     THEN AfterFailedDelete /\ UNCHANGED <<goal, then>>
     ELSE Restore(LastBlock.slot, "undo")
  /\ UNCHANGED <<chainVars, roundVars, sync, locked, now, timerVars, queueVars,
                 blk, ahead, miscVars>>

\* Mutant: the last block can still be found by its height.
Pop_KeepsHeight == chain' = Front(chain) /\ byHeight' = byHeight

\* BlockStorageService.popLast
Pop ==
  /\ chain' = Front(chain)
  /\ byHeight' = [h \in DOMAIN byHeight \ {LastBlock.height} |-> byHeight[h]]

Undo ==
  /\ pc = "undo"
  /\ IF LastBlock.generator \in Active(CurrentRound)
     THEN /\ rounds' = [rounds EXCEPT
                         ![Len(rounds)].forged = @ \ {LastBlock.generator}]
          /\ Pop
          /\ pc' = IF blk # NoBlock THEN "restoreReceived" ELSE "afterRollback"
          /\ UNCHANGED <<sync, locked, queueVars, blk, stmt, ahead, goal, then,
                         miscVars>>
     \* slots[generatorPublicKey] is undefined: TypeError
     ELSE AbortTask /\ UNCHANGED <<rounds, chain, byHeight>>
  /\ UNCHANGED <<db, mine, ledger, now, timerVars>>

\* The rest of SyncService.rollback
AfterRollback ==
  /\ pc = "afterRollback"
  /\ IF LastBlock.height # 1
     THEN Restore(LastBlock.slot, "syncLoop")
     ELSE pc' = "syncLoop" /\ UNCHANGED <<goal, then>>
  /\ UNCHANGED <<chainVars, roundVars, sync, locked, now, timerVars, queueVars,
                 blk, stmt, ahead, miscVars>>

-----------------------------------------------------------------------------
(* receiveBlock, process and applyBlock.                                   *)

RestoreReceived ==
  /\ pc = "restoreReceived"
  /\ Restore(blk.slot, "receive")
  /\ UNCHANGED <<chainVars, roundVars, sync, locked, now, timerVars, queueVars,
                 blk, stmt, ahead, miscVars>>

\* Mutant: the transaction queue stays locked.
ProcessFailed_KeepsLock ==
  /\ locked' = locked /\ Released
  /\ \/ /\ Task = "BLOCK_RECEIVE"
        /\ \E consensus \in Consensus : FinishTask(imm, ~consensus)
     \/ Task = "BLOCK_GENERATE" /\ FinishTask(imm, FALSE)
     \/ /\ Task = "EMIT_SYNC_BLOCKS"
        /\ pc' = "syncLoop" /\ blk' = NoBlock /\ stmt' = "none"
        /\ UNCHANGED <<queueVars, ahead, goal, then>>

\* process failed: the caller unlocks and gives up, or tries to synchronize.
ProcessFailed ==
  /\ locked' = FALSE /\ Released
  /\ \/ /\ Task = "BLOCK_RECEIVE"
        /\ \E consensus \in Consensus : FinishTask(imm, ~consensus)
     \/ Task = "BLOCK_GENERATE" /\ FinishTask(imm, FALSE)
     \/ /\ Task = "EMIT_SYNC_BLOCKS"
        /\ pc' = "syncLoop" /\ blk' = NoBlock /\ stmt' = "none"
        /\ UNCHANGED <<queueVars, ahead, goal, then>>

\* The first block a node receives creates its first round.
RoundsForBlock ==
  IF rounds = <<>>
  THEN <<NewRound(FirstSlotInRound(blk.slot, ActiveCount(LastBlock)),
                  LastBlock.id)>>
  ELSE rounds

ReceiveFails ==
  /\ pc = "receive"
  /\ rounds' = RoundsForBlock
  \* a transaction may fail its verification even when the header is good
  /\ ProcessFailed
  /\ UNCHANGED <<chainVars, ledger, sync, now, timerVars>>

ReceiveSaves ==
  /\ pc = "receive"
  /\ rounds' = RoundsForBlock
  /\ VerifyBlock(blk, Last(rounds'))
  /\ ~Has(blk.id)
  /\ locked' = TRUE
  /\ stmt' = "sent"
  /\ Await("saving", imm)
  /\ UNCHANGED <<chainVars, ledger, sync, now, timerVars, queueVars, blk, goal,
                 then, miscVars>>

\* The primary key and the reference to the previous block are checked by
\* the database.
DbInsert ==
  /\ pc = "saving" /\ stmt = "sent"
  /\ LET consistent == /\ \A b \in db : b.id # blk.id
                       /\ \E b \in db : b.id = blk.previousBlockId
     IN  \/ consistent /\ db' = db \cup {blk} /\ stmt' = "done"
         \/ /\ ~consistent \/ "insert" \in DbFails
            /\ db' = db /\ stmt' = "failed"
  /\ UNCHANGED <<chain, byHeight, mine, roundVars, sync, locked, now, timerVars,
                 queueVars, pc, blk, ahead, goal, then, miscVars>>

InsertFailed ==
  /\ pc = "saving" /\ stmt = "failed" /\ ahead = 0
  /\ ProcessFailed
  /\ UNCHANGED <<chainVars, roundVars, sync, now, timerVars>>

\* BlockStorageService.push
Push(b) ==
  /\ chain' = Append(chain, b)
  /\ byHeight' = [h \in DOMAIN byHeight \cup {b.height} |->
                    IF h = b.height THEN b ELSE byHeight[h]]

\* Mutant: slots are only marked while the node is not synchronizing.
SetForged_NotInSync(b) ==
  rounds' = IF sync
            THEN rounds
            ELSE [rounds EXCEPT ![Len(rounds)].forged = @ \cup {b.generator}]

SetForged(b) ==
  rounds' = [rounds EXCEPT ![Len(rounds)].forged = @ \cup {b.generator}]

ApplyBlock ==
  /\ pc = "saving" /\ stmt = "done" /\ ahead = 0
  /\ blk.generator \in Active(CurrentRound)
  /\ Push(blk)
  /\ SetForged(blk)
  /\ locked' = FALSE /\ Released
  /\ IF Task = "EMIT_SYNC_BLOCKS"
     THEN /\ pc' = "syncBlocks" /\ blk' = NoBlock /\ stmt' = "none"
          /\ UNCHANGED <<queueVars, ahead, goal, then>>
     ELSE FinishTask(imm, FALSE)
  /\ mine' = IF blk.generator = Me THEN mine \cup {blk} ELSE mine
  /\ UNCHANGED <<db, ledger, sync, now, timerVars>>

\* The block is in the chain when slots[generatorPublicKey] throws.
ApplyThrows ==
  /\ pc = "saving" /\ stmt = "done" /\ ahead = 0
  /\ blk.generator \notin Active(CurrentRound)
  /\ Push(blk)
  /\ AbortTask
  /\ mine' = IF blk.generator = Me THEN mine \cup {blk} ELSE mine
  /\ UNCHANGED <<db, roundVars, now, timerVars>>

-----------------------------------------------------------------------------
(* The synchronization task.                                               *)

SyncWaitEnds ==
  /\ pc = "syncWait" /\ ahead = 0
  /\ now > lastSync
  /\ pc' = "syncStart" /\ lastSync' = now
  /\ UNCHANGED <<chainVars, roundVars, sync, locked, now, timerVars, queueVars,
                 blk, stmt, ahead, goal, then, crashes, thrown>>

\* With consensus there is nothing to do.
SyncNotNeeded ==
  /\ pc = "syncStart"
  /\ TRUE \in Consensus
  /\ sync' = FALSE
  /\ FinishTask(Append(imm, "WARM_UP_FINISHED"), FALSE)
  /\ UNCHANGED <<chainVars, roundVars, locked, now, timerVars, miscVars>>

SyncBegins ==
  /\ pc = "syncStart"
  /\ FALSE \in Consensus
  /\ locked' = TRUE
  /\ Restore(LastBlock.slot, "syncLoop")
  /\ UNCHANGED <<chainVars, roundVars, sync, now, timerVars, queueVars, blk,
                 stmt, ahead, miscVars>>

\* The loop asks a peer (an await), or decides without asking one.
SyncLoop ==
  /\ pc = "syncLoop"
  /\ \/ TRUE \in Consensus /\ pc' = "syncExit" /\ UNCHANGED ahead
     \/ FALSE \in Consensus /\ pc' = "syncNet" /\ ahead' \in {0, Len(imm)}
  /\ UNCHANGED <<chainVars, roundVars, sync, locked, now, timerVars, queueVars,
                 blk, stmt, goal, then, miscVars>>

\* checkCommonBlock and requestBlocks: an error, no peer worth asking, a peer
\* that does not have the last block, or a peer that sends blocks.
PeerAnswers ==
  /\ pc = "syncNet" /\ ahead = 0
  /\ pc' \in {"syncLoop", "syncExit", "undoStart", "syncBlocks"}
  /\ UNCHANGED <<chainVars, roundVars, sync, locked, now, timerVars, queueVars,
                 blk, stmt, ahead, goal, then, miscVars>>

\* saveRequestedBlocks: the next of the blocks.  Peers are taken to answer
\* with blocks whose heights count up from the height asked for, so that none
\* competes with the last block, which validateReceivedBlock would let pass.
SaveRequestedBlock ==
  /\ pc = "syncBlocks"
  /\ \E b \in Delivered :
       /\ IsNext(LastBlock, b)
       /\ blk' = b
  /\ pc' = "restoreReceived"
  /\ UNCHANGED <<chainVars, roundVars, sync, locked, now, timerVars, queueVars,
                 stmt, ahead, goal, then, miscVars>>

\* There is no further block, or it does not follow the last one.
RequestedBlocksEnd ==
  /\ pc = "syncBlocks"
  /\ pc' = "syncLoop"
  /\ UNCHANGED <<chainVars, roundVars, sync, locked, now, timerVars, queueVars,
                 blk, stmt, ahead, goal, then, miscVars>>

SyncExit ==
  /\ pc = "syncExit"
  /\ sync' = FALSE
  /\ Restore(now, "syncDone")
  /\ UNCHANGED <<chainVars, roundVars, locked, now, timerVars, queueVars, blk,
                 stmt, ahead, miscVars>>

\* The events put aside whose topic is among topics, oldest first.
EventsOf(topics) ==
  LET first[i \in 0..Len(evq)] ==
        IF i = 0 THEN <<>>
        ELSE IF evq[i].topic \in topics THEN Append(first[i - 1], evq[i])
        ELSE first[i - 1]
  IN  first[Len(evq)]

\* EventQueue.process emits the events put aside.
SyncDone ==
  /\ pc = "syncDone"
  /\ LET ons == EventsOf(OnTopics)
     IN  NextTask(mainQ \o EventsOf(MainTopics),
                  Append(imm, "WARM_UP_FINISHED")
                    \o [i \in DOMAIN ons |-> ons[i].topic])
  /\ evq' = <<>>
  /\ locked' = FALSE /\ Released
  /\ UNCHANGED <<chainVars, roundVars, sync, now, timerVars>>

-----------------------------------------------------------------------------
(* Timers, messages, the clock.                                            *)

GenTimerFires ==
  /\ AtAwait
  /\ genTimer # 0 /\ now >= genTimer
  /\ MessageON(Event("BLOCK_GENERATE", genTimer))
  /\ genTimer' = 0
  /\ UNCHANGED <<chainVars, roundVars, sync, locked, now, finTimer, syncTimer,
                 taskVars, miscVars>>

FinTimerFires ==
  /\ AtAwait
  /\ finTimer # 0 /\ now >= finTimer
  /\ MessageON(Event("ROUND_FINISH", 0))
  /\ finTimer' = 0
  /\ UNCHANGED <<chainVars, roundVars, sync, locked, now, genTimer, syncTimer,
                 taskVars, miscVars>>

SyncTimerFires ==
  /\ AtAwait
  /\ syncTimer
  /\ MessageON(Sync)
  /\ syncTimer' = FALSE
  /\ UNCHANGED <<chainVars, roundVars, sync, locked, now, genTimer, finTimer,
                 taskVars, miscVars>>

BlockArrives ==
  /\ AtAwait
  /\ Len(mainQ) + Len(evq) < MaxQueue
  /\ MessageON(Event("BLOCK_RECEIVE", 0))
  /\ UNCHANGED <<chainVars, roundVars, sync, locked, now, timerVars, taskVars,
                 miscVars>>

Tick ==
  /\ AtAwait
  /\ now < MaxSlot
  /\ imm = <<>>
  /\ genTimer = 0 \/ genTimer > now
  /\ finTimer = 0 \/ finTimer > now
  /\ now' = now + 1
  /\ UNCHANGED <<chainVars, roundVars, sync, locked, timerVars, queueVars,
                 taskVars, miscVars>>

-----------------------------------------------------------------------------
(* Crash and warm-up.                                                      *)

NoReward == [balance |-> 0, forgedBlocks |-> 0, missedBlocks |-> 0]

Crash ==
  /\ AtAwait
  /\ crashes < MaxCrashes
  /\ crashes' = crashes + 1
  /\ chain' = <<>> /\ byHeight' = <<>>
  /\ rounds' = <<>> /\ ledger' = [d \in Delegates |-> NoReward]
  /\ sync' = TRUE /\ locked' = FALSE
  /\ genTimer' = 0 /\ finTimer' = 0 /\ syncTimer' = FALSE
  /\ mainQ' = <<>> /\ imm' = <<>> /\ evq' = <<>>
  /\ pc' = "warmUp" /\ blk' = NoBlock /\ stmt' = "none" /\ ahead' = 0
  /\ goal' = 0 /\ then' = "idle" /\ lastSync' = 0 /\ thrown' = FALSE
  /\ UNCHANGED <<db, mine, now>>

\* blockWarmUp takes the rows in the order of their heights.
RowsLeft == db \ ToSet(chain)
NextRows == {b \in RowsLeft : \A c \in RowsLeft : b.height <= c.height}

\* The block at height 2 creates the first round.
WarmUp ==
  /\ pc = "warmUp"
  /\ \E b \in NextRows :
       IF b.height = 1
       THEN Push(b) /\ UNCHANGED <<rounds, pc, blk>>
       ELSE /\ blk' = b
            /\ pc' = "warmRestore"
            /\ rounds' = IF b.height = 2
                         THEN Append(rounds,
                                NewRound(FirstSlotInRound(b.slot,
                                           ActiveCount(LastBlock)),
                                         LastBlock.id))
                         ELSE rounds
            /\ UNCHANGED <<chain, byHeight>>
  /\ UNCHANGED <<db, mine, ledger, sync, locked, now, timerVars, queueVars,
                 stmt, ahead, goal, then, miscVars>>

WarmRestore ==
  /\ pc = "warmRestore"
  /\ Restore(blk.slot, "warmPush")
  /\ UNCHANGED <<chainVars, roundVars, sync, locked, now, timerVars, queueVars,
                 blk, stmt, ahead, miscVars>>

\* When slots[generatorPublicKey] is undefined the loader does not survive.
WarmPush ==
  /\ pc = "warmPush"
  /\ Push(blk)
  /\ blk' = NoBlock
  /\ IF blk.generator \in Active(CurrentRound)
     THEN SetForged(blk) /\ pc' = "warmUp"
     ELSE rounds' = rounds /\ pc' = "dead"
  /\ UNCHANGED <<db, mine, ledger, sync, locked, now, timerVars, queueVars,
                 stmt, ahead, goal, then, miscVars>>

\* applyGenesisBlock on an empty database; then the node opens its sockets.
WarmUpDone ==
  /\ pc = "warmUp" /\ RowsLeft = {}
  /\ IF chain = <<>>
     THEN db' = {Genesis} /\ Push(Genesis)
     ELSE UNCHANGED <<chain, byHeight, db>>
  /\ sync' = FALSE
  /\ syncTimer' = TRUE
  /\ pc' = "idle"
  /\ UNCHANGED <<mine, roundVars, locked, now, genTimer, finTimer, queueVars,
                 blk, stmt, ahead, goal, then, miscVars>>

-----------------------------------------------------------------------------
Init ==
  /\ chain = <<>> /\ byHeight = <<>> /\ db = {} /\ mine = {}
  /\ rounds = <<>> /\ ledger = [d \in Delegates |-> NoReward]
  /\ sync = TRUE /\ locked = FALSE /\ now = StartSlot
  /\ genTimer = 0 /\ finTimer = 0 /\ syncTimer = FALSE
  /\ mainQ = <<>> /\ imm = <<>> /\ evq = <<>>
  /\ pc = "warmUp" /\ blk = NoBlock /\ stmt = "none" /\ ahead = 0
  /\ goal = 0 /\ then = "idle"
  /\ lastSync = 0 /\ crashes = 0 /\ thrown = FALSE

\* What the thread of the node does once it has something to do.
Handler ==
  \/ RestoreStep \/ RoundFinish \/ WarmUpFinished
  \/ RefuseBlock \/ AcceptNext \/ AcceptReplacement
  \/ SkipForging \/ Forge \/ ForgeFails \/ ForgeThrows \/ StartSync
  \/ SendDelete \/ DeleteAnswered \/ Undo \/ AfterRollback
  \/ RestoreReceived \/ ReceiveFails \/ ReceiveSaves
  \/ InsertFailed \/ ApplyBlock \/ ApplyThrows
  \/ SyncWaitEnds \/ SyncNotNeeded \/ SyncBegins \/ SyncLoop \/ PeerAnswers
  \/ SaveRequestedBlock \/ RequestedBlocksEnd \/ SyncExit \/ SyncDone
  \/ WarmUp \/ WarmRestore \/ WarmPush \/ WarmUpDone

Database == DbDelete \/ DbInsert

Timers == GenTimerFires \/ FinTimerFires \/ SyncTimerFires

Environment == BlockArrives \/ Tick \/ Crash

Next == Handler \/ Database \/ Timers \/ Environment

Spec == Init /\ [][Next]_vars
=============================================================================
