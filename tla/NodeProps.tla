----------------------------- MODULE NodeProps ------------------------------
(***************************************************************************)
(* What is expected of one node (module Node).                             *)
(***************************************************************************)
EXTENDS Node

-----------------------------------------------------------------------------
(* Types.                                                                  *)

Events == [topic : MainTopics \cup OnTopics, slot : Int]

RoundType == [first : Int, order : Seq(Delegates), forged : SUBSET Delegates]

StoreTypeOK ==
  /\ chain \in Seq(Blocks)
  /\ DOMAIN byHeight \subseteq Nat
  /\ \A h \in DOMAIN byHeight : byHeight[h] \in Blocks
  /\ db \in SUBSET Blocks
  /\ mine \in SUBSET Blocks
  /\ blk \in Blocks \/ blk = NoBlock
  /\ pc \in Points /\ then \in Points
  /\ stmt \in {"none", "sent", "done", "failed"}

ScheduleTypeOK ==
  /\ rounds \in Seq(RoundType)
  /\ DOMAIN ledger = Delegates
  /\ \A d \in Delegates : DOMAIN ledger[d] = DOMAIN NoReward
  /\ {now, genTimer, finTimer, goal, lastSync} \subseteq Int

\* What is found by height is in the chain.
HeightsKnown ==
  \A h \in DOMAIN byHeight :
    \E i \in DOMAIN chain : chain[i] = byHeight[h] /\ chain[i].height = h

DispatcherTypeOK ==
  /\ mainQ \in Seq(Events) /\ evq \in Seq(Events)
  /\ imm \in Seq(OnTopics \cup {"MAIN"})
  /\ {sync, locked, syncTimer} \subseteq BOOLEAN
  /\ {ahead, crashes} \subseteq Nat

\* Every variable has its type, and the blocks found by height are those of
\* the chain, also while one of them competes with another or is undone
\* (BlockStorageService.push, popLast); an await waits for no more callbacks than
\* are queued, and outside of an await for none (processMainQueue, bus.ts).
TypeOK ==
  /\ StoreTypeOK
  /\ HeightsKnown
  /\ ScheduleTypeOK
  /\ DispatcherTypeOK
  /\ thrown \in BOOLEAN
  /\ ahead <= Len(imm)
  /\ pc \notin AwaitPoints \ {"idle"} => ahead = 0

-----------------------------------------------------------------------------
(* The steps after which rounds, chain and table may disagree.  Nothing in *)
(* the code prevents them; what holds as long as none has happened is said *)
(* of RacelessSpec.                                                        *)

\* The deletion of a stored block fails, and deleteLastBlock's caller goes on.
DeleteLost ==
  pc = "deleting" /\ stmt = "sent" /\ LastBlock \in db /\ stmt' = "failed"

\* A block is forged for a slot that the current round does not give to this
\* node, or that is not after the last block's: the task began late.
LateForge ==
  /\ pc = "idle" /\ pc' = "saving"
  /\ \/ rounds = <<>> \/ blk'.slot <= LastBlock.slot
     \/ blk'.generator \notin Active(CurrentRound)
     \/ blk'.slot # SlotOf(CurrentRound, blk'.generator)

\* A round ends while a block, verified against that round, is being saved.
EarlyRoundEnd == pc = "saving" /\ pc' = "saving" /\ rounds' # rounds

Raceless == ~DeleteLost /\ ~LateForge /\ ~EarlyRoundEnd

RacelessSpec == Init /\ [][Next /\ Raceless]_vars

-----------------------------------------------------------------------------
(* The chain in memory and in the database.                                *)

\* Blocks in memory form one chain: heights count up from 1 and every block
\* names the one before it (onReceiveBlock deletes the last block before it
\* puts a competing one in its place).
ChainLinked ==
  /\ \A i \in DOMAIN chain : chain[i].height = i
  /\ \A i \in 2..Len(chain) : chain[i].previousBlockId = chain[i - 1].id

\* The rows of the block table have different heights and every row's
\* predecessor is there too, one lower: the table can be loaded as one chain.
\* The table itself only guarantees unique ids and existing predecessors
\* (init.sql), the heights are up to the receiving and deleting code.
StoredLinear ==
  /\ \A b, c \in db : b.height = c.height => b = c
  /\ \A b \in db : \/ b = Genesis
                   \/ \E c \in db : /\ c.id = b.previousBlockId
                                    /\ c.height + 1 = b.height

\* The block table, in the order of heights, changes like StoredChain says,
\* crashes and failed statements included; a gap shows as NoBlock.
StoredSeq ==
  [h \in 1..Cardinality(db) |->
    IF \E b \in db : b.height = h
    THEN CHOOSE b \in db : b.height = h
    ELSE NoBlock]
Stored == INSTANCE StoredChain WITH store <- StoredSeq
StoredChainSpec == Stored!Spec

\* The blocks of the chain lie in later and later slots, so that nobody has
\* forged two blocks for one slot (verifyBlockSlotNumber).
SlotsIncrease == \A i \in 2..Len(chain) : chain[i].slot > chain[i - 1].slot

\* What the database holds can be loaded again: blockWarmUp finds a slot for
\* the generator of each block in the round it restores.
Loadable == pc # "dead"

\* A block leaves memory for a competing block only while it is still the one
\* that was compared with it, awaits and round changes in between
\* notwithstanding (onReceiveBlock, deleteLastBlock).
PopsWhatWasCompared ==
  [][(chain' # <<>> /\ Len(chain') < Len(chain) /\ blk # NoBlock)
       => IsReplacement(LastBlock, blk, FALSE)]_vars

-----------------------------------------------------------------------------
(* Rounds and rewards.  They are compared when no task is inside a stretch  *)
(* of code that runs without interruption.                                 *)

BlocksOf(r) == {b \in ToSet(chain) : b.height > 1 /\ InRound(r, b.slot)}

\* A slot of a known round has isForged set exactly when the chain has a
\* block of that round forged by the slot's delegate, however often blocks
\* were deleted and rounds gone back and forth (applyBlock, deleteLastBlock,
\* restoreToSlot, blockWarmUp).
FlagsMatchChain ==
  AtAwait =>
    \A k \in DOMAIN rounds :
      rounds[k].forged = {b.generator : b \in BlocksOf(rounds[k])}

\* The last block before slot s; the genesis block is before all rounds.
BlockBefore(s) ==
  chain[Max({i \in DOMAIN chain : chain[i].height = 1 \/ chain[i].slot < s})]

\* Rounds follow each other without a gap, and who forges in a round depends
\* on the blocks before that round only: nodes with the same chain give the
\* slots to the same delegates, whatever they went through (forwardProcess,
\* generate).
RoundsReproducible ==
  AtAwait =>
    /\ \A k \in DOMAIN rounds :
         rounds[k].order = Schedule[BlockBefore(rounds[k].first).id]
    /\ \A k \in 2..Len(rounds) :
         rounds[k].first = LastSlot(rounds[k - 1]) + 1

\* What delegate d should have got for round r: its share of the fees for
\* each block, or a missed block.
Earned(d, r) ==
  LET blocks == BlocksOf(r)
  IN  [balance      |-> FeeShare(blocks) * ForgedBy(blocks, d),
       forgedBlocks |-> ForgedBy(blocks, d),
       missedBlocks |-> IF blocks # {} /\ d \in Active(r)
                           /\ ForgedBy(blocks, d) = 0
                        THEN 1 ELSE 0]

\* What delegate d should have got for all finished rounds.
EarnedSoFar(d, field) ==
  SumFunction([k \in 1..Len(rounds) - 1 |-> Earned(d, rounds[k])[field]])

\* Delegates have been paid exactly for the finished rounds as they are in the
\* chain: going back in rounds takes back what was paid, even though rounds do
\* not record what they paid (processReward).
LedgerExact ==
  AtAwait =>
    \A d \in Delegates, field \in DOMAIN NoReward :
      ledger[d][field] = EarnedSoFar(d, field)

\* deleteLastBlock finds the slot of the generator in the round it restored;
\* otherwise the block would be gone from the database and stay in memory.
UndoFindsSlot ==
  pc = "undo" => LastBlock.generator \in Active(CurrentRound)

-----------------------------------------------------------------------------
(* The dispatcher.                                                         *)

\* When no task runs, exactly one call of processMainQueue is scheduled if
\* tasks wait, and none otherwise: tasks are never forgotten and two of them
\* never run at the same time.
SingleDispatch ==
  Cardinality({i \in DOMAIN imm : imm[i] = "MAIN"}) =
    IF pc = "idle" /\ mainQ # <<>> THEN 1 ELSE 0

\* A finished task leaves neither the transaction queue locked nor the node
\* in synchronization, whichever of its statements fail: only a handler that
\* threw does, until a later task has released what it left (onReceiveBlock,
\* generateBlock, startSyncBlocks).
NothingHeld == pc = "idle" /\ ~thrown => ~locked /\ ~sync

-----------------------------------------------------------------------------
(* Liveness.                                                               *)

\* The thread, the database and the timers of a living node go on, and time
\* passes.  Nothing is assumed of peers.
Fairness ==
  /\ WF_vars(Handler)
  /\ WF_vars(Database)
  /\ WF_vars(Timers)
  /\ WF_vars(Tick)

FairSpec == Spec /\ Fairness

\* restoreToSlot asked to go before the first round, without the last block
\* in that round.
Hanging ==
  /\ pc = "restore" /\ Len(rounds) = 1
  /\ goal < CurrentRound.first
  /\ ~InRound(CurrentRound, LastBlock.slot)

\* Each block that is received or forged is settled: whatever statement
\* fails, its task ends, unless restoreToSlot hangs.
TaskEnds == (~AtAwait \/ pc \in {"deleting", "saving"}) /\ ~sync
              ~> pc = "idle" \/ sync \/ Hanging
=============================================================================
