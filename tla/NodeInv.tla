------------------------------- MODULE NodeInv -------------------------------
(***************************************************************************)
(* The inductive invariant of Node from which the properties of the chain  *)
(* in memory and of the block table follow.  It speaks of chain, db and    *)
(* the running task only: whatever rounds, rewards, timers and queues do,  *)
(* it is kept.  TLC checks it in a run, NodeProofs proves it.              *)
(***************************************************************************)
EXTENDS NodeProps

\* Where the task is, or where it will continue after restoreToSlot.
Stage == IF pc = "restore" THEN then ELSE pc

Receiving == Stage \in {"restoreReceived", "receive", "saving"}
Deleting  == Stage \in {"undoStart", "deleting", "undo"}
Loading   == Stage \in {"warmRestore", "warmPush"}
WarmingUp == Stage \in BootPoints

-----------------------------------------------------------------------------
(* What holds even when the deletion of a block fails.                     *)

\* The genesis block is the first one, and only a process that has not
\* loaded it yet is without it.
GenesisFirst ==
  /\ db = {} \/ Genesis \in db
  /\ chain # <<>> => chain[1] = Genesis
  /\ chain = <<>> => Stage = "warmUp"

\* A task has a block exactly while it receives or loads one.  A block that
\* makes the last one go competes with it; the genesis block never goes.
TaskBlock ==
  /\ blk # Genesis
  /\ Receiving \/ Loading => blk # NoBlock
  /\ ~Receiving /\ ~Loading /\ ~Deleting => blk = NoBlock
  /\ Deleting /\ blk # NoBlock => IsReplacement(LastBlock, blk, FALSE)
  /\ Stage \in {"deleting", "undo"} => LastBlock.height # 1

BaseInv ==
  /\ StoreTypeOK
  /\ then # "restore"
  /\ GenesisFirst
  /\ TaskBlock

-----------------------------------------------------------------------------
(* What holds when the deletion of a block does not fail.                  *)

\* b follows p in memory.  Usually it is the next block.  But p stays in
\* memory without its row when deleteLastBlock does not find the slot of its
\* generator; then the block that competes with p comes on top of it.
Follows(p, b) ==
  \/ IsNext(p, b)
  \/ /\ p \notin db
     /\ b.height = p.height
     /\ b.previousBlockId = p.previousBlockId

ChainFollows == \A i \in 2..Len(chain) : Follows(chain[i - 1], chain[i])

\* The same for blocks that are not neighbours.
ChainAscends ==
  \A i, j \in 1..Len(chain) :
    i < j => \/ chain[i].height < chain[j].height
             \/ chain[i].height = chain[j].height /\ chain[i] \notin db

\* No block but the one below has the id that a block of the chain names.
NamesTheOneBelow ==
  \A i \in 1..Len(chain) :
    \A c \in Blocks :
      c.id = chain[i].previousBlockId => chain[i].height = c.height + 1

\* Each row is in memory, or just inserted for the block being received.
RowsInMemory ==
  ~WarmingUp /\ Stage # "dead" =>
    \A b \in db : \/ \E i \in 1..Len(chain) : b = chain[i]
                  \/ b = blk /\ Stage = "saving" /\ stmt = "done"

ReceivedFollows ==
  /\ Receiving => Follows(LastBlock, blk)
  /\ Stage = "saving" => /\ \A i \in 1..Len(chain) : chain[i].id # blk.id
                         /\ stmt = "done" => blk \in db

\* The row of the last block is deleted first.
LastRowGone ==
  (Stage = "deleting" /\ stmt \in {"done", "failed"}) \/ Stage = "undo"
    => LastBlock \notin db

\* The loader has loaded the lowest rows.
LoadedLowest ==
  /\ WarmingUp =>
       \A i \in 1..Len(chain) :
         chain[i] \in db /\ \A b \in RowsLeft : chain[i].height < b.height
  /\ Loading => blk \in NextRows

\* Of memory and table alone ...
ChainInv == StoredLinear /\ ChainFollows /\ ChainAscends /\ NamesTheOneBelow

\* ... and of the running task.
StageInv == RowsInMemory /\ ReceivedFollows /\ LastRowGone /\ LoadedLowest

LinearInv == ChainInv /\ StageInv

\* The inductive invariant: the chain in memory and the block table stay one
\* chain through receiving, deleting, synchronizing, crashing and loading.
IInv == BaseInv /\ LinearInv
=============================================================================
