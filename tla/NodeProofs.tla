----------------------------- MODULE NodeProofs ------------------------------
(***************************************************************************)
(* Proofs about Node, for every value of the constants: the chain in       *)
(* memory and the block table; then the dispatcher, that is the queue of   *)
(* tasks, the callbacks given to setImmediate and the events put aside,    *)
(* and with them the types of all variables.                               *)
(***************************************************************************)
EXTENDS NodeInv, SequenceFacts, SequenceTheorems, FiniteSetTheorems, TLAPS

-----------------------------------------------------------------------------
(* Lemmas about the operators the model is built from.                     *)

\* push puts a block on top of the chain and under its height.
LEMMA PushProperties ==
  ASSUME StoreTypeOK, NEW b \in Blocks, Push(b)
  PROVE  /\ chain' \in Seq(Blocks)
         /\ Len(chain') = Len(chain) + 1
         /\ \A i \in 1..Len(chain) : chain'[i] = chain[i]
         /\ chain'[Len(chain) + 1] = b
         /\ chain' # <<>>
         /\ DOMAIN byHeight' \subseteq Nat
         /\ \A h \in DOMAIN byHeight' : byHeight'[h] \in Blocks
<1>1. chain \in Seq(Blocks) /\ chain' = Append(chain, b)
  BY DEF Push, StoreTypeOK
<1>2. /\ chain' \in Seq(Blocks)
      /\ Len(chain') = Len(chain) + 1
      /\ \A i \in 1..Len(chain) : chain'[i] = chain[i]
      /\ chain'[Len(chain) + 1] = b
      /\ chain' # <<>>
  BY <1>1, AppendProperties
<1>3. /\ DOMAIN byHeight' \subseteq Nat
      /\ \A h \in DOMAIN byHeight' : byHeight'[h] \in Blocks
  BY NodeAssumption DEF Push, StoreTypeOK
<1> QED
  BY <1>2, <1>3

-----------------------------------------------------------------------------
(* BaseInv.                                                                *)

\* A node that is started for the first time, with an empty table.
LEMMA BaseInit == Init => BaseInv
BY NodeAssumption, SMTT(20)
DEF Init, BaseInv, StoreTypeOK, GenesisFirst, TaskBlock, Stage, Receiving,
    Loading, Deleting, Points, AwaitPoints, BootPoints, TaskPoints

\* No step of the node breaks BaseInv; only Undo and the steps that push a
\* block change the chain.
LEMMA BaseNext == BaseInv /\ [Next]_vars => BaseInv'
<1> SUFFICES ASSUME BaseInv, [Next]_vars PROVE BaseInv'
  OBVIOUS
<1> USE NodeAssumption
    DEF BaseInv, StoreTypeOK, GenesisFirst, TaskBlock, Stage, Receiving,
        Loading, Deleting, LastBlock, IsReplacement, chainVars, queueVars,
        taskVars, Restore, FinishTask, NextTask, AbortTask, Await, Points,
        AwaitPoints, BootPoints, TaskPoints, TaskBegins
<1>0. chain # <<>> => LastBlock \in Blocks /\ LastBlock.height \in Nat \ {0}
  BY DEF Last
<1>1. CASE RestoreStep
  BY <1>1 DEF RestoreStep, LeaveRestore
<1>2. CASE RoundFinish
  BY <1>2 DEF RoundFinish
<1>3. CASE WarmUpFinished
  BY <1>3 DEF WarmUpFinished
<1>4. CASE RefuseBlock
  BY <1>4 DEF RefuseBlock
<1>5. CASE AcceptNext
  BY <1>5 DEF AcceptNext, IsNext, Delivered
<1>6. CASE AcceptReplacement
  BY <1>6 DEF AcceptReplacement, Delivered
<1>7. CASE SkipForging
  BY <1>7 DEF SkipForging
<1>8. CASE Forge
  BY <1>0, <1>8 DEF Forge, Forgeable, IsNext
<1>9. CASE ForgeFails
  BY <1>9 DEF ForgeFails
<1>43. CASE ForgeThrows
  BY <1>43 DEF ForgeThrows
<1>10. CASE StartSync
  BY <1>10 DEF StartSync
<1>11. CASE SendDelete
  BY <1>11 DEF SendDelete, AfterFailedDelete
<1>12. CASE DbDelete
  BY <1>12 DEF DbDelete
<1>13. CASE DeleteAnswered
  BY <1>13 DEF DeleteAnswered, AfterFailedDelete
<1>14. CASE Undo
  <2>1. CASE LastBlock.generator \in Active(CurrentRound)
    <3>1. chain' = Front(chain) /\ chain # <<>>
      BY <1>14, <2>1 DEF Undo, Pop
    <3>2. Len(chain) > 1
      BY <1>14, <3>1 DEF Undo, Pop, Last
    <3>3. /\ chain' \in Seq(Blocks) /\ chain' # <<>>
          /\ chain'[1] = Genesis
      <4>1. chain \in Seq(Blocks) /\ Len(chain) \in Nat /\ chain[1] = Genesis
        BY <3>1, LenProperties
      <4>2. /\ chain' \in Seq(Blocks) /\ Len(chain') = Len(chain) - 1
            /\ \A i \in 1..Len(chain) - 1 : chain'[i] = chain[i]
        BY <3>1, <4>1, FrontElements
      <4>3. chain'[1] = Genesis /\ Len(chain') # 0
        BY <3>2, <4>1, <4>2
      <4> QED
        BY <4>2, <4>3, EmptySeq
    <3>4. /\ pc = "undo" /\ UNCHANGED <<db, mine, blk, stmt, then>>
          /\ pc' = IF blk # NoBlock THEN "restoreReceived" ELSE "afterRollback"
      BY <1>14, <2>1 DEF Undo, Pop
    <3>5. /\ DOMAIN byHeight' \subseteq DOMAIN byHeight
          /\ \A h \in DOMAIN byHeight' : byHeight'[h] = byHeight[h]
      BY <1>14, <2>1 DEF Undo, Pop
    <3>6. StoreTypeOK'
      BY <3>3, <3>4, <3>5
    <3>7. GenesisFirst' /\ TaskBlock'
      BY <3>3, <3>4
    <3> QED
      BY <3>4, <3>6, <3>7
  <2>2. CASE LastBlock.generator \notin Active(CurrentRound)
    BY <1>14, <2>2 DEF Undo, Pop
  <2> QED
    BY <2>1, <2>2
<1>15. CASE AfterRollback
  BY <1>15 DEF AfterRollback
<1>16. CASE RestoreReceived
  BY <1>16 DEF RestoreReceived
<1>17. CASE ReceiveFails
  BY <1>17 DEF ReceiveFails, ProcessFailed
<1>18. CASE ReceiveSaves
  BY <1>18 DEF ReceiveSaves
<1>19. CASE DbInsert
  BY <1>19 DEF DbInsert
<1>20. CASE InsertFailed
  BY <1>20 DEF InsertFailed, ProcessFailed
<1>21. CASE ApplyBlock
  BY <1>21, PushProperties DEF ApplyBlock
<1>22. CASE ApplyThrows
  <2>1. blk \in Blocks /\ chain # <<>> /\ Push(blk)
    BY <1>22 DEF ApplyThrows
  <2>2. /\ chain' \in Seq(Blocks) /\ chain' # <<>>
        /\ chain'[1] = chain[1]
        /\ DOMAIN byHeight' \subseteq Nat
        /\ \A h \in DOMAIN byHeight' : byHeight'[h] \in Blocks
    <3>1. /\ chain' \in Seq(Blocks) /\ chain' # <<>>
          /\ \A i \in 1..Len(chain) : chain'[i] = chain[i]
          /\ DOMAIN byHeight' \subseteq Nat
          /\ \A h \in DOMAIN byHeight' : byHeight'[h] \in Blocks
      BY <2>1, PushProperties
    <3>2. 1 \in 1..Len(chain)
      BY <2>1, LenProperties, EmptySeq
    <3> QED
      BY <3>1, <3>2
  <2> QED
    BY <1>22, <2>1, <2>2 DEF ApplyThrows
<1>23. CASE SyncWaitEnds
  BY <1>23 DEF SyncWaitEnds
<1>24. CASE SyncNotNeeded
  BY <1>24 DEF SyncNotNeeded
<1>25. CASE SyncBegins
  BY <1>25 DEF SyncBegins
<1>26. CASE SyncLoop
  BY <1>26 DEF SyncLoop
<1>27. CASE PeerAnswers
  BY <1>27 DEF PeerAnswers
<1>28. CASE SaveRequestedBlock
  BY <1>28 DEF SaveRequestedBlock, IsNext, Delivered
<1>29. CASE RequestedBlocksEnd
  BY <1>29 DEF RequestedBlocksEnd
<1>30. CASE SyncExit
  BY <1>30 DEF SyncExit
<1>31. CASE SyncDone
  BY <1>31 DEF SyncDone
<1>32. CASE WarmUp
  <2> PICK b \in NextRows :
         IF b.height = 1
         THEN Push(b) /\ UNCHANGED <<rounds, pc, blk>>
         ELSE blk' = b /\ pc' = "warmRestore" /\ UNCHANGED <<chain, byHeight>>
    BY <1>32 DEF WarmUp
  <2>1. b \in db /\ b \in Blocks /\ \A i \in DOMAIN chain : chain[i] # b
    BY DEF NextRows, RowsLeft, ToSet
  <2>2. chain = <<>> => b = Genesis
    BY <2>1 DEF NextRows, RowsLeft, ToSet
  <2>3. CASE b.height = 1
    <3>1. b = Genesis /\ chain = <<>>
      BY <2>1, <2>3
    <3> QED
      BY <1>32, <2>1, <2>3, <3>1, PushProperties DEF WarmUp
  <2>4. CASE b.height # 1
    BY <1>32, <2>1, <2>2, <2>4 DEF WarmUp
  <2> QED
    BY <2>3, <2>4
<1>33. CASE WarmRestore
  BY <1>33 DEF WarmRestore
<1>34. CASE WarmPush
  <2>1. blk \in Blocks /\ chain # <<>>
    BY <1>34 DEF WarmPush
  <2>2. Len(chain) > 0 /\ chain'[1] = Genesis
    BY <1>34, <2>1, PushProperties DEF WarmPush
  <2> QED
    BY <1>34, <2>1, <2>2, PushProperties DEF WarmPush
<1>35. CASE WarmUpDone
  <2>1. CASE chain = <<>>
    BY <1>35, <2>1, PushProperties DEF WarmUpDone
  <2>2. CASE chain # <<>>
    BY <1>35, <2>2 DEF WarmUpDone
  <2> QED
    BY <2>1, <2>2
<1>36. CASE GenTimerFires
  BY <1>36 DEF GenTimerFires
<1>37. CASE FinTimerFires
  BY <1>37 DEF FinTimerFires
<1>38. CASE SyncTimerFires
  BY <1>38 DEF SyncTimerFires
<1>39. CASE BlockArrives
  BY <1>39 DEF BlockArrives
<1>40. CASE Tick
  BY <1>40 DEF Tick
<1>41. CASE Crash
  BY <1>41 DEF Crash
<1>42. CASE UNCHANGED vars
  BY <1>42 DEF vars
<1> QED
  BY <1>1, <1>2, <1>3, <1>4, <1>5, <1>6, <1>7, <1>8, <1>9, <1>10, <1>11,
     <1>12, <1>13, <1>14, <1>15, <1>16, <1>17, <1>18, <1>19, <1>20,
     <1>21, <1>22, <1>23, <1>24, <1>25, <1>26, <1>27, <1>28, <1>29,
     <1>30, <1>31, <1>32, <1>33, <1>34, <1>35, <1>36, <1>37, <1>38,
     <1>39, <1>40, <1>41, <1>42, <1>43, Zenon
  DEF Next, Handler, Database, Timers, Environment

-----------------------------------------------------------------------------
(* LinearInv.                                                              *)

\* An empty memory and an empty table form a chain.
LEMMA LinearInit == Init => LinearInv
BY DEF Init, LinearInv, ChainInv, StageInv, StoredLinear, ChainFollows,
       ChainAscends, NamesTheOneBelow, RowsInMemory, ReceivedFollows,
       LastRowGone, LoadedLowest, RowsLeft, ToSet, NextRows, Stage, Receiving,
       Loading, WarmingUp, BootPoints

\* Most steps leave memory and the block table alone.
LEMMA ChainFrame == ChainInv /\ UNCHANGED <<chain, db>> => ChainInv'
BY DEF ChainInv, StoredLinear, ChainFollows, Follows, ChainAscends,
       NamesTheOneBelow

\* The height of a row is at most that of the last block.
LEMMA RowsBelowLast ==
  ASSUME BaseInv, ChainAscends, chain # <<>>
  PROVE  /\ LastBlock \in Blocks /\ LastBlock.height \in Nat \ {0}
         /\ Len(chain) \in Nat \ {0} /\ LastBlock = chain[Len(chain)]
         /\ \A i \in 1..Len(chain) :
              /\ chain[i] \in Blocks /\ chain[i].height \in Nat
              /\ \/ chain[i] = LastBlock
                 \/ chain[i].height < LastBlock.height
                 \/ chain[i].height = LastBlock.height /\ chain[i] \notin db
<1>1. Len(chain) \in Nat \ {0} /\ LastBlock = chain[Len(chain)]
  BY EmptySeq DEF BaseInv, StoreTypeOK, LastBlock, Last
<1>2. \A i \in 1..Len(chain) : chain[i] \in Blocks /\ chain[i].height \in Nat \ {0}
  BY NodeAssumption, ElementOfSeq DEF BaseInv, StoreTypeOK
<1> QED
  BY <1>1, <1>2 DEF ChainAscends

\* The received block, once its row is there, goes on top of the last one.
LEMMA ReceivedPushed ==
  ASSUME BaseInv, LinearInv, pc = "saving", stmt = "done",
         Push(blk), UNCHANGED db
  PROVE  /\ ChainInv'
         /\ \A b \in db : \E i \in 1..Len(chain') : b = chain'[i]
<1> DEFINE n == Len(chain)
<1>1. chain # <<>> /\ blk \in Blocks /\ blk.height \in Nat
  BY NodeAssumption
  DEF BaseInv, GenesisFirst, TaskBlock, StoreTypeOK, Stage, Receiving
<1>2. blk \in db /\ Follows(chain[n], blk)
  BY <1>1, RowsBelowLast
  DEF LinearInv, ChainInv, StageInv, ReceivedFollows, Stage, Receiving
<1>3. /\ Len(chain') = n + 1 /\ n \in Nat \ {0}
      /\ \A i \in 1..n : chain'[i] = chain[i]
      /\ chain'[n + 1] = blk
  BY <1>1, PushProperties, RowsBelowLast DEF BaseInv, LinearInv, ChainInv
<1>4. StoredLinear'
  BY DEF LinearInv, ChainInv, StoredLinear
<1>5. ChainFollows'
  <2> SUFFICES ASSUME NEW i \in 2..n + 1
               PROVE  Follows(chain'[i - 1], chain'[i])
    BY <1>3 DEF ChainFollows, Follows
  <2>1. CASE i \in 2..n
    BY <1>3, <2>1 DEF LinearInv, ChainInv, ChainFollows
  <2>2. CASE i = n + 1
    BY <1>2, <1>3, <2>2
  <2> QED
    BY <1>3, <2>1, <2>2
<1>6. ChainAscends'
  <2> SUFFICES ASSUME NEW i \in 1..n + 1, NEW j \in 1..n + 1, i < j
               PROVE  \/ chain'[i].height < chain'[j].height
                      \/ /\ chain'[i].height = chain'[j].height
                         /\ chain'[i] \notin db
    BY <1>3 DEF ChainAscends
  <2>1. CASE j \in 1..n
    BY <1>3, <2>1 DEF LinearInv, ChainInv, ChainAscends
  <2>2. CASE j = n + 1
    <3>1. /\ i \in 1..n /\ chain'[i] = chain[i] /\ chain'[j] = blk
          /\ n \in 1..n
      BY <1>3, <2>2
    <3>2. chain[i].height \in Nat /\ chain[n].height \in Nat
      BY <1>1, <3>1, RowsBelowLast DEF LinearInv, ChainInv
    <3>3. \/ chain[i] = chain[n]
          \/ chain[i].height < chain[n].height
          \/ chain[i].height = chain[n].height /\ chain[i] \notin db
      BY <1>1, <3>1, RowsBelowLast DEF LinearInv, ChainInv
    <3> QED
      BY <1>1, <1>2, <3>1, <3>2, <3>3 DEF Follows, IsNext
  <2> QED
    BY <1>3, <2>1, <2>2
<1>7. NamesTheOneBelow'
  <2> SUFFICES ASSUME NEW i \in 1..n + 1, NEW c \in Blocks,
                      c.id = chain'[i].previousBlockId
               PROVE  chain'[i].height = c.height + 1
    BY <1>3 DEF NamesTheOneBelow
  <2>1. CASE i \in 1..n
    BY <1>3, <2>1 DEF LinearInv, ChainInv, NamesTheOneBelow
  <2>2. CASE i = n + 1
    <3>1. chain'[i] = blk /\ n \in 1..n /\ chain[n] \in Blocks
      BY <1>1, <1>3, <2>2, RowsBelowLast DEF LinearInv, ChainInv
    <3>2. CASE IsNext(chain[n], blk)
      BY <3>1, <3>2, NodeAssumption DEF IsNext
    <3>3. CASE ~IsNext(chain[n], blk)
      BY <1>2, <3>1, <3>3 DEF Follows, LinearInv, ChainInv, NamesTheOneBelow
    <3> QED
      BY <3>2, <3>3
  <2> QED
    BY <1>3, <2>1, <2>2
<1>8. ASSUME NEW b \in db
      PROVE  \E i \in 1..Len(chain') : b = chain'[i]
  <2>1. CASE \E i \in 1..n : b = chain[i]
    BY <1>3, <2>1
  <2>2. CASE b = blk
    BY <1>3, <2>2
  <2> QED
    BY <2>1, <2>2
    DEF LinearInv, StageInv, RowsInMemory, Stage, WarmingUp, BootPoints
<1> QED
  BY <1>4, <1>5, <1>6, <1>7, <1>8 DEF ChainInv

\* The lowest row that is not in memory goes on top of the last one.
LEMMA LowestPushed ==
  ASSUME BaseInv, LinearInv, WarmingUp, NEW b \in NextRows,
         Push(b), UNCHANGED db
  PROVE  /\ ChainInv'
         /\ \A i \in 1..Len(chain') :
              chain'[i] \in db /\ \A c \in RowsLeft' : chain'[i].height < c.height
<1> DEFINE n == Len(chain)
<1>1. b \in db /\ b \in Blocks /\ b.height \in Nat
  BY NodeAssumption DEF NextRows, RowsLeft, BaseInv, StoreTypeOK
<1>2. /\ Len(chain') = n + 1 /\ n \in Nat
      /\ \A i \in 1..n : chain'[i] = chain[i]
      /\ chain'[n + 1] = b
  BY <1>1, PushProperties, LenProperties DEF BaseInv, StoreTypeOK
<1>3. \A i \in 1..n : /\ chain[i] \in db /\ chain[i] \in Blocks
                      /\ chain[i].height \in Nat
                      /\ chain[i].height < b.height
  BY NodeAssumption
  DEF NextRows, BaseInv, StoreTypeOK, LinearInv, StageInv, LoadedLowest
<1>4. b = Genesis \/ (n > 0 /\ IsNext(chain[n], b))
  <2> SUFFICES ASSUME b # Genesis
               PROVE  n > 0 /\ IsNext(chain[n], b)
    OBVIOUS
  <2>1. PICK c \in db : c.id = b.previousBlockId /\ c.height + 1 = b.height
    BY <1>1 DEF LinearInv, ChainInv, StoredLinear
  <2>2. c \in Blocks /\ c.height \in Nat
    BY NodeAssumption DEF BaseInv, StoreTypeOK
  <2>3. c \notin RowsLeft
    BY <1>1, <2>1, <2>2 DEF NextRows
  <2>4. PICK i \in 1..n : c = chain[i]
    BY <2>3, LenProperties DEF RowsLeft, ToSet, BaseInv, StoreTypeOK
  <2>5. chain # <<>> /\ n \in 1..n
    BY <1>2, <2>4, EmptySeq
  <2>6. c = chain[n]
    BY <1>1, <1>3, <2>1, <2>2, <2>4, <2>5, RowsBelowLast
    DEF LinearInv, ChainInv
  <2> QED
    BY <2>1, <2>5, <2>6 DEF IsNext
<1>5. StoredLinear'
  BY DEF LinearInv, ChainInv, StoredLinear
<1>6. ChainFollows'
  <2> SUFFICES ASSUME NEW i \in 2..n + 1
               PROVE  Follows(chain'[i - 1], chain'[i])
    BY <1>2 DEF ChainFollows, Follows
  <2>1. CASE i \in 2..n
    BY <1>2, <2>1 DEF LinearInv, ChainInv, ChainFollows
  <2>2. CASE i = n + 1
    <3>1. n \in 1..n /\ i - 1 = n
      BY <1>2, <2>2
    <3>2. b # Genesis
      BY <1>3, <3>1, NodeAssumption
    <3> QED
      BY <1>2, <1>4, <2>2, <3>1, <3>2 DEF Follows
  <2> QED
    BY <1>2, <2>1, <2>2
<1>7. ChainAscends'
  <2> SUFFICES ASSUME NEW i \in 1..n + 1, NEW j \in 1..n + 1, i < j
               PROVE  \/ chain'[i].height < chain'[j].height
                      \/ /\ chain'[i].height = chain'[j].height
                         /\ chain'[i] \notin db
    BY <1>2 DEF ChainAscends
  <2>1. CASE j \in 1..n
    BY <1>2, <2>1 DEF LinearInv, ChainInv, ChainAscends
  <2>2. CASE j = n + 1
    BY <1>2, <1>3, <2>2
  <2> QED
    BY <1>2, <2>1, <2>2
<1>8. NamesTheOneBelow'
  <2> SUFFICES ASSUME NEW i \in 1..n + 1, NEW c \in Blocks,
                      c.id = chain'[i].previousBlockId
               PROVE  chain'[i].height = c.height + 1
    BY <1>2 DEF NamesTheOneBelow
  <2>1. CASE i \in 1..n
    BY <1>2, <2>1 DEF LinearInv, ChainInv, NamesTheOneBelow
  <2>2. CASE i = n + 1 /\ b = Genesis
    BY <1>2, <2>2, NodeAssumption
  <2>3. CASE i = n + 1 /\ b # Genesis
    BY <1>2, <1>3, <1>4, <2>3, NodeAssumption, SMTT(20) DEF IsNext
  <2> QED
    BY <1>2, <2>1, <2>2, <2>3
<1>9. ASSUME NEW i \in 1..n + 1
      PROVE  chain'[i] \in db /\ \A c \in RowsLeft' : chain'[i].height < c.height
  <2>1. ASSUME NEW c \in RowsLeft'
        PROVE  c \in RowsLeft /\ c # b /\ b.height < c.height
    <3>1. c \in RowsLeft /\ c # b /\ c \in db
      BY <1>1, <1>2, PushProperties, LenProperties, <2>1
      DEF RowsLeft, ToSet, BaseInv, StoreTypeOK
    <3>2. c.height \in Nat /\ b.height <= c.height
      BY <3>1, NodeAssumption DEF NextRows, BaseInv, StoreTypeOK
    <3>3. b.height # c.height
      BY <1>1, <3>1 DEF LinearInv, ChainInv, StoredLinear
    <3> QED
      BY <1>1, <3>1, <3>2, <3>3
  <2>2. CASE i \in 1..n
    BY <1>2, <1>3, <2>1, <2>2
    DEF LinearInv, StageInv, LoadedLowest
  <2>3. CASE i = n + 1
    <3>1. chain'[i] = b
      BY <1>2, <2>3, SMTT(20)
    <3> QED
      BY <1>1, <2>1, <3>1
  <2> QED
    BY <1>2, <2>2, <2>3
<1> QED
  BY <1>2, <1>5, <1>6, <1>7, <1>8, <1>9 DEF ChainInv

\* No step of the node breaks LinearInv unless a deletion fails.  The steps
\* that insert, delete, push and pop are the ones with a proof of their own.
LEMMA LinearNext ==
  ASSUME BaseInv, BaseInv', LinearInv, [Next]_vars, [~DeleteLost]_vars
  PROVE  LinearInv'
<1> USE NodeAssumption
    DEF LinearInv, StageInv, RowsInMemory, ReceivedFollows, LastRowGone,
        LoadedLowest, RowsLeft, ToSet, NextRows, WarmingUp, BaseInv, TaskBlock,
        Stage, Receiving, Loading, Deleting, Follows, LastBlock, IsReplacement,
        chainVars, queueVars, taskVars, Restore, FinishTask, NextTask,
        AbortTask, Await, AwaitPoints, BootPoints, TaskBegins, AtAwait
<1>1. CASE RestoreStep
  BY <1>1, ChainFrame DEF RestoreStep, LeaveRestore
<1>2. CASE RoundFinish
  BY <1>2, ChainFrame DEF RoundFinish, RunCallback
<1>3. CASE WarmUpFinished
  BY <1>3, ChainFrame DEF WarmUpFinished, RunCallback
<1>4. CASE RefuseBlock
  BY <1>4, ChainFrame DEF RefuseBlock
<1>5. CASE AcceptNext
  BY <1>5, ChainFrame DEF AcceptNext
<1>6. CASE AcceptReplacement
  BY <1>6, ChainFrame DEF AcceptReplacement
<1>7. CASE SkipForging
  BY <1>7, ChainFrame DEF SkipForging
<1>8. CASE Forge
  BY <1>8, ChainFrame DEF Forge, Forgeable, Has
<1>9. CASE ForgeFails
  BY <1>9, ChainFrame DEF ForgeFails
<1>43. CASE ForgeThrows
  BY <1>43, ChainFrame DEF ForgeThrows
<1>10. CASE StartSync
  BY <1>10, ChainFrame DEF StartSync
<1>11. CASE SendDelete
  <2>1. LastBlock.height = 1 => blk = NoBlock
    BY <1>11 DEF SendDelete, StoreTypeOK
  <2> QED
    BY <1>11, <2>1, ChainFrame DEF SendDelete, AfterFailedDelete
<1>12. CASE DbDelete
  <2>1. /\ chain # <<>> /\ Stage = "deleting" /\ Stage' = "deleting"
        /\ ChainAscends /\ blk' = blk /\ chain' = chain
    BY <1>12 DEF DbDelete, GenesisFirst, ChainInv
  <2>2. CASE db' = db /\ LastBlock \notin db
    BY <1>12, <2>2, ChainFrame DEF DbDelete
  <2>3. CASE db' = db \ {LastBlock}
    <3>1. StoredLinear'
      <4> SUFFICES ASSUME NEW b \in db, b # LastBlock, b # Genesis
                   PROVE  \E c \in db : /\ c # LastBlock
                                        /\ c.id = b.previousBlockId
                                        /\ c.height + 1 = b.height
        BY <2>3 DEF ChainInv, StoredLinear
      <4>1. PICK c \in db : c.id = b.previousBlockId /\ c.height + 1 = b.height
        BY DEF ChainInv, StoredLinear
      <4>2. PICK i \in 1..Len(chain) : b = chain[i]
        BY <2>1
      <4>3. b.height <= LastBlock.height
        BY <2>1, <4>2, RowsBelowLast
      <4>4. c # LastBlock
        BY <2>1, <4>1, <4>3, RowsBelowLast
      <4> QED
        BY <4>1, <4>4
    <3>2. ChainFollows'
      BY <2>1, <2>3 DEF ChainInv, ChainFollows
    <3>3. ChainAscends'
      BY <2>1, <2>3 DEF ChainInv, ChainAscends
    <3>4. NamesTheOneBelow'
      BY <2>1 DEF ChainInv, NamesTheOneBelow
    <3>5. StageInv'
      BY <1>12, <2>1, <2>3 DEF DbDelete
    <3> QED
      BY <3>1, <3>2, <3>3, <3>4, <3>5 DEF ChainInv
  <2>4. stmt' = "failed" => LastBlock \notin db
    BY <1>12 DEF DbDelete, DeleteLost, vars
  <2> QED
    BY <1>12, <2>2, <2>3, <2>4 DEF DbDelete
<1>13. CASE DeleteAnswered
  <2> UNCHANGED <<chain, db, blk>>
    BY <1>13 DEF DeleteAnswered
  <2>1. LastBlock \notin db
    BY <1>13 DEF DeleteAnswered
  <2> ChainInv'
    BY ChainFrame
  <2>2. blk # NoBlock => Follows(LastBlock, blk)
    BY <1>13, <2>1 DEF DeleteAnswered
  <2>3. CASE stmt = "failed"
    BY <1>13, <2>1, <2>2, <2>3 DEF DeleteAnswered, AfterFailedDelete
  <2>4. CASE stmt = "done"
    BY <1>13, <2>1, <2>4 DEF DeleteAnswered
  <2> QED
    BY <1>13, <2>3, <2>4 DEF DeleteAnswered
<1>14. CASE Undo
  <2>1. CASE LastBlock.generator \in Active(CurrentRound)
    <3> DEFINE n == Len(chain)
    <3>1. /\ chain # <<>> /\ chain' = Front(chain) /\ UNCHANGED <<db, blk>>
          /\ LastBlock \notin db /\ ChainAscends /\ chain' # <<>>
          /\ ~WarmingUp /\ Stage # "dead" /\ Stage # "saving"
          /\ Stage' = IF blk # NoBlock THEN "restoreReceived" ELSE "afterRollback"
      BY <1>14, <2>1 DEF Undo, Pop, GenesisFirst, ChainInv
    <3>2. /\ n \in Nat \ {0} /\ LastBlock = chain[n]
          /\ Len(chain') = n - 1
          /\ \A i \in 1..n - 1 : chain'[i] = chain[i]
      BY <3>1, RowsBelowLast, FrontElements, SMTT(20) DEF StoreTypeOK
    <3>3. n - 1 \in Nat \ {0} /\ LastBlock' = chain[n - 1]
      BY <3>1, <3>2, EmptySeq, SMTT(20) DEF StoreTypeOK, Last
    <3>4. ChainInv'
      <4>1. StoredLinear'
        BY <3>1 DEF ChainInv, StoredLinear
      <4>2. ChainFollows'
        <5> SUFFICES ASSUME NEW i \in 2..n - 1
                     PROVE  Follows(chain[i - 1], chain[i])'
          BY <3>2 DEF ChainFollows
        <5>1. /\ i \in 2..n /\ chain'[i - 1] = chain[i - 1]
              /\ chain'[i] = chain[i] /\ db' = db
          BY <3>1, <3>2
        <5> QED
          BY <5>1 DEF ChainInv, ChainFollows, Follows
      <4>3. ChainAscends'
        <5> SUFFICES ASSUME NEW i \in 1..n - 1, NEW j \in 1..n - 1, i < j
                     PROVE  \/ chain'[i].height < chain'[j].height
                            \/ /\ chain'[i].height = chain'[j].height
                               /\ chain'[i] \notin db'
          BY <3>2 DEF ChainAscends
        <5>1. /\ i \in 1..n /\ j \in 1..n
              /\ chain'[i] = chain[i] /\ chain'[j] = chain[j] /\ db' = db
          BY <3>1, <3>2
        <5> QED
          BY <5>1 DEF ChainInv, ChainAscends
      <4>4. NamesTheOneBelow'
        <5> SUFFICES ASSUME NEW i \in 1..n - 1, NEW c \in Blocks,
                            c.id = chain[i].previousBlockId
                     PROVE  chain[i].height = c.height + 1
          BY <3>2, <3>3, SMTT(20) DEF NamesTheOneBelow
        <5>1. i \in 1..n
          BY <3>2
        <5> QED
          BY <5>1, SMTT(20) DEF ChainInv, NamesTheOneBelow
      <4> QED
        BY <4>1, <4>2, <4>3, <4>4 DEF ChainInv
    <3>5. \A b \in db : \E i \in 1..n - 1 : b = chain'[i]
      BY <3>1, <3>2, SMTT(20)
    <3>6. blk # NoBlock => Follows(LastBlock, blk)'
      <4> SUFFICES ASSUME blk # NoBlock
                   PROVE  Follows(chain[n - 1], blk)
        BY <3>1, <3>3
      <4>1. Follows(chain[n - 1], chain[n])
        BY <3>2, <3>3 DEF ChainInv, ChainFollows
      <4>2. blk.height = chain[n].height /\ blk.previousBlockId = chain[n].previousBlockId
        BY <1>14, <3>2 DEF Undo, Pop
      <4> QED
        BY <4>1, <4>2 DEF IsNext
    <3>7. StageInv'
      BY <3>1, <3>2, <3>5, <3>6
    <3> QED
      BY <3>4, <3>7
  <2>2. CASE LastBlock.generator \notin Active(CurrentRound)
    BY <1>14, <2>2, ChainFrame DEF Undo, Pop
  <2> QED
    BY <2>1, <2>2
<1>15. CASE AfterRollback
  BY <1>15, ChainFrame DEF AfterRollback
<1>16. CASE RestoreReceived
  BY <1>16, ChainFrame DEF RestoreReceived
<1>17. CASE ReceiveFails
  BY <1>17, ChainFrame DEF ReceiveFails, ProcessFailed
<1>18. CASE ReceiveSaves
  BY <1>18, ChainFrame DEF ReceiveSaves, Has
<1>19. CASE DbInsert
  <2>1. /\ chain # <<>> /\ blk \in Blocks /\ Stage = "saving" /\ Stage' = "saving"
        /\ ChainAscends /\ Follows(LastBlock, blk)
        /\ UNCHANGED <<chain, blk>> /\ LastBlock.id # blk.id
    BY <1>19, RowsBelowLast DEF DbInsert, GenesisFirst, ChainInv, StoreTypeOK
  <2>2. CASE db' = db /\ stmt' = "failed"
    BY <1>19, <2>1, <2>2, ChainFrame DEF DbInsert
  <2>3. CASE db' = db \cup {blk} /\ stmt' = "done"
    <3>1. PICK c \in db : c.id = blk.previousBlockId
      BY <1>19, <2>3 DEF DbInsert
    <3>2. \A b \in db : \E i \in 1..Len(chain) : b = chain[i]
      BY <1>19, <2>1 DEF DbInsert
    <3>3. c \in Blocks /\ c.height \in Nat /\ blk.height \in Nat
      BY <2>1, NodeAssumption DEF StoreTypeOK
    <3>4. \A b \in db : b.height # blk.height
      <4> SUFFICES ASSUME NEW b \in db, b.height = blk.height
                   PROVE  FALSE
        OBVIOUS
      <4>1. PICK i \in 1..Len(chain) : b = chain[i]
        BY <3>2
      <4>2. b = LastBlock \/ b.height < LastBlock.height
        BY <2>1, <4>1, RowsBelowLast
      <4>3. b.height \in Nat /\ LastBlock.height \in Nat
        BY <2>1, <4>1, RowsBelowLast
      <4> QED
        BY <2>1, <4>2, <4>3 DEF IsNext
    <3>5. c.height + 1 = blk.height
      <4>1. CASE IsNext(LastBlock, blk)
        BY <2>1, <3>1, <3>3, <4>1, RowsBelowLast, NodeAssumption DEF IsNext
      <4>2. CASE ~IsNext(LastBlock, blk)
        <5>1. /\ blk.height = LastBlock.height
              /\ blk.previousBlockId = LastBlock.previousBlockId
          BY <2>1, <4>2
        <5>2. Len(chain) \in 1..Len(chain) /\ LastBlock = chain[Len(chain)]
          BY <2>1, RowsBelowLast
        <5>3. LastBlock.height = c.height + 1
          BY <3>1, <3>3, <5>1, <5>2 DEF ChainInv, NamesTheOneBelow
        <5> QED
          BY <5>1, <5>3, <3>3
      <4> QED
        BY <4>1, <4>2
    <3>6. StoredLinear'
      <4>1. \A b \in db, d \in db : b.height = d.height => b = d
        BY DEF ChainInv, StoredLinear
      <4>2. \A b, d \in db' : b.height = d.height => b = d
        BY <2>3, <3>4, <4>1
      <4>3. \A b \in db : b = Genesis \/ \E d \in db' : /\ d.id = b.previousBlockId
                                                      /\ d.height + 1 = b.height
        BY <2>3 DEF ChainInv, StoredLinear
      <4>4. \A b \in db' : b = Genesis \/ \E d \in db' : /\ d.id = b.previousBlockId
                                                       /\ d.height + 1 = b.height
        BY <2>3, <3>1, <3>5, <4>3
      <4> QED
        BY <4>2, <4>4 DEF StoredLinear
    <3>7. \A i \in 1..Len(chain) : chain[i] # blk
      BY <1>19, <2>1
    <3>8. ChainFollows'
      <4> SUFFICES ASSUME NEW i \in 2..Len(chain)
                   PROVE  Follows(chain[i - 1], chain[i])'
        BY <2>1 DEF ChainFollows
      <4>1. i - 1 \in 1..Len(chain) /\ chain[i - 1] # blk
        BY <2>1, <3>7, RowsBelowLast
      <4> QED
        BY <2>1, <2>3, <4>1 DEF ChainInv, ChainFollows
    <3>9. ChainAscends'
      BY <2>1, <2>3, <3>7 DEF ChainInv, ChainAscends
    <3>10. NamesTheOneBelow'
      BY <2>1 DEF ChainInv, NamesTheOneBelow
    <3>11. Follows(LastBlock, blk)'
      BY <2>1, <2>3, <3>7
    <3>12. StageInv'
      BY <1>19, <2>1, <2>3, <3>2, <3>11 DEF DbInsert
    <3> QED
      BY <3>6, <3>8, <3>9, <3>10, <3>12 DEF ChainInv
  <2> QED
    BY <1>19, <2>2, <2>3 DEF DbInsert
<1>20. CASE InsertFailed
  BY <1>20, ChainFrame DEF InsertFailed, ProcessFailed
<1>21. CASE ApplyBlock
  <2>1. ChainInv' /\ \A b \in db : \E i \in 1..Len(chain') : b = chain'[i]
    BY <1>21, ReceivedPushed DEF ApplyBlock
  <2> QED
    BY <1>21, <2>1 DEF ApplyBlock
<1>22. CASE ApplyThrows
  <2>1. ChainInv' /\ \A b \in db : \E i \in 1..Len(chain') : b = chain'[i]
    BY <1>22, ReceivedPushed DEF ApplyThrows
  <2> QED
    BY <1>22, <2>1 DEF ApplyThrows
<1>23. CASE SyncWaitEnds
  BY <1>23, ChainFrame DEF SyncWaitEnds
<1>24. CASE SyncNotNeeded
  BY <1>24, ChainFrame DEF SyncNotNeeded
<1>25. CASE SyncBegins
  BY <1>25, ChainFrame DEF SyncBegins
<1>26. CASE SyncLoop
  BY <1>26, ChainFrame DEF SyncLoop
<1>27. CASE PeerAnswers
  BY <1>27, ChainFrame DEF PeerAnswers
<1>28. CASE SaveRequestedBlock
  BY <1>28, ChainFrame DEF SaveRequestedBlock
<1>29. CASE RequestedBlocksEnd
  BY <1>29, ChainFrame DEF RequestedBlocksEnd
<1>30. CASE SyncExit
  BY <1>30, ChainFrame DEF SyncExit
<1>31. CASE SyncDone
  BY <1>31, ChainFrame DEF SyncDone
<1>32. CASE WarmUp
  <2> PICK b \in NextRows :
         IF b.height = 1
         THEN Push(b) /\ UNCHANGED <<rounds, pc, blk>>
         ELSE blk' = b /\ pc' = "warmRestore" /\ UNCHANGED <<chain, byHeight>>
    BY <1>32 DEF WarmUp
  <2>1. CASE b.height = 1
    BY <1>32, <2>1, LowestPushed DEF WarmUp
  <2>2. CASE b.height # 1
    BY <1>32, <2>2, ChainFrame DEF WarmUp
  <2> QED
    BY <2>1, <2>2
<1>33. CASE WarmRestore
  BY <1>33, ChainFrame DEF WarmRestore
<1>34. CASE WarmPush
  <2>1. /\ ChainInv'
        /\ \A i \in 1..Len(chain') :
             chain'[i] \in db /\ \A c \in RowsLeft' : chain'[i].height < c.height
    BY <1>34, LowestPushed DEF WarmPush
  <2> QED
    BY <1>34, <2>1 DEF WarmPush
<1>35. CASE WarmUpDone
  <2>1. CASE chain = <<>>
    <3>1. db = {}
      BY <1>35, <2>1 DEF WarmUpDone
    <3>2. Len(chain') = 1 /\ chain'[1] = Genesis /\ db' = {Genesis}
      BY <1>35, <2>1, PushProperties, EmptySeq DEF WarmUpDone
    <3>3. ChainInv'
      BY <3>2
      DEF ChainInv, StoredLinear, ChainFollows, ChainAscends, NamesTheOneBelow
    <3> QED
      BY <1>35, <2>1, <3>2, <3>3 DEF WarmUpDone
  <2>2. CASE chain # <<>>
    BY <1>35, <2>2, ChainFrame, LenProperties DEF WarmUpDone, StoreTypeOK
  <2> QED
    BY <2>1, <2>2
<1>36. CASE GenTimerFires
  BY <1>36, ChainFrame DEF GenTimerFires
<1>37. CASE FinTimerFires
  BY <1>37, ChainFrame DEF FinTimerFires
<1>38. CASE SyncTimerFires
  BY <1>38, ChainFrame DEF SyncTimerFires
<1>39. CASE BlockArrives
  BY <1>39, ChainFrame DEF BlockArrives
<1>40. CASE Tick
  BY <1>40, ChainFrame DEF Tick
<1>41. CASE Crash
  <2>1. ChainInv'
    BY <1>41 DEF Crash, ChainInv, StoredLinear, ChainFollows, ChainAscends,
                 NamesTheOneBelow
  <2> QED
    BY <1>41, <2>1 DEF Crash
<1>42. CASE UNCHANGED vars
  BY <1>42, ChainFrame DEF vars
<1> QED
  BY <1>1, <1>2, <1>3, <1>4, <1>5, <1>6, <1>7, <1>8, <1>9, <1>10, <1>11,
     <1>12, <1>13, <1>14, <1>15, <1>16, <1>17, <1>18, <1>19, <1>20,
     <1>21, <1>22, <1>23, <1>24, <1>25, <1>26, <1>27, <1>28, <1>29,
     <1>30, <1>31, <1>32, <1>33, <1>34, <1>35, <1>36, <1>37, <1>38,
     <1>39, <1>40, <1>41, <1>42, <1>43, Zenon
  DEF Next, Handler, Database, Timers, Environment

-----------------------------------------------------------------------------
(* Theorems.                                                               *)

\* BaseInv holds in every state.
THEOREM BaseInvariant == Spec => []BaseInv
BY BaseInit, BaseNext, PTL DEF Spec

\* Memory, the block table and the variables of the running task have their
\* types, whatever statements fail and however often the process crashes.
THEOREM StoreTypeCorrect == Spec => []StoreTypeOK
<1>1. BaseInv => StoreTypeOK
  BY DEF BaseInv
<1> QED
  BY <1>1, BaseInvariant, PTL

\* The inductive invariant of the chain, up to the first deletion that fails
\* (onReceiveBlock goes on as if it had not): until then a behaviour cannot be
\* told from one in which none fails.
THEOREM IInvariant == Spec /\ [][~DeleteLost]_vars => []IInv
<1>1. Init => IInv
  BY BaseInit, LinearInit DEF IInv
<1>2. IInv /\ [Next]_vars /\ [~DeleteLost]_vars => IInv'
  BY BaseNext, LinearNext DEF IInv
<1> QED
  BY <1>1, <1>2, PTL DEF Spec

\* The rows of the block table form one chain, so that it can be loaded, after
\* any sequence of received, forged, replaced and synchronized blocks, failed
\* insertions and crashes, up to the first deletion that fails.
THEOREM StoredLinearHolds == Spec /\ [][~DeleteLost]_vars => []StoredLinear
<1>1. IInv => StoredLinear
  BY DEF IInv, LinearInv, ChainInv
<1> QED
  BY <1>1, IInvariant, PTL

\* Blocks leave memory in Undo only, unless the process crashes.
LEMMA PopsInUndo ==
  ASSUME BaseInv, [Next]_vars, chain' # <<>>, Len(chain') < Len(chain)
  PROVE  Undo
<1>1. Len(chain) \in Nat
  BY LenProperties DEF BaseInv, StoreTypeOK
<1>2. ASSUME UNCHANGED chain PROVE FALSE
  BY <1>1, <1>2
<1>3. ASSUME NEW b \in Blocks, Push(b) PROVE FALSE
  BY <1>1, <1>3, PushProperties DEF BaseInv
<1> USE NodeAssumption, <1>1, <1>2, <1>3 DEF BaseInv, StoreTypeOK, chainVars
<1>4. CASE
         RestoreStep \/ RoundFinish \/ WarmUpFinished \/ RefuseBlock
     \/ AcceptNext \/ AcceptReplacement \/ SkipForging \/ Forge \/ ForgeFails
     \/ ForgeThrows
     \/ StartSync \/ SendDelete \/ DbDelete \/ DeleteAnswered \/ AfterRollback
     \/ RestoreReceived \/ ReceiveFails \/ ReceiveSaves \/ DbInsert
     \/ InsertFailed \/ SyncWaitEnds \/ SyncNotNeeded \/ SyncBegins
     \/ SyncLoop \/ PeerAnswers \/ SaveRequestedBlock \/ RequestedBlocksEnd
     \/ SyncExit \/ SyncDone \/ WarmRestore \/ GenTimerFires \/ FinTimerFires
     \/ SyncTimerFires \/ BlockArrives \/ Tick
  BY <1>4
  DEF RestoreStep, RoundFinish, WarmUpFinished, RefuseBlock, AcceptNext,
      AcceptReplacement, SkipForging, Forge, ForgeFails, ForgeThrows, StartSync,
      SendDelete, DbDelete, DeleteAnswered, AfterRollback, RestoreReceived,
      ReceiveFails, ReceiveSaves, DbInsert, InsertFailed, SyncWaitEnds,
      SyncNotNeeded, SyncBegins, SyncLoop, PeerAnswers, SaveRequestedBlock,
      RequestedBlocksEnd, SyncExit, SyncDone, WarmRestore, GenTimerFires,
      FinTimerFires, SyncTimerFires, BlockArrives, Tick
<1>5. CASE ApplyBlock \/ ApplyThrows
  BY <1>5 DEF ApplyBlock, ApplyThrows, TaskBlock, Stage, Receiving
<1>6. CASE WarmUp
  BY <1>6 DEF WarmUp, NextRows, RowsLeft
<1>7. CASE WarmPush
  BY <1>7 DEF WarmPush, TaskBlock, Stage, Loading
<1>8. CASE WarmUpDone
  BY <1>8 DEF WarmUpDone
<1>9. CASE Crash
  BY <1>9 DEF Crash
<1>10. CASE UNCHANGED vars
  BY <1>10 DEF vars
<1> QED
  BY <1>4, <1>5, <1>6, <1>7, <1>8, <1>9, <1>10
  DEF Next, Handler, Database, Timers, Environment

\* A block that leaves memory for a competing one is the block that was
\* compared with it, even if statements fail and rounds change meanwhile.
THEOREM PopsWhatWasComparedHolds == Spec => PopsWhatWasCompared
<1>1. ASSUME BaseInv, [Next]_vars
      PROVE  [(chain' # <<>> /\ Len(chain') < Len(chain) /\ blk # NoBlock)
                => IsReplacement(LastBlock, blk, FALSE)]_vars
  BY <1>1, PopsInUndo DEF BaseInv, TaskBlock, Undo, Pop, Stage, Deleting
<1> QED
  BY <1>1, BaseInvariant, PTL DEF Spec, PopsWhatWasCompared

-----------------------------------------------------------------------------
(* The heights of the rows are 1, 2, ... without a gap.                    *)

HeightsDense ==
  /\ IsFiniteSet(db)
  /\ \A b \in db : b.height \in 1..Cardinality(db)
  /\ \A h \in 1..Cardinality(db) : \E b \in db : b.height = h

\* The table changes in four steps only.
LEMMA TableChanges ==
  ASSUME [Next]_vars, db' # db
  PROVE  \/ DbInsert /\ db' = db \cup {blk}
         \/ DbDelete /\ db' = db \ {LastBlock} /\ LastBlock \in db
         \/ WarmUpDone /\ chain = <<>> /\ db' = {Genesis}
<1>1. CASE
         RestoreStep \/ RoundFinish \/ WarmUpFinished \/ RefuseBlock
     \/ AcceptNext \/ AcceptReplacement \/ SkipForging \/ Forge \/ ForgeFails
     \/ ForgeThrows
     \/ StartSync \/ SendDelete \/ DeleteAnswered \/ Undo \/ AfterRollback
     \/ RestoreReceived \/ ReceiveFails \/ ReceiveSaves \/ InsertFailed
     \/ ApplyBlock \/ ApplyThrows
  BY <1>1
  DEF RestoreStep, RoundFinish, WarmUpFinished, RefuseBlock, AcceptNext,
      AcceptReplacement, SkipForging, Forge, ForgeFails, ForgeThrows, StartSync, SendDelete,
      DeleteAnswered, Undo, AfterRollback, RestoreReceived, ReceiveFails,
      ReceiveSaves, InsertFailed, ApplyBlock, ApplyThrows, chainVars
<1>2. CASE
         SyncWaitEnds \/ SyncNotNeeded \/ SyncBegins \/ SyncLoop
     \/ PeerAnswers \/ SaveRequestedBlock \/ RequestedBlocksEnd \/ SyncExit
     \/ SyncDone \/ WarmUp \/ WarmRestore \/ WarmPush \/ GenTimerFires
     \/ FinTimerFires \/ SyncTimerFires \/ BlockArrives \/ Tick \/ Crash
     \/ UNCHANGED vars
  BY <1>2
  DEF SyncWaitEnds, SyncNotNeeded, SyncBegins, SyncLoop, PeerAnswers,
      SaveRequestedBlock, RequestedBlocksEnd, SyncExit, SyncDone, WarmUp,
      WarmRestore, WarmPush, GenTimerFires, FinTimerFires, SyncTimerFires,
      BlockArrives, Tick, Crash, chainVars, vars
<1>3. CASE DbInsert
  BY <1>3 DEF DbInsert
<1>4. CASE DbDelete
  BY <1>4 DEF DbDelete
<1>5. CASE WarmUpDone
  BY <1>5 DEF WarmUpDone
<1> QED
  BY <1>1, <1>2, <1>3, <1>4, <1>5, Zenon
  DEF Next, Handler, Database, Timers, Environment

\* The first row.
LEMMA GenesisStored ==
  ASSUME BaseInv, WarmUpDone, chain = <<>>
  PROVE  db = {}
BY DEF WarmUpDone, RowsLeft, ToSet

\* The row that is inserted is the next one.
LEMMA InsertedOnTop ==
  ASSUME BaseInv, IInv', HeightsDense, DbInsert, db' = db \cup {blk}, db' # db
  PROVE  /\ blk \in Blocks /\ blk \notin db
         /\ Cardinality(db) \in Nat \ {0}
         /\ blk.height = Cardinality(db) + 1
         /\ \E c \in db : c.height = Cardinality(db) /\ blk.previousBlockId = c.id
<1>1. blk \in Blocks /\ blk # Genesis /\ blk \notin db /\ blk.height \in Nat
  BY NodeAssumption
  DEF BaseInv, StoreTypeOK, TaskBlock, DbInsert, Stage, Receiving
<1>2. /\ \A b, c \in db' : b.height = c.height => b = c
      /\ \E c \in db' : c.id = blk.previousBlockId /\ c.height + 1 = blk.height
  BY <1>1 DEF IInv, LinearInv, ChainInv, StoredLinear
<1>3. PICK n \in Nat : n = Cardinality(db)
  BY FS_CardinalityType DEF HeightsDense
<1>4. PICK c \in db' : c.id = blk.previousBlockId /\ c.height + 1 = blk.height
  BY <1>2
<1>5. c \in db /\ c.height \in 1..n
  BY <1>1, <1>3, <1>4 DEF HeightsDense
<1>6. blk.height \notin 1..n
  BY <1>1, <1>2, <1>3 DEF HeightsDense
<1>7. blk.height = n + 1 /\ c.height = n /\ n # 0
  BY <1>1, <1>3, <1>4, <1>5, <1>6
<1> QED
  BY <1>1, <1>3, <1>4, <1>5, <1>7

\* The row that is deleted is the highest one.
LEMMA DeletedFromTop ==
  ASSUME IInv, HeightsDense, DbDelete, LastBlock \in db
  PROVE  /\ LastBlock.height = Cardinality(db)
         /\ Cardinality(db) \in Nat /\ Cardinality(db) > 1
<1>1. pc = "deleting" /\ stmt = "sent"
  BY DEF DbDelete
<1>2. chain # <<>> /\ LastBlock.height # 1
  BY <1>1 DEF IInv, BaseInv, GenesisFirst, TaskBlock, Stage
<1>3. \A b \in db : \E i \in 1..Len(chain) : b = chain[i]
  BY <1>1 DEF IInv, LinearInv, StageInv, RowsInMemory, Stage, WarmingUp, BootPoints
<1>4. \A b \in db : b = LastBlock \/ b.height < LastBlock.height
  BY <1>2, <1>3, RowsBelowLast DEF IInv, LinearInv, ChainInv
<1>5. PICK n \in Nat : n = Cardinality(db)
  BY FS_CardinalityType DEF HeightsDense
<1>6. LastBlock.height \in 1..n
  BY <1>5 DEF HeightsDense
<1>7. PICK b \in db : b.height = n
  BY <1>5, <1>6 DEF HeightsDense
<1> QED
  BY <1>2, <1>4, <1>5, <1>6, <1>7

\* Every step keeps the heights dense.
LEMMA DenseNext == IInv /\ IInv' /\ HeightsDense /\ [Next]_vars => HeightsDense'
<1> SUFFICES ASSUME IInv, IInv', HeightsDense, [Next]_vars PROVE HeightsDense'
  OBVIOUS
<1>1. PICK n \in Nat : n = Cardinality(db)
  BY FS_CardinalityType DEF HeightsDense
<1>2. CASE db' = db
  BY <1>2 DEF HeightsDense
<1>3. CASE DbInsert /\ db' = db \cup {blk} /\ db' # db
  <2>1. blk \notin db /\ blk.height = n + 1
    BY <1>1, <1>3, InsertedOnTop DEF IInv
  <2>2. IsFiniteSet(db') /\ Cardinality(db') = n + 1
    BY <1>1, <1>3, <2>1, FS_AddElement DEF HeightsDense
  <2>3. ASSUME NEW b \in db' PROVE b.height \in 1..n + 1
    <3>1. b \in db => b.height \in 1..n
      BY <1>1 DEF HeightsDense
    <3> QED
      BY <1>3, <2>1, <3>1
  <2>4. ASSUME NEW h \in 1..n + 1 PROVE \E b \in db' : b.height = h
    <3>1. h \in 1..n \/ h = n + 1
      OBVIOUS
    <3>2. h \in 1..n => \E b \in db : b.height = h
      BY <1>1 DEF HeightsDense
    <3> QED
      BY <1>3, <2>1, <3>1, <3>2
  <2> QED
    BY <2>2, <2>3, <2>4 DEF HeightsDense
<1>4. CASE DbDelete /\ db' = db \ {LastBlock} /\ LastBlock \in db
  <2>1. LastBlock.height = n /\ n > 1
    BY <1>1, <1>4, DeletedFromTop
  <2>2. IsFiniteSet(db') /\ Cardinality(db') = n - 1
    BY <1>1, <1>4, FS_RemoveElement DEF HeightsDense
  <2>3. ASSUME NEW b \in db' PROVE b.height \in 1..n - 1
    <3>1. b \in db /\ b # LastBlock
      BY <1>4
    <3>2. b.height # n
      BY <1>4, <2>1, <3>1 DEF IInv, LinearInv, ChainInv, StoredLinear
    <3> QED
      BY <1>1, <3>1, <3>2 DEF HeightsDense
  <2>4. ASSUME NEW h \in 1..n - 1 PROVE \E b \in db' : b.height = h
    <3>1. PICK b \in db : b.height = h
      BY <1>1 DEF HeightsDense
    <3>2. b # LastBlock
      BY <2>1, <3>1
    <3> QED
      BY <1>4, <3>1, <3>2
  <2> QED
    BY <2>2, <2>3, <2>4 DEF HeightsDense
<1>5. CASE WarmUpDone /\ chain = <<>> /\ db' = {Genesis}
  <2>1. IsFiniteSet(db') /\ Cardinality(db') = 1
    BY <1>5, FS_Singleton
  <2>2. Genesis.height = 1
    BY NodeAssumption
  <2>3. /\ \A b \in db' : b.height \in 1..1
        /\ \A h \in 1..1 : \E b \in db' : b.height = h
    BY <1>5, <2>2
  <2> QED
    BY <2>1, <2>3 DEF HeightsDense
<1> QED
  BY <1>2, <1>3, <1>4, <1>5, TableChanges

-----------------------------------------------------------------------------
(* The table in the order of heights.                                      *)

RowsInOrder(D) ==
  [h \in 1..Cardinality(D) |->
    IF \E b \in D : b.height = h THEN CHOOSE b \in D : b.height = h ELSE NoBlock]

\* Each row is at the place of its height.
LEMMA RowsAtHeights ==
  ASSUME NEW D \in SUBSET Blocks, NEW n \in Nat, n = Cardinality(D),
         \A b, c \in D : b.height = c.height => b = c,
         \A b \in D : b.height \in 1..n,
         \A h \in 1..n : \E b \in D : b.height = h
  PROVE  /\ RowsInOrder(D) \in Seq(Blocks) /\ Len(RowsInOrder(D)) = n
         /\ \A b \in D : RowsInOrder(D)[b.height] = b
<1>1. PICK s : s = RowsInOrder(D)
  OBVIOUS
<1>2. s = [h \in 1..n |-> IF \E b \in D : b.height = h
                          THEN CHOOSE b \in D : b.height = h
                          ELSE NoBlock]
  BY <1>1 DEF RowsInOrder
<1>3. ASSUME NEW h \in 1..n PROVE s[h] \in D /\ s[h].height = h
  BY <1>2
<1>4. s \in [1..n -> Blocks]
  BY <1>2, <1>3
<1>5. s \in Seq(Blocks) /\ Len(s) = n
  BY <1>4, FunctionIsSeq
<1>6. \A b \in D : s[b.height] = b
  BY <1>3
<1> QED
  BY <1>1, <1>5, <1>6

\* So it is for the block table, before a step ...
LEMMA StoredSeqRows ==
  ASSUME BaseInv, StoredLinear, HeightsDense
  PROVE  /\ Cardinality(db) \in Nat
         /\ StoredSeq \in Seq(Blocks) /\ Len(StoredSeq) = Cardinality(db)
         /\ \A b \in db : StoredSeq[b.height] = b
<1>1. StoredSeq = RowsInOrder(db)
  BY DEF StoredSeq, RowsInOrder
<1>2. db \in SUBSET Blocks /\ Cardinality(db) \in Nat
  BY FS_CardinalityType DEF BaseInv, StoreTypeOK, HeightsDense
<1> QED
  BY <1>1, <1>2, RowsAtHeights DEF StoredLinear, HeightsDense

\* ... and after it.
LEMMA StoredSeqRowsNext ==
  ASSUME BaseInv', StoredLinear', HeightsDense'
  PROVE  /\ Cardinality(db') \in Nat
         /\ StoredSeq' \in Seq(Blocks) /\ Len(StoredSeq') = Cardinality(db')
         /\ \A b \in db' : StoredSeq'[b.height] = b
<1>1. StoredSeq' = RowsInOrder(db')
  BY DEF StoredSeq, RowsInOrder
<1>2. db' \in SUBSET Blocks /\ Cardinality(db') \in Nat
  BY FS_CardinalityType DEF BaseInv, StoreTypeOK, HeightsDense
<1> QED
  BY <1>1, <1>2, RowsAtHeights DEF StoredLinear, HeightsDense

\* The row on top is the last of them.
LEMMA StoredLast ==
  ASSUME BaseInv, StoredLinear, HeightsDense, NEW c \in db,
         c.height = Cardinality(db)
  PROVE  StoredSeq # <<>> /\ StoredSeq[Len(StoredSeq)] = c
<1>1. c.height \in 1..Cardinality(db)
  BY DEF HeightsDense
<1> QED
  BY <1>1, StoredSeqRows, EmptySeq

\* An inserted row is appended.
LEMMA StoredAppend ==
  ASSUME IInv, IInv', HeightsDense, HeightsDense',
         DbInsert, db' = db \cup {blk}, db' # db
  PROVE  /\ StoredSeq # <<>> /\ StoredSeq' # StoredSeq
         /\ blk \in Blocks /\ blk.height = Len(StoredSeq) + 1
         /\ blk.previousBlockId = StoredSeq[Len(StoredSeq)].id
         /\ StoredSeq' = Append(StoredSeq, blk)
<1>1. PICK n \in Nat \ {0}, c \in db :
        /\ n = Cardinality(db) /\ blk \in Blocks /\ blk \notin db
        /\ blk.height = n + 1 /\ c.height = n /\ blk.previousBlockId = c.id
  BY InsertedOnTop DEF IInv
<1>2. PICK s : s = StoredSeq
  OBVIOUS
<1>3. PICK t : t = StoredSeq'
  OBVIOUS
<1>4. BaseInv /\ StoredLinear /\ BaseInv' /\ StoredLinear'
  BY DEF IInv, LinearInv, ChainInv
<1>5. s \in Seq(Blocks) /\ Len(s) = n /\ \A b \in db : s[b.height] = b
  BY <1>1, <1>2, <1>4, StoredSeqRows
<1>6. s # <<>> /\ s[n] = c
  BY <1>1, <1>5, EmptySeq
<1>7. Cardinality(db') = n + 1
  BY <1>1, FS_AddElement DEF HeightsDense
<1>8. t \in Seq(Blocks) /\ Len(t) = n + 1 /\ \A b \in db' : t[b.height] = b
  BY <1>3, <1>4, <1>7, StoredSeqRowsNext
<1>9. ASSUME NEW i \in 1..n PROVE t[i] = s[i]
  <2>1. PICK b \in db : b.height = i
    BY <1>1 DEF HeightsDense
  <2> QED
    BY <1>5, <1>8, <2>1
<1>10. t[n + 1] = blk
  BY <1>1, <1>8
<1>11. PICK u : u = Append(s, blk)
  OBVIOUS
<1>12. /\ u \in Seq(Blocks) /\ Len(u) = n + 1
       /\ \A i \in 1..n : u[i] = s[i]
       /\ u[n + 1] = blk
  BY <1>1, <1>5, <1>11, AppendProperties
<1>13. \A i \in 1..n + 1 : t[i] = u[i]
  <2>1. \A i \in 1..n + 1 : i \in 1..n \/ i = n + 1
    OBVIOUS
  <2> QED
    BY <1>9, <1>10, <1>12, <2>1
<1>14. t = u
  BY <1>8, <1>12, <1>13, SeqEqual
<1>15. t # s
  BY <1>5, <1>8
<1> QED
  BY <1>1, <1>2, <1>3, <1>5, <1>6, <1>11, <1>14, <1>15

\* A deleted row was the last one.
LEMMA StoredFront ==
  ASSUME IInv, IInv', HeightsDense, HeightsDense',
         DbDelete, db' = db \ {LastBlock}, LastBlock \in db
  PROVE  Len(StoredSeq) > 1 /\ StoredSeq' = Front(StoredSeq)
<1>1. PICK n \in Nat : n = Cardinality(db) /\ LastBlock.height = n /\ n > 1
  BY DeletedFromTop
<1>2. PICK s : s = StoredSeq
  OBVIOUS
<1>3. PICK t : t = StoredSeq'
  OBVIOUS
<1>4. BaseInv /\ StoredLinear /\ BaseInv' /\ StoredLinear'
  BY DEF IInv, LinearInv, ChainInv
<1>5. s \in Seq(Blocks) /\ Len(s) = n /\ \A b \in db : s[b.height] = b
  BY <1>1, <1>2, <1>4, StoredSeqRows
<1>6. Cardinality(db') = n - 1
  BY <1>1, FS_RemoveElement DEF HeightsDense
<1>7. t \in Seq(Blocks) /\ Len(t) = n - 1 /\ \A b \in db' : t[b.height] = b
  BY <1>3, <1>4, <1>6, StoredSeqRowsNext
<1>8. ASSUME NEW i \in 1..n - 1 PROVE t[i] = s[i]
  <2>1. PICK b \in db : b.height = i
    BY <1>1 DEF HeightsDense
  <2>2. b \in db'
    BY <1>1, <2>1
  <2> QED
    BY <1>5, <1>7, <2>1, <2>2
<1>9. s # <<>>
  BY <1>1, <1>5, EmptySeq
<1>10. PICK u : u = Front(s)
  OBVIOUS
<1>11. u \in Seq(Blocks) /\ Len(u) = n - 1 /\ \A i \in 1..n - 1 : u[i] = s[i]
  BY <1>5, <1>9, <1>10, FrontElements
<1>12. t = u
  BY <1>7, <1>8, <1>11, SeqEqual
<1> QED
  BY <1>1, <1>2, <1>3, <1>5, <1>10, <1>12

-----------------------------------------------------------------------------
(* The refinement.                                                         *)

\* An empty table is an empty chain.
LEMMA StoredInit == Init => Stored!Init /\ HeightsDense
<1> SUFFICES ASSUME Init PROVE Stored!Init /\ HeightsDense
  OBVIOUS
<1>1. db = {} /\ IsFiniteSet(db) /\ Cardinality(db) = 0
  BY FS_EmptySet DEF Init
<1>2. HeightsDense
  BY <1>1 DEF HeightsDense
<1>3. StoredSeq = <<>>
  BY <1>1 DEF StoredSeq
<1> QED
  BY <1>2, <1>3 DEF Stored!Init

\* A step of the node is a step of the chain or leaves it alone.
LEMMA StoredStep ==
  ASSUME IInv, IInv', HeightsDense, HeightsDense', [Next]_vars
  PROVE  [Stored!Next]_StoredSeq
<1>1. CASE db' = db
  BY <1>1 DEF StoredSeq
<1>2. CASE DbInsert /\ db' = db \cup {blk} /\ db' # db
  <2>1. Stored!StoreNext
    BY <1>2, StoredAppend DEF Stored!StoreNext, Stored!Last
  <2> QED
    BY <2>1 DEF Stored!Next
<1>3. CASE DbDelete /\ db' = db \ {LastBlock} /\ LastBlock \in db
  <2>1. Stored!DeleteLast
    BY <1>3, StoredFront DEF Stored!DeleteLast, Stored!Front, Front
  <2> QED
    BY <2>1 DEF Stored!Next
<1>4. CASE WarmUpDone /\ chain = <<>> /\ db' = {Genesis}
  <2>1. db = {} /\ Cardinality(db) = 0 /\ Cardinality(db') = 1
    BY <1>4, GenesisStored, FS_EmptySet, FS_Singleton DEF IInv
  <2>2. StoredSeq = <<>>
    BY <2>1 DEF StoredSeq
  <2>3. Genesis.height = 1 /\ Genesis \in Blocks
    BY NodeAssumption
  <2>4. PICK t : t = StoredSeq'
    OBVIOUS
  <2>5. t = [h \in 1..1 |-> IF \E b \in {Genesis} : b.height = h
                            THEN CHOOSE b \in {Genesis} : b.height = h
                            ELSE NoBlock]
    BY <1>4, <2>1, <2>4 DEF StoredSeq
  <2>6. t[1] = Genesis
    BY <2>3, <2>5
  <2>7. t = <<Genesis>>
    BY <2>5, <2>6
  <2>8. Stored!StoreGenesis
    BY <2>2, <2>4, <2>7 DEF Stored!StoreGenesis
  <2> QED
    BY <2>8 DEF Stored!Next
<1> QED
  BY <1>1, <1>2, <1>3, <1>4, TableChanges

\* The block table of a node is a chain that starts with the genesis block and
\* changes at its end only, through crashes, failed insertions, replaced blocks
\* and synchronizations, as long as the deletion of a block does not fail.
THEOREM StoredChainHolds == Spec /\ [][~DeleteLost]_vars => StoredChainSpec
<1>1. Init => Stored!Init /\ HeightsDense
  BY StoredInit
<1>2. IInv /\ IInv' /\ HeightsDense /\ [Next]_vars => HeightsDense'
  BY DenseNext
<1>3. IInv /\ IInv' /\ HeightsDense /\ HeightsDense' /\ [Next]_vars
        => [Stored!Next]_StoredSeq
  BY StoredStep
<1>4. Spec /\ [][~DeleteLost]_vars => []IInv
  BY IInvariant
<1> QED
  BY <1>1, <1>2, <1>3, <1>4, PTL DEF Spec, StoredChainSpec, Stored!Spec

-----------------------------------------------------------------------------
(* The inductive invariant of the dispatcher.                              *)

Callbacks == OnTopics \cup {"MAIN"}

\* processMainQueue is not, or exactly once, among the callbacks s.
NoMain(s)  == \A i \in 1..Len(s) : s[i] # "MAIN"
OneMain(s) == \E k \in 1..Len(s) :
                 /\ s[k] = "MAIN"
                 /\ \A i \in 1..Len(s) : s[i] = "MAIN" => i = k

Scheduled == IF pc = "idle" /\ mainQ # <<>> THEN OneMain(imm) ELSE NoMain(imm)

\* The running task is still in the queue; while the loader is at work no
\* task can have been queued.
TaskQueued ==
  /\ Stage \in BootPoints \cup {"dead"} => mainQ = <<>>
  /\ Stage \notin BootPoints \cup {"dead", "idle"} => mainQ # <<>>

\* An await waits for callbacks that are queued.
Waiting ==
  /\ ahead <= Len(imm)
  /\ pc \notin AwaitPoints \ {"idle"} => ahead = 0

\* restoreToSlot is called where the code goes on without an await.
Continues == pc = "restore" => then \notin AwaitPoints \cup {"dead", "warmUp"}

DispatchInv ==
  DispatcherTypeOK /\ Scheduled /\ TaskQueued /\ Waiting /\ Continues

-----------------------------------------------------------------------------
(* The types of what rounds and timers keep.                               *)

\* Only a process that has not seen a first round has none; then nothing that
\* works on the current round is scheduled.
RoundsKnown ==
  rounds = <<>> =>
    /\ finTimer = 0
    /\ pc # "restore"
    /\ "ROUND_FINISH" \notin ToSet(imm)
    /\ \A e \in ToSet(evq) : e.topic # "ROUND_FINISH"

ScheduleInv == ScheduleTypeOK /\ RoundsKnown

-----------------------------------------------------------------------------
(* Lemmas about callbacks.                                                 *)

\* A further callback.
LEMMA CallbackAdded ==
  ASSUME NEW s \in Seq(Callbacks), NEW e \in Callbacks
  PROVE  /\ Append(s, e) \in Seq(Callbacks)
         /\ Len(Append(s, e)) = Len(s) + 1
         /\ NoMain(s) /\ e # "MAIN" => NoMain(Append(s, e))
         /\ NoMain(s) /\ e = "MAIN" => OneMain(Append(s, e))
         /\ OneMain(s) /\ e # "MAIN" => OneMain(Append(s, e))
<1>1. PICK t : t = Append(s, e)
  OBVIOUS
<1>2. PICK n \in Nat : n = Len(s)
  BY LenProperties
<1>3. /\ t \in Seq(Callbacks) /\ Len(t) = n + 1
      /\ \A i \in 1..n : t[i] = s[i]
      /\ t[n + 1] = e
  BY <1>1, <1>2, AppendProperties
<1>4. \A i \in 1..n + 1 : i \in 1..n \/ i = n + 1
  OBVIOUS
<1>5. NoMain(s) /\ e # "MAIN" => NoMain(t)
  BY <1>2, <1>3, <1>4 DEF NoMain
<1>6. NoMain(s) /\ e = "MAIN" => OneMain(t)
  BY <1>2, <1>3, <1>4 DEF NoMain, OneMain
<1>7. ASSUME OneMain(s), e # "MAIN" PROVE OneMain(t)
  <2>1. PICK k \in 1..n : s[k] = "MAIN" /\ \A i \in 1..n : s[i] = "MAIN" => i = k
    BY <1>2, <1>7 DEF OneMain
  <2>2. k \in 1..n + 1 /\ t[k] = "MAIN"
    BY <1>3, <2>1
  <2> QED
    BY <1>3, <1>4, <1>7, <2>1, <2>2 DEF OneMain
<1> QED
  BY <1>1, <1>2, <1>3, <1>5, <1>6, <1>7

\* The first callback has run.
LEMMA CallbackRun ==
  ASSUME NEW s \in Seq(Callbacks), s # <<>>
  PROVE  /\ Tail(s) \in Seq(Callbacks)
         /\ Len(Tail(s)) = Len(s) - 1 /\ Len(s) \in Nat \ {0}
         /\ NoMain(s) => NoMain(Tail(s))
         /\ OneMain(s) /\ Head(s) = "MAIN" => NoMain(Tail(s))
         /\ OneMain(s) /\ Head(s) # "MAIN" => OneMain(Tail(s))
<1>1. PICK t : t = Tail(s)
  OBVIOUS
<1>2. PICK n \in Nat \ {0} : n = Len(s)
  BY EmptySeq
<1>3. t \in Seq(Callbacks) /\ Len(t) = n - 1 /\ \A i \in 1..n - 1 : t[i] = s[i + 1]
  BY <1>1, <1>2, HeadTailProperties
<1>4. Head(s) = s[1]
  BY SMT
<1>5. \A i \in 1..n - 1 : i + 1 \in 1..n /\ i + 1 # 1
  OBVIOUS
<1>6. NoMain(s) => NoMain(t)
  BY <1>2, <1>3, <1>5 DEF NoMain
<1>7. ASSUME OneMain(s) PROVE s[1] = "MAIN" => NoMain(t)
  <2>1. PICK k \in 1..n : s[k] = "MAIN" /\ \A i \in 1..n : s[i] = "MAIN" => i = k
    BY <1>2, <1>7 DEF OneMain
  <2>2. s[1] = "MAIN" => k = 1
    BY <2>1
  <2> QED
    BY <1>3, <1>5, <2>1, <2>2 DEF NoMain
<1>8. ASSUME OneMain(s), s[1] # "MAIN" PROVE OneMain(t)
  <2>1. PICK k \in 1..n : s[k] = "MAIN" /\ \A i \in 1..n : s[i] = "MAIN" => i = k
    BY <1>2, <1>8 DEF OneMain
  <2>2. k - 1 \in 1..n - 1 /\ (k - 1) + 1 = k
    BY <1>8, <2>1
  <2>3. t[k - 1] = "MAIN"
    BY <1>3, <2>1, <2>2
  <2>4. ASSUME NEW i \in 1..n - 1, t[i] = "MAIN" PROVE i = k - 1
    <3>1. i + 1 = k
      BY <1>3, <1>5, <2>1, <2>4
    <3> QED
      BY <3>1
  <2> QED
    BY <1>3, <2>2, <2>3, <2>4 DEF OneMain
<1> QED
  BY <1>1, <1>2, <1>3, <1>4, <1>6, <1>7, <1>8

\* Further callbacks.
LEMMA CallbacksAdded ==
  ASSUME NEW s \in Seq(Callbacks), NEW t \in Seq(Callbacks)
  PROVE  /\ s \o t \in Seq(Callbacks)
         /\ Len(s) \in Nat /\ Len(s \o t) >= Len(s)
         /\ NoMain(s) /\ NoMain(t) => NoMain(s \o t)
<1>1. PICK u : u = s \o t
  OBVIOUS
<1>2. PICK m \in Nat, n \in Nat : m = Len(s) /\ n = Len(t)
  BY LenProperties
<1>3. /\ u \in Seq(Callbacks) /\ Len(u) = m + n
      /\ \A i \in 1..m + n : u[i] = IF i <= m THEN s[i] ELSE t[i - m]
  BY <1>1, <1>2, ConcatProperties
<1>4. \A i \in 1..m + n : IF i <= m THEN i \in 1..m ELSE i - m \in 1..n
  OBVIOUS
<1>5. NoMain(s) /\ NoMain(t) => NoMain(u)
  BY <1>2, <1>3, <1>4 DEF NoMain
<1> QED
  BY <1>1, <1>2, <1>3, <1>5

-----------------------------------------------------------------------------
(* Events put aside.                                                       *)

\* What EventsOf takes out of the queue are events of the queue with one of
\* the topics.
LEMMA EventsOfTopics ==
  ASSUME NEW S, evq \in Seq(S), NEW topics
  PROVE  EventsOf(topics) \in Seq({e \in S : e.topic \in topics})
<1> DEFINE R == {e \in S : e.topic \in topics}
           add(v, i) == IF evq[i].topic \in topics THEN Append(v, evq[i]) ELSE v
           defines(f) == f = [i \in 0..Len(evq) |->
                                IF i = 0 THEN <<>>
                                ELSE IF evq[i].topic \in topics
                                     THEN Append(f[i - 1], evq[i])
                                ELSE f[i - 1]]
           step == [i \in 1..Len(evq) |-> [v \in Seq(R) |-> add(v, i)]]
<1>1. Len(evq) \in Nat /\ \A i \in 1..Len(evq) : evq[i] \in S
  BY LenProperties, ElementOfSeq
<1>2. step \in [1..Len(evq) -> [Seq(R) -> Seq(R)]]
  <2>1. \A i \in 1..Len(evq), v \in Seq(R) :
          evq[i].topic \in topics => Append(v, evq[i]) \in Seq(R)
    BY <1>1, AppendProperties
  <2> QED
    BY <2>1
<1>3. PICK f \in [0..Len(evq) -> Seq(R)] : IsRun(f, <<>>, step, Len(evq))
  <2> HIDE DEF step, R
  <2>1. <<>> \in Seq(R)
    BY EmptySeq
  <2>2. PICK n \in Nat : n = Len(evq)
    BY <1>1
  <2>3. PICK Q, q, w : Q = Seq(R) /\ q = step /\ w = <<>>
    OBVIOUS
  <2>4. w \in Q /\ Steps(q, n, Q)
    BY <1>2, <2>1, <2>2, <2>3 DEF Steps
  <2>5. \E h \in [0..n -> Q] : IsRun(h, w, q, n)
    BY <2>2, <2>4, Recursion
  <2> QED
    BY <2>2, <2>3, <2>5
<1>4. defines(f)
  <2>1. \A i \in 1..Len(evq) : i - 1 \in 0..Len(evq) /\ f[i - 1] \in Seq(R)
    BY <1>1
  <2>2. \A i \in 0..Len(evq) :
          f[i] = IF i = 0 THEN <<>>
                 ELSE IF evq[i].topic \in topics THEN Append(f[i - 1], evq[i])
                 ELSE f[i - 1]
    <3> TAKE i \in 0..Len(evq)
    <3>1. CASE i = 0
      BY <1>3, <3>1 DEF IsRun
    <3>2. CASE i # 0
      <4>1. i \in 1..Len(evq) /\ f[i - 1] \in Seq(R)
        BY <1>1, <2>1, <3>2
      <4>2. f[i] = step[i][f[i - 1]]
        BY <1>3, <4>1 DEF IsRun
      <4>3. step[i][f[i - 1]] = add(f[i - 1], i)
        BY <4>1
      <4> QED
        BY <3>2, <4>2, <4>3
    <3> QED
      BY <3>1, <3>2
  <2> QED
    BY <1>3, <2>2
<1>5. PICK g : g = CHOOSE h : defines(h)
  OBVIOUS
<1>6. defines(g)
  BY <1>4, <1>5
<1>7. EventsOf(topics) = g[Len(evq)]
  BY <1>5 DEF EventsOf
<1> DEFINE D == {k \in Nat : k <= Len(evq) => g[k] \in Seq(R)}
<1>8. 0 \in D
  BY <1>1, <1>6, EmptySeq
<1>9. ASSUME NEW k \in Nat, k \in D PROVE k + 1 \in D
  <2> SUFFICES ASSUME k + 1 <= Len(evq) PROVE g[k + 1] \in Seq(R)
    OBVIOUS
  <2>1. /\ k + 1 \in 0..Len(evq) /\ k + 1 \in 1..Len(evq)
        /\ k + 1 # 0 /\ (k + 1) - 1 = k
    BY <1>1
  <2>2. g[k + 1] = IF evq[k + 1].topic \in topics
                   THEN Append(g[k], evq[k + 1]) ELSE g[k]
    BY <1>6, <2>1
  <2>3. g[k] \in Seq(R)
    BY <1>1, <1>9
  <2>4. evq[k + 1].topic \in topics => evq[k + 1] \in R
    BY <1>1, <2>1
  <2> HIDE DEF R
  <2> QED
    BY <2>2, <2>3, <2>4, AppendProperties
<1>10. Nat \subseteq D
  <2> HIDE DEF D
  <2> QED
    BY <1>8, <1>9, Induction
<1>11. Len(evq) \in D
  BY <1>1, <1>10
<1> QED
  BY <1>7, <1>11

-----------------------------------------------------------------------------
(* DispatchInv.                                                            *)

\* messageON, from a timer or a peer.
LEMMA EventSent ==
  ASSUME DispatchInv, AtAwait, NEW e \in Events, MessageON(e),
         UNCHANGED <<pc, then, ahead>>
  PROVE  /\ mainQ' \in Seq(Events) /\ evq' \in Seq(Events)
         /\ imm' \in Seq(Callbacks)
         /\ Scheduled' /\ TaskQueued' /\ Waiting'
<1> USE DEF DispatchInv, DispatcherTypeOK, Callbacks
<1>1. e.topic \in MainTopics \cup OnTopics /\ Len(imm) \in Nat
  BY LenProperties DEF Events
<1>2. /\ Append(mainQ, e) \in Seq(Events) /\ Append(mainQ, e) # <<>>
      /\ Append(evq, e) \in Seq(Events)
  BY AppendProperties
<1>3. /\ Append(imm, "MAIN") \in Seq(Callbacks)
      /\ Len(Append(imm, "MAIN")) = Len(imm) + 1
      /\ NoMain(imm) => OneMain(Append(imm, "MAIN"))
  BY CallbackAdded
<1>4. ASSUME e.topic \notin MainTopics
      PROVE  /\ Append(imm, e.topic) \in Seq(Callbacks)
             /\ Len(Append(imm, e.topic)) = Len(imm) + 1
             /\ NoMain(imm) => NoMain(Append(imm, e.topic))
             /\ OneMain(imm) => OneMain(Append(imm, e.topic))
  <2>1. e.topic \in Callbacks /\ e.topic # "MAIN"
    BY <1>1, <1>4 DEF OnTopics
  <2> QED
    BY <2>1, CallbackAdded
<1>5. Stage' = Stage /\ Stage = pc
  BY DEF Stage, AtAwait, AwaitPoints
<1>6. CASE sync
  BY <1>2, <1>5, <1>6 DEF MessageON, Scheduled, TaskQueued, Waiting
<1>7. CASE ~sync /\ e.topic \in MainTopics
  <2>1. /\ mainQ' = Append(mainQ, e) /\ evq' = evq
        /\ imm' = IF mainQ = <<>> THEN Append(imm, "MAIN") ELSE imm
    BY <1>7 DEF MessageON
  <2>2. mainQ = <<>> => pc = "idle" /\ NoMain(imm)
    BY <1>5
    DEF Scheduled, TaskQueued, AtAwait, AwaitPoints, BootPoints
  <2> QED
    BY <1>1, <1>2, <1>3, <1>5, <2>1, <2>2
    DEF Scheduled, TaskQueued, Waiting, AtAwait, AwaitPoints, BootPoints
<1>8. CASE ~sync /\ e.topic \notin MainTopics
  <2>1. mainQ' = mainQ /\ evq' = evq /\ imm' = Append(imm, e.topic)
    BY <1>8 DEF MessageON
  <2> QED
    BY <1>1, <1>4, <1>5, <1>8, <2>1 DEF Scheduled, TaskQueued, Waiting
<1> QED
  BY <1>6, <1>7, <1>8

\* The end of a task schedules the next one, if there is one.
LEMMA NextScheduled ==
  ASSUME NEW queue \in Seq(Events), queue # <<>>,
         NEW callbacks \in Seq(Callbacks), NoMain(callbacks),
         ahead = 0, NextTask(queue, callbacks)
  PROVE  /\ mainQ' \in Seq(Events) /\ imm' \in Seq(Callbacks)
         /\ Scheduled' /\ TaskQueued' /\ Waiting' /\ Continues'
<1>1. Tail(queue) \in Seq(Events)
  BY HeadTailProperties
<1>2. /\ Append(callbacks, "MAIN") \in Seq(Callbacks)
      /\ OneMain(Append(callbacks, "MAIN"))
  BY CallbackAdded DEF Callbacks
<1>3. imm' \in Seq(Callbacks)
  BY <1>2 DEF NextTask
<1>4. Len(imm') \in Nat
  BY <1>3, LenProperties
<1> QED
  BY <1>1, <1>2, <1>3, <1>4
  DEF NextTask, Scheduled, TaskQueued, Waiting, Continues, Stage, AwaitPoints,
      BootPoints

\* The same for a task that has perhaps emitted EMIT_SYNC_BLOCKS.
LEMMA NextAfterFinish ==
  ASSUME mainQ \in Seq(Events), evq \in Seq(Events), mainQ # <<>>, ahead = 0,
         NEW callbacks \in Seq(Callbacks), NoMain(callbacks),
         NEW emitSync, FinishTask(callbacks, emitSync)
  PROVE  /\ mainQ' \in Seq(Events) /\ imm' \in Seq(Callbacks)
         /\ evq' \in Seq(Events)
         /\ Scheduled' /\ TaskQueued' /\ Waiting' /\ Continues'
<1>1. PICK queue : queue = IF emitSync THEN Append(mainQ, Sync) ELSE mainQ
  OBVIOUS
<1>2. Sync \in Events
  BY DEF Sync, Event, Events, MainTopics
<1>3. queue \in Seq(Events) /\ queue # <<>>
  BY <1>1, <1>2, AppendProperties
<1>4. NextTask(queue, callbacks) /\ evq' = evq
  BY <1>1 DEF FinishTask
<1> QED
  BY <1>3, <1>4, NextScheduled

\* processMainQueue takes the first task.
LEMMA TaskTaken ==
  ASSUME DispatchInv, pc = "idle", imm # <<>>, Head(imm) = "MAIN"
  PROVE  /\ mainQ # <<>> /\ ahead = 0
         /\ Tail(imm) \in Seq(Callbacks) /\ NoMain(Tail(imm))
         /\ Len(Tail(imm)) \in Nat
<1> USE DEF DispatchInv, DispatcherTypeOK, Callbacks
<1>1. imm[1] = "MAIN" /\ 1 \in 1..Len(imm)
  <2>1. Len(imm) \in Nat \ {0}
    BY EmptySeq
  <2> QED
    BY <2>1, SMT
<1>2. ~NoMain(imm)
  BY <1>1 DEF NoMain
<1>3. mainQ # <<>> /\ OneMain(imm)
  BY <1>2 DEF Scheduled
<1>4. /\ Tail(imm) \in Seq(Callbacks) /\ NoMain(Tail(imm))
      /\ Len(Tail(imm)) = Len(imm) - 1 /\ Len(imm) \in Nat \ {0}
  BY <1>3, CallbackRun
<1> QED
  BY <1>3, <1>4 DEF Waiting

\* An ON event is handled.
LEMMA EventHandled ==
  ASSUME DispatchInv, NEW name \in OnTopics, RunCallback(name),
         UNCHANGED <<pc, mainQ, then>>
  PROVE  /\ imm' \in Seq(Callbacks)
         /\ Scheduled' /\ TaskQueued' /\ Waiting'
<1> USE DEF DispatchInv, DispatcherTypeOK, Callbacks
<1>1. imm # <<>> /\ Head(imm) # "MAIN" /\ imm' = Tail(imm)
  BY DEF RunCallback, OnTopics
<1>2. /\ Tail(imm) \in Seq(Callbacks)
      /\ Len(Tail(imm)) = Len(imm) - 1 /\ Len(imm) \in Nat \ {0}
      /\ NoMain(imm) => NoMain(Tail(imm))
      /\ OneMain(imm) => OneMain(Tail(imm))
  BY <1>1, CallbackRun
<1>3. Stage' = Stage
  BY DEF Stage
<1>4. ahead' = IF ahead > 0 THEN ahead - 1 ELSE 0
  BY DEF RunCallback
<1> QED
  BY <1>1, <1>2, <1>3, <1>4 DEF Scheduled, TaskQueued, Waiting

\* A process that starts has nothing to do but to load.
LEMMA DispatchInit == Init => DispatchInv
<1> SUFFICES ASSUME Init PROVE DispatchInv
  OBVIOUS
<1>1. /\ mainQ = <<>> /\ imm = <<>> /\ evq = <<>> /\ pc = "warmUp" /\ ahead = 0
      /\ sync = TRUE /\ locked = FALSE /\ syncTimer = FALSE /\ crashes = 0
  BY DEF Init
<1>2. mainQ \in Seq(Events) /\ evq \in Seq(Events) /\ imm \in Seq(Callbacks)
  BY <1>1, EmptySeq
<1>3. Len(imm) = 0
  BY <1>1, EmptySeq
<1>4. NoMain(imm)
  BY <1>3 DEF NoMain
<1>5. DispatcherTypeOK
  <2>1. sync \in BOOLEAN /\ locked \in BOOLEAN /\ syncTimer \in BOOLEAN
    BY <1>1
  <2>2. ahead \in Nat /\ crashes \in Nat
    BY <1>1
  <2> QED
    BY <1>2, <2>1, <2>2 DEF DispatcherTypeOK, Callbacks
<1> QED
  BY <1>1, <1>3, <1>4, <1>5
  DEF DispatchInv, Scheduled, TaskQueued, Waiting, Continues, Stage,
      BootPoints, AwaitPoints

\* Every step keeps the dispatcher in order.
LEMMA DispatchNext ==
  BaseInv /\ ScheduleTypeOK /\ DispatchInv /\ [Next]_vars => DispatchInv'
<1> SUFFICES ASSUME BaseInv, ScheduleTypeOK, DispatchInv, [Next]_vars
             PROVE  DispatchInv'
  OBVIOUS
<1>a. pc \in Points /\ then \in Points /\ then # "restore"
  BY DEF BaseInv, StoreTypeOK
<1>b. /\ mainQ \in Seq(Events) /\ evq \in Seq(Events) /\ imm \in Seq(Callbacks)
      /\ Len(imm) \in Nat /\ ahead \in Nat /\ crashes \in Nat
      /\ sync \in BOOLEAN /\ locked \in BOOLEAN /\ syncTimer \in BOOLEAN
  BY LenProperties DEF DispatchInv, DispatcherTypeOK, Callbacks
<1>c. pc = "idle" /\ imm # <<>> /\ Head(imm) = "MAIN"
        => /\ mainQ # <<>> /\ ahead = 0
           /\ Tail(imm) \in Seq(Callbacks) /\ NoMain(Tail(imm))
           /\ Len(Tail(imm)) \in Nat
  BY TaskTaken
<1>d. ASSUME UNCHANGED <<queueVars, pc, then, ahead, crashes>>,
             sync' \in BOOLEAN, locked' \in BOOLEAN, syncTimer' \in BOOLEAN
      PROVE  DispatchInv'
  BY <1>d
  DEF DispatchInv, DispatcherTypeOK, Scheduled, TaskQueued, Waiting, Continues,
      Stage, queueVars
<1>e. ASSUME /\ mainQ' \in Seq(Events) /\ evq' \in Seq(Events)
             /\ imm' \in Seq(Callbacks)
             /\ Scheduled' /\ TaskQueued' /\ Waiting' /\ Continues',
             ahead' \in Nat, crashes' \in Nat,
             sync' \in BOOLEAN, locked' \in BOOLEAN, syncTimer' \in BOOLEAN
      PROVE  DispatchInv'
  BY <1>e DEF DispatchInv, DispatcherTypeOK, Callbacks
<1>f. ASSUME pc \notin BootPoints \cup {"dead", "idle"},
             Stage \notin BootPoints \cup {"dead", "idle"}
      PROVE  mainQ # <<>> /\ NoMain(imm)
  BY <1>f DEF DispatchInv, Scheduled, TaskQueued
<1> USE DEF chainVars, roundVars, timerVars, queueVars, taskVars, miscVars, Released,
        Points, AwaitPoints, BootPoints, TaskPoints, Stage
<1>1. CASE RestoreStep
  BY <1>1, <1>a, <1>b
  DEF RestoreStep, LeaveRestore, DispatchInv, DispatcherTypeOK, Callbacks, Scheduled, TaskQueued,
      Waiting, Continues, Restore, Await
<1>2. CASE RoundFinish
  <2>1. /\ RunCallback("ROUND_FINISH") /\ UNCHANGED <<pc, mainQ, then, evq>>
        /\ UNCHANGED <<sync, locked, syncTimer, crashes>>
    BY <1>2 DEF RoundFinish
  <2>2. "ROUND_FINISH" \in OnTopics
    BY DEF OnTopics
  <2>3. imm' \in Seq(Callbacks) /\ Scheduled' /\ TaskQueued' /\ Waiting'
    BY <2>1, <2>2, EventHandled
  <2>4. ahead' \in Nat /\ Continues'
    BY <1>b, <2>1 DEF RunCallback, DispatchInv, Continues
  <2> QED
    BY <1>b, <1>e, <2>1, <2>3, <2>4
<1>3. CASE WarmUpFinished
  <2>1. /\ RunCallback("WARM_UP_FINISHED") /\ UNCHANGED <<pc, mainQ, then, evq>>
        /\ UNCHANGED <<sync, locked, syncTimer, crashes>>
    BY <1>3 DEF WarmUpFinished
  <2>2. "WARM_UP_FINISHED" \in OnTopics
    BY DEF OnTopics
  <2>3. imm' \in Seq(Callbacks) /\ Scheduled' /\ TaskQueued' /\ Waiting'
    BY <2>1, <2>2, EventHandled
  <2>4. ahead' \in Nat /\ Continues'
    BY <1>b, <2>1 DEF RunCallback, DispatchInv, Continues
  <2> QED
    BY <1>b, <1>e, <2>1, <2>3, <2>4
<1>4. CASE RefuseBlock
  <2>1. mainQ # <<>> /\ ahead = 0 /\ Tail(imm) \in Seq(Callbacks) /\ NoMain(Tail(imm))
    BY <1>4, <1>b, <1>c DEF RefuseBlock, TaskBegins
  <2>2. PICK emitSync : FinishTask(Tail(imm), emitSync)
    BY <1>4 DEF RefuseBlock
  <2>3. /\ mainQ' \in Seq(Events) /\ imm' \in Seq(Callbacks) /\ evq' \in Seq(Events)
        /\ Scheduled' /\ TaskQueued' /\ Waiting' /\ Continues'
    BY <1>b, <2>1, <2>2, NextAfterFinish
  <2>4. ahead' = ahead
    BY <2>2 DEF FinishTask, NextTask
  <2> QED
    BY <1>4, <1>b, <1>e, <2>3, <2>4 DEF RefuseBlock
<1>5. CASE AcceptNext
  BY <1>5, <1>a, <1>b, <1>c
  DEF AcceptNext, TaskBegins, DispatchInv, DispatcherTypeOK, Callbacks, Scheduled,
      TaskQueued, Waiting, Continues, Restore, Await
<1>6. CASE AcceptReplacement
  BY <1>6, <1>a, <1>b, <1>c
  DEF AcceptReplacement, TaskBegins, DispatchInv, DispatcherTypeOK, Callbacks, Scheduled,
      TaskQueued, Waiting, Continues, Restore, Await
<1>7. CASE SkipForging
  <2>1. mainQ # <<>> /\ ahead = 0 /\ Tail(imm) \in Seq(Callbacks) /\ NoMain(Tail(imm))
    BY <1>7, <1>b, <1>c DEF SkipForging, TaskBegins
  <2>2. PICK emitSync : FinishTask(Tail(imm), emitSync)
    BY <1>7 DEF SkipForging
  <2>3. /\ mainQ' \in Seq(Events) /\ imm' \in Seq(Callbacks) /\ evq' \in Seq(Events)
        /\ Scheduled' /\ TaskQueued' /\ Waiting' /\ Continues'
    BY <1>b, <2>1, <2>2, NextAfterFinish
  <2>4. ahead' = ahead
    BY <2>2 DEF FinishTask, NextTask
  <2> QED
    BY <1>7, <1>b, <1>e, <2>3, <2>4 DEF SkipForging
<1>8. CASE Forge
  BY <1>8, <1>a, <1>b, <1>c
  DEF Forge, TaskBegins, DispatchInv, DispatcherTypeOK, Callbacks, Scheduled,
      TaskQueued, Waiting, Continues, Restore, Await
<1>9. CASE ForgeFails
  <2>1. mainQ # <<>> /\ ahead = 0 /\ Tail(imm) \in Seq(Callbacks) /\ NoMain(Tail(imm))
    BY <1>9, <1>b, <1>c DEF ForgeFails, TaskBegins
  <2>2. PICK emitSync : FinishTask(Tail(imm), emitSync)
    BY <1>9 DEF ForgeFails
  <2>3. /\ mainQ' \in Seq(Events) /\ imm' \in Seq(Callbacks) /\ evq' \in Seq(Events)
        /\ Scheduled' /\ TaskQueued' /\ Waiting' /\ Continues'
    BY <1>b, <2>1, <2>2, NextAfterFinish
  <2>4. ahead' = ahead
    BY <2>2 DEF FinishTask, NextTask
  <2> QED
    BY <1>9, <1>b, <1>e, <2>3, <2>4 DEF ForgeFails
<1>43. CASE ForgeThrows
  <2>1. mainQ # <<>> /\ ahead = 0 /\ Tail(imm) \in Seq(Callbacks) /\ NoMain(Tail(imm))
    BY <1>43, <1>b, <1>c DEF ForgeThrows, TaskBegins
  <2>2. PICK emitSync : FinishTask(Tail(imm), emitSync)
    BY <1>43 DEF ForgeThrows
  <2>3. /\ mainQ' \in Seq(Events) /\ imm' \in Seq(Callbacks) /\ evq' \in Seq(Events)
        /\ Scheduled' /\ TaskQueued' /\ Waiting' /\ Continues'
    BY <1>b, <2>1, <2>2, NextAfterFinish
  <2>4. ahead' = ahead
    BY <2>2 DEF FinishTask, NextTask
  <2> QED
    BY <1>43, <1>b, <1>e, <2>3, <2>4 DEF ForgeThrows
<1>10. CASE StartSync
  BY <1>10, <1>a, <1>b, <1>c
  DEF StartSync, TaskBegins, DispatchInv, DispatcherTypeOK, Callbacks, Scheduled,
      TaskQueued, Waiting, Continues, Restore, Await
<1>11. CASE SendDelete
  BY <1>11, <1>a, <1>b
  DEF SendDelete, AfterFailedDelete, DispatchInv, DispatcherTypeOK, Callbacks, Scheduled, TaskQueued,
      Waiting, Continues, Restore, Await
<1>12. CASE DbDelete
  BY <1>12, <1>b, <1>d DEF DbDelete
<1>13. CASE DeleteAnswered
  BY <1>13, <1>a, <1>b
  DEF DeleteAnswered, AfterFailedDelete, DispatchInv, DispatcherTypeOK, Callbacks, Scheduled, TaskQueued,
      Waiting, Continues, Restore, Await
<1>14. CASE Undo
  <2>1. CASE LastBlock.generator \in Active(CurrentRound)
    BY <1>14, <2>1, <1>a, <1>b
    DEF Undo, Pop, DispatchInv, DispatcherTypeOK, Callbacks, Scheduled, TaskQueued,
        Waiting, Continues
  <2>2. CASE LastBlock.generator \notin Active(CurrentRound)
    <3>1. mainQ # <<>> /\ ahead = 0 /\ NoMain(imm)
      BY <1>14, <1>f DEF Undo, Pop, DispatchInv, Waiting
    <3>2. FinishTask(imm, FALSE) /\ UNCHANGED <<sync, locked, timerVars, lastSync, crashes>>
      BY <1>14, <2>2 DEF Undo, Pop, AbortTask
    <3>3. /\ mainQ' \in Seq(Events) /\ imm' \in Seq(Callbacks)
          /\ evq' \in Seq(Events)
          /\ Scheduled' /\ TaskQueued' /\ Waiting' /\ Continues'
      BY <1>b, <3>1, <3>2, NextAfterFinish
    <3>4. ahead' = ahead
      BY <3>2 DEF FinishTask, NextTask
    <3> QED
      BY <1>b, <1>e, <3>2, <3>3, <3>4
  <2> QED
    BY <2>1, <2>2
<1>15. CASE AfterRollback
  BY <1>15, <1>a, <1>b
  DEF AfterRollback, DispatchInv, DispatcherTypeOK, Callbacks, Scheduled, TaskQueued,
      Waiting, Continues, Restore, Await
<1>16. CASE RestoreReceived
  BY <1>16, <1>a, <1>b
  DEF RestoreReceived, DispatchInv, DispatcherTypeOK, Callbacks, Scheduled, TaskQueued,
      Waiting, Continues, Restore, Await
<1>17. CASE ReceiveFails
  <2>1. mainQ # <<>> /\ ahead = 0 /\ NoMain(imm)
    BY <1>17, <1>f DEF ReceiveFails, DispatchInv, Waiting
  <2>2. CASE Task # "EMIT_SYNC_BLOCKS"
    <3>1. PICK emitSync : FinishTask(imm, emitSync)
      BY <1>17, <2>2 DEF ReceiveFails, ProcessFailed
    <3>2. /\ mainQ' \in Seq(Events) /\ imm' \in Seq(Callbacks)
          /\ evq' \in Seq(Events)
          /\ Scheduled' /\ TaskQueued' /\ Waiting' /\ Continues'
      BY <1>b, <2>1, <3>1, NextAfterFinish
    <3>3. ahead' = ahead
      BY <3>1 DEF FinishTask, NextTask
    <3> QED
      BY <1>17, <1>b, <1>e, <3>2, <3>3 DEF ReceiveFails, ProcessFailed
  <2>3. CASE Task = "EMIT_SYNC_BLOCKS"
    BY <1>17, <1>a, <1>b, <2>1, <2>3
    DEF ReceiveFails, ProcessFailed, DispatchInv, DispatcherTypeOK, Callbacks,
        Scheduled, TaskQueued, Waiting, Continues
  <2> QED
    BY <2>2, <2>3
<1>18. CASE ReceiveSaves
  BY <1>18, <1>a, <1>b
  DEF ReceiveSaves, DispatchInv, DispatcherTypeOK, Callbacks, Scheduled, TaskQueued,
      Waiting, Continues, Restore, Await
<1>19. CASE DbInsert
  BY <1>19, <1>b, <1>d DEF DbInsert
<1>20. CASE InsertFailed
  <2>1. mainQ # <<>> /\ ahead = 0 /\ NoMain(imm)
    BY <1>20, <1>f DEF InsertFailed, DispatchInv, Waiting
  <2>2. CASE Task # "EMIT_SYNC_BLOCKS"
    <3>1. PICK emitSync : FinishTask(imm, emitSync)
      BY <1>20, <2>2 DEF InsertFailed, ProcessFailed
    <3>2. /\ mainQ' \in Seq(Events) /\ imm' \in Seq(Callbacks)
          /\ evq' \in Seq(Events)
          /\ Scheduled' /\ TaskQueued' /\ Waiting' /\ Continues'
      BY <1>b, <2>1, <3>1, NextAfterFinish
    <3>3. ahead' = ahead
      BY <3>1 DEF FinishTask, NextTask
    <3> QED
      BY <1>20, <1>b, <1>e, <3>2, <3>3 DEF InsertFailed, ProcessFailed
  <2>3. CASE Task = "EMIT_SYNC_BLOCKS"
    BY <1>20, <1>a, <1>b, <2>1, <2>3
    DEF InsertFailed, ProcessFailed, DispatchInv, DispatcherTypeOK, Callbacks,
        Scheduled, TaskQueued, Waiting, Continues
  <2> QED
    BY <2>2, <2>3
<1>21. CASE ApplyBlock
  <2>1. mainQ # <<>> /\ ahead = 0 /\ NoMain(imm)
    BY <1>21, <1>f DEF ApplyBlock, DispatchInv, Waiting
  <2>2. CASE Task # "EMIT_SYNC_BLOCKS"
    <3>1. FinishTask(imm, FALSE)
      BY <1>21, <2>2 DEF ApplyBlock
    <3>2. /\ mainQ' \in Seq(Events) /\ imm' \in Seq(Callbacks)
          /\ evq' \in Seq(Events)
          /\ Scheduled' /\ TaskQueued' /\ Waiting' /\ Continues'
      BY <1>b, <2>1, <3>1, NextAfterFinish
    <3>3. ahead' = ahead
      BY <3>1 DEF FinishTask, NextTask
    <3> QED
      BY <1>21, <1>b, <1>e, <3>2, <3>3 DEF ApplyBlock
  <2>3. CASE Task = "EMIT_SYNC_BLOCKS"
    BY <1>21, <1>a, <1>b, <2>1, <2>3
    DEF ApplyBlock, DispatchInv, DispatcherTypeOK, Callbacks, Scheduled,
        TaskQueued, Waiting, Continues
  <2> QED
    BY <2>2, <2>3
<1>22. CASE ApplyThrows
  <2>1. mainQ # <<>> /\ ahead = 0 /\ NoMain(imm)
    BY <1>22, <1>f DEF ApplyThrows, DispatchInv, Waiting
  <2>2. FinishTask(imm, FALSE) /\ UNCHANGED <<sync, locked, timerVars, lastSync, crashes>>
    BY <1>22 DEF ApplyThrows, AbortTask
  <2>3. /\ mainQ' \in Seq(Events) /\ imm' \in Seq(Callbacks)
        /\ evq' \in Seq(Events)
        /\ Scheduled' /\ TaskQueued' /\ Waiting' /\ Continues'
    BY <1>b, <2>1, <2>2, NextAfterFinish
  <2>4. ahead' = ahead
    BY <2>2 DEF FinishTask, NextTask
  <2> QED
    BY <1>b, <1>e, <2>2, <2>3, <2>4
<1>23. CASE SyncWaitEnds
  BY <1>23, <1>a, <1>b
  DEF SyncWaitEnds, DispatchInv, DispatcherTypeOK, Callbacks, Scheduled, TaskQueued,
      Waiting, Continues, Restore, Await
<1>24. CASE SyncNotNeeded
  <2>1. mainQ # <<>> /\ ahead = 0 /\ NoMain(imm)
    BY <1>24, <1>f DEF SyncNotNeeded, DispatchInv, Waiting
  <2>2. PICK e : e = "WARM_UP_FINISHED"
    OBVIOUS
  <2>3. e \in Callbacks /\ e # "MAIN"
    BY <2>2 DEF Callbacks, OnTopics
  <2>4. Append(imm, e) \in Seq(Callbacks) /\ NoMain(Append(imm, e))
    BY <1>b, <2>1, <2>3, CallbackAdded
  <2>5. FinishTask(Append(imm, e), FALSE)
    BY <1>24, <2>2 DEF SyncNotNeeded
  <2>6. /\ mainQ' \in Seq(Events) /\ imm' \in Seq(Callbacks)
        /\ evq' \in Seq(Events)
        /\ Scheduled' /\ TaskQueued' /\ Waiting' /\ Continues'
    BY <1>b, <2>1, <2>4, <2>5, NextAfterFinish
  <2>7. ahead' = ahead
    BY <2>5 DEF FinishTask, NextTask
  <2> QED
    BY <1>24, <1>b, <1>e, <2>6, <2>7 DEF SyncNotNeeded
<1>25. CASE SyncBegins
  BY <1>25, <1>a, <1>b
  DEF SyncBegins, DispatchInv, DispatcherTypeOK, Callbacks, Scheduled, TaskQueued,
      Waiting, Continues, Restore, Await
<1>26. CASE SyncLoop
  <2>1. /\ pc = "syncLoop" /\ pc' \in {"syncExit", "syncNet"}
        /\ UNCHANGED <<queueVars, then, crashes, sync, locked, syncTimer>>
        /\ \/ pc' = "syncExit" /\ ahead' = ahead
           \/ pc' = "syncNet" /\ ahead' \in {0, Len(imm)}
    BY <1>26 DEF SyncLoop
  <2>2. mainQ # <<>> /\ NoMain(imm) /\ ahead = 0
    BY <2>1, <1>f DEF DispatchInv, Waiting
  <2>3. Scheduled' /\ TaskQueued' /\ Continues'
    BY <2>1, <2>2 DEF Scheduled, TaskQueued, Continues
  <2>4. Waiting' /\ ahead' \in Nat
    BY <1>b, <2>1, <2>2 DEF Waiting
  <2> QED
    BY <1>b, <1>e, <2>1, <2>3, <2>4
<1>27. CASE PeerAnswers
  BY <1>27, <1>a, <1>b
  DEF PeerAnswers, DispatchInv, DispatcherTypeOK, Callbacks, Scheduled, TaskQueued,
      Waiting, Continues, Restore, Await
<1>28. CASE SaveRequestedBlock
  BY <1>28, <1>a, <1>b
  DEF SaveRequestedBlock, DispatchInv, DispatcherTypeOK, Callbacks, Scheduled, TaskQueued,
      Waiting, Continues, Restore, Await
<1>29. CASE RequestedBlocksEnd
  BY <1>29, <1>a, <1>b
  DEF RequestedBlocksEnd, DispatchInv, DispatcherTypeOK, Callbacks, Scheduled, TaskQueued,
      Waiting, Continues, Restore, Await
<1>30. CASE SyncExit
  BY <1>30, <1>a, <1>b
  DEF SyncExit, DispatchInv, DispatcherTypeOK, Callbacks, Scheduled, TaskQueued,
      Waiting, Continues, Restore, Await
<1>31. CASE SyncDone
  <2>1. mainQ # <<>> /\ ahead = 0 /\ NoMain(imm)
    BY <1>31, <1>f DEF SyncDone, DispatchInv, Waiting
  <2>2. PICK e : e = "WARM_UP_FINISHED"
    OBVIOUS
  <2>3. e \in Callbacks /\ e # "MAIN"
    BY <2>2 DEF Callbacks, OnTopics
  <2>4. Append(imm, e) \in Seq(Callbacks) /\ NoMain(Append(imm, e))
    BY <1>b, <2>1, <2>3, CallbackAdded
  <2>5. PICK mains, ons : mains = EventsOf(MainTopics) /\ ons = EventsOf(OnTopics)
    OBVIOUS
  <2>6. mains \in Seq({x \in Events : x.topic \in MainTopics})
    BY <1>b, <2>5, EventsOfTopics
  <2>7. ons \in Seq({x \in Events : x.topic \in OnTopics})
    BY <1>b, <2>5, EventsOfTopics
  <2>8. /\ mainQ \o mains \in Seq(Events)
        /\ mainQ \o mains # <<>>
    <3>1. mains \in Seq(Events)
      BY <2>6, LenProperties, ElementOfSeq, SeqDef
    <3> QED
      BY <1>b, <2>1, <3>1, ConcatProperties
  <2>9. PICK topics : topics = [i \in DOMAIN ons |-> ons[i].topic]
    OBVIOUS
  <2>10. topics \in Seq(Callbacks) /\ NoMain(topics)
    <3>1. /\ Len(ons) \in Nat /\ DOMAIN ons = 1..Len(ons)
          /\ \A i \in 1..Len(ons) : ons[i].topic \in OnTopics
      BY <2>7, LenProperties, ElementOfSeq
    <3>2. topics \in [1..Len(ons) -> OnTopics]
      BY <2>9, <3>1
    <3>3. topics \in Seq(OnTopics) /\ Len(topics) = Len(ons)
      BY <3>1, <3>2, FunctionIsSeq
    <3>4. topics \in [1..Len(ons) -> Callbacks]
      BY <3>2 DEF Callbacks
    <3>5. topics \in Seq(Callbacks)
      BY <3>1, <3>4, FunctionIsSeq
    <3> QED
      BY <3>1, <3>2, <3>3, <3>5 DEF NoMain, OnTopics
  <2>11. PICK callbacks : callbacks = Append(imm, e) \o topics
    OBVIOUS
  <2>12. callbacks \in Seq(Callbacks) /\ NoMain(callbacks)
    BY <2>4, <2>10, <2>11, CallbacksAdded
  <2>13. NextTask(mainQ \o mains, callbacks)
    BY <1>31, <2>2, <2>5, <2>9, <2>11 DEF SyncDone
  <2>14. /\ mainQ' \in Seq(Events) /\ imm' \in Seq(Callbacks)
         /\ Scheduled' /\ TaskQueued' /\ Waiting' /\ Continues'
    BY <2>1, <2>8, <2>12, <2>13, NextScheduled
  <2>15. ahead' = ahead /\ evq' \in Seq(Events)
    BY <1>31, <2>13, EmptySeq DEF NextTask, SyncDone
  <2> QED
    BY <1>31, <1>b, <1>e, <2>14, <2>15 DEF SyncDone
<1>32. CASE WarmUp
  BY <1>32, <1>a, <1>b
  DEF WarmUp, DispatchInv, DispatcherTypeOK, Callbacks, Scheduled, TaskQueued,
      Waiting, Continues, Restore, Await
<1>33. CASE WarmRestore
  BY <1>33, <1>a, <1>b
  DEF WarmRestore, DispatchInv, DispatcherTypeOK, Callbacks, Scheduled, TaskQueued,
      Waiting, Continues, Restore, Await
<1>34. CASE WarmPush
  BY <1>34, <1>a, <1>b
  DEF WarmPush, DispatchInv, DispatcherTypeOK, Callbacks, Scheduled, TaskQueued,
      Waiting, Continues, Restore, Await
<1>35. CASE WarmUpDone
  BY <1>35, <1>a, <1>b
  DEF WarmUpDone, DispatchInv, DispatcherTypeOK, Callbacks, Scheduled, TaskQueued,
      Waiting, Continues, Restore, Await
<1>36. CASE GenTimerFires
  <2>1. Event("BLOCK_GENERATE", genTimer) \in Events
    BY DEF ScheduleTypeOK, Event, Events, MainTopics, OnTopics
  <2>2. AtAwait /\ MessageON(Event("BLOCK_GENERATE", genTimer)) /\ UNCHANGED <<pc, then, ahead>>
    BY <1>36 DEF GenTimerFires
  <2>3. /\ mainQ' \in Seq(Events) /\ evq' \in Seq(Events)
        /\ imm' \in Seq(Callbacks)
        /\ Scheduled' /\ TaskQueued' /\ Waiting'
    BY <2>1, <2>2, EventSent
  <2>4. Continues'
    BY <2>2 DEF DispatchInv, Continues
  <2> QED
    BY <1>36, <1>b, <1>e, <2>2, <2>3, <2>4 DEF GenTimerFires
<1>37. CASE FinTimerFires
  <2>1. Event("ROUND_FINISH", 0) \in Events
    BY DEF Event, Events, MainTopics, OnTopics
  <2>2. AtAwait /\ MessageON(Event("ROUND_FINISH", 0)) /\ UNCHANGED <<pc, then, ahead>>
    BY <1>37 DEF FinTimerFires
  <2>3. /\ mainQ' \in Seq(Events) /\ evq' \in Seq(Events)
        /\ imm' \in Seq(Callbacks)
        /\ Scheduled' /\ TaskQueued' /\ Waiting'
    BY <2>1, <2>2, EventSent
  <2>4. Continues'
    BY <2>2 DEF DispatchInv, Continues
  <2> QED
    BY <1>37, <1>b, <1>e, <2>2, <2>3, <2>4 DEF FinTimerFires
<1>38. CASE SyncTimerFires
  <2>1. Sync \in Events
    BY DEF Event, Events, MainTopics, OnTopics, Sync
  <2>2. AtAwait /\ MessageON(Sync) /\ UNCHANGED <<pc, then, ahead>>
    BY <1>38 DEF SyncTimerFires
  <2>3. /\ mainQ' \in Seq(Events) /\ evq' \in Seq(Events)
        /\ imm' \in Seq(Callbacks)
        /\ Scheduled' /\ TaskQueued' /\ Waiting'
    BY <2>1, <2>2, EventSent
  <2>4. Continues'
    BY <2>2 DEF DispatchInv, Continues
  <2> QED
    BY <1>38, <1>b, <1>e, <2>2, <2>3, <2>4 DEF SyncTimerFires
<1>39. CASE BlockArrives
  <2>1. Event("BLOCK_RECEIVE", 0) \in Events
    BY DEF Event, Events, MainTopics, OnTopics
  <2>2. AtAwait /\ MessageON(Event("BLOCK_RECEIVE", 0)) /\ UNCHANGED <<pc, then, ahead>>
    BY <1>39 DEF BlockArrives
  <2>3. /\ mainQ' \in Seq(Events) /\ evq' \in Seq(Events)
        /\ imm' \in Seq(Callbacks)
        /\ Scheduled' /\ TaskQueued' /\ Waiting'
    BY <2>1, <2>2, EventSent
  <2>4. Continues'
    BY <2>2 DEF DispatchInv, Continues
  <2> QED
    BY <1>39, <1>b, <1>e, <2>2, <2>3, <2>4 DEF BlockArrives
<1>40. CASE Tick
  BY <1>40, <1>b, <1>d DEF Tick
<1>41. CASE Crash
  <2>1. <<>> \in Seq(Events) /\ <<>> \in Seq(Callbacks) /\ Len(<<>>) = 0
    BY EmptySeq
  <2>2. imm' = <<>> /\ NoMain(imm')
    BY <1>41, <2>1 DEF Crash, NoMain
  <2>3. /\ mainQ' = <<>> /\ evq' = <<>> /\ pc' = "warmUp" /\ ahead' = 0
        /\ sync' = TRUE /\ locked' = FALSE /\ syncTimer' = FALSE
        /\ crashes' = crashes + 1
    BY <1>41 DEF Crash
  <2>4. Scheduled' /\ TaskQueued' /\ Continues'
    BY <2>2, <2>3 DEF Scheduled, TaskQueued, Continues
  <2>5. Waiting' /\ ahead' \in Nat /\ crashes' \in Nat
    BY <1>b, <2>1, <2>2, <2>3 DEF Waiting
  <2>6. sync' \in BOOLEAN /\ locked' \in BOOLEAN /\ syncTimer' \in BOOLEAN
    BY <2>3
  <2> QED
    BY <1>e, <2>1, <2>2, <2>3, <2>4, <2>5, <2>6
<1>42. CASE UNCHANGED vars
  BY <1>42, <1>b, <1>d DEF vars
<1> QED
  BY <1>1, <1>2, <1>3, <1>4, <1>5, <1>6, <1>7, <1>8, <1>9, <1>10, <1>11,
     <1>12, <1>13, <1>14, <1>15, <1>16, <1>17, <1>18, <1>19, <1>20,
     <1>21, <1>22, <1>23, <1>24, <1>25, <1>26, <1>27, <1>28, <1>29,
     <1>30, <1>31, <1>32, <1>33, <1>34, <1>35, <1>36, <1>37, <1>38,
     <1>39, <1>40, <1>41, <1>42, <1>43, Zenon
  DEF Next, Handler, Database, Timers, Environment

-----------------------------------------------------------------------------
(* The types of rounds, rewards and timers.                                *)

LedgerType(l) ==
  DOMAIN l = Delegates /\ \A d \in Delegates : DOMAIN l[d] = DOMAIN NoReward

\* A round is given the delegates that the schedule has for a block.
LEMMA NewRoundType ==
  ASSUME NEW first \in Int, NEW id \in BlockIds
  PROVE  NewRound(first, id) \in RoundType
BY ScheduleAssumption DEF NewRound, RoundType

\* The slots of a round are numbers.
LEMMA SlotTypes ==
  ASSUME NEW r \in RoundType
  PROVE  /\ r.first \in Int /\ LastSlot(r) \in Int
         /\ \A d \in Active(r) : SlotOf(r, d) \in Int
<1>1. /\ r.first \in Int /\ r.order \in Seq(Delegates)
      /\ Len(r.order) \in Nat /\ DOMAIN r.order = 1..Len(r.order)
  BY LenProperties DEF RoundType
<1>2. ASSUME NEW d \in Active(r) PROVE SlotOf(r, d) \in Int
  <2>1. PICK i : i = CHOOSE j \in DOMAIN r.order : r.order[j] = d
    OBVIOUS
  <2>2. i \in DOMAIN r.order
    BY <1>2, <2>1 DEF Active
  <2>3. SlotOf(r, d) = r.first + i - 1
    BY <2>1 DEF SlotOf
  <2> QED
    BY <1>1, <2>2, <2>3
<1> QED
  BY <1>1, <1>2 DEF LastSlot

\* The timers of a round.
LEMMA TimerTypes ==
  ASSUME NEW r \in RoundType, NEW old \in Int, CreateTasks(r, old)
  PROVE  genTimer' \in Int /\ finTimer' \in Int
<1>1. LastSlot(r) \in Int /\ \A d \in Active(r) : SlotOf(r, d) \in Int
  BY SlotTypes
<1>2. finTimer' \in Int
  BY <1>1 DEF CreateTasks
<1>3. genTimer' = old \/ (Me \in Active(r) /\ genTimer' = SlotOf(r, Me))
  BY DEF CreateTasks, GenTimers
<1> QED
  BY <1>1, <1>2, <1>3

\* The first slot of a round.
LEMMA FirstSlotType ==
  ASSUME NEW slot \in Int, NEW b \in Blocks
  PROVE  FirstSlotInRound(slot, ActiveCount(b)) \in Int
<1>1. b.id \in BlockIds
  BY NodeAssumption
<1>2. Schedule[b.id] \in Seq(Delegates) /\ Schedule[b.id] # <<>>
  BY <1>1, ScheduleAssumption
<1>3. PICK n : n = ActiveCount(b)
  OBVIOUS
<1>4. n \in Nat \ {0}
  BY <1>2, <1>3, EmptySeq, LenProperties DEF ActiveCount
<1>5. (slot + 1) % n \in Int
  BY <1>4
<1> QED
  BY <1>3, <1>5 DEF FirstSlotInRound

\* A reward is paid, or taken back, for each delegate.
LEMMA RewardType ==
  ASSUME NEW l, LedgerType(l), NEW r, NEW blocks, NEW sign
  PROVE  LedgerType(ProcessReward(l, r, blocks, sign))
<1>1. CASE r.forged = {}
  BY <1>1 DEF ProcessReward
<1>2. CASE r.forged # {}
  BY <1>2 DEF ProcessReward, LedgerType, NoReward
<1> QED
  BY <1>1, <1>2

\* The current round is one of the rounds.
LEMMA CurrentRoundType ==
  ASSUME rounds \in Seq(RoundType), rounds # <<>>
  PROVE  CurrentRound \in RoundType
<1>1. Len(rounds) \in Nat \ {0}
  BY EmptySeq
<1> QED
  BY <1>1, ElementOfSeq DEF CurrentRound, Last

\* A slot of the current round is marked, or its mark is taken away.
LEMMA MarkType ==
  ASSUME NEW rs \in Seq(RoundType), NEW r \in SUBSET Delegates,
         NEW new, new = [rs EXCEPT ![Len(rs)].forged = r]
  PROVE  new \in Seq(RoundType) /\ (new = <<>> => rs = <<>>)
<1>1. PICK n \in Nat : n = Len(rs)
  BY LenProperties
<1>2. DOMAIN rs = 1..n /\ \A i \in 1..n : rs[i] \in RoundType
  BY <1>1, LenProperties, ElementOfSeq
<1>3. \A x \in RoundType : [x EXCEPT !.forged = r] \in RoundType
  BY DEF RoundType
<1>4. new \in [1..n -> RoundType]
  BY <1>1, <1>2, <1>3
<1>5. new \in Seq(RoundType) /\ Len(new) = n
  BY <1>4, FunctionIsSeq
<1>6. new = <<>> => n = 0
  BY <1>5, EmptySeq
<1> QED
  BY <1>1, <1>5, <1>6, EmptySeq

\* Without rounds there is nothing to mark.
LEMMA UnmarkedType ==
  ASSUME NEW r, NEW new, new = [<<>> EXCEPT ![Len(<<>>)].forged = r]
  PROVE  new \in Seq(RoundType)
<1>1. DOMAIN <<>> = {} /\ 1..0 = {}
  OBVIOUS
<1>2. DOMAIN new = {} /\ new = [i \in DOMAIN new |-> new[i]]
  BY <1>1
<1>3. new \in [1..0 -> RoundType]
  BY <1>1, <1>2
<1> QED
  BY <1>3, FunctionIsSeq

\* A round is left behind.
LEMMA ForwardTypes ==
  ASSUME ScheduleTypeOK, rounds # <<>>, LastBlock \in Blocks, ForwardProcess
  PROVE  /\ rounds' \in Seq(RoundType) /\ rounds' # <<>>
         /\ LedgerType(ledger') /\ genTimer' \in Int /\ finTimer' \in Int
<1>1. CurrentRound \in RoundType
  BY CurrentRoundType DEF ScheduleTypeOK
<1>2. LastSlot(CurrentRound) + 1 \in Int
  BY <1>1, SlotTypes
<1>3. PICK new : new = NewRound(LastSlot(CurrentRound) + 1, LastBlock.id)
  OBVIOUS
<1>4. new \in RoundType
  BY <1>2, <1>3, NewRoundType, NodeAssumption
<1>5. /\ rounds' = Append(rounds, new)
      /\ ledger' = ProcessReward(ledger, CurrentRound,
                                 RewardedBlocks(CurrentRound), 1)
      /\ \/ genTimer' = 0 /\ finTimer' = 0
         \/ CreateTasks(new, 0)
  BY <1>3 DEF ForwardProcess
<1>6. LedgerType(ledger')
  BY <1>5, RewardType DEF ScheduleTypeOK, LedgerType
<1>7. genTimer' \in Int /\ finTimer' \in Int
  BY <1>4, <1>5, TimerTypes
<1> QED
  BY <1>4, <1>5, <1>6, <1>7, AppendProperties DEF ScheduleTypeOK

\* A round is gone back to.
LEMMA BackwardTypes ==
  ASSUME ScheduleTypeOK, rounds # <<>>, BackwardProcess
  PROVE  /\ rounds' \in Seq(RoundType) /\ rounds' # <<>>
         /\ LedgerType(ledger') /\ genTimer' \in Int /\ finTimer' \in Int
<1>1. genTimer' = 0 /\ finTimer' = 0 /\ LedgerType(ledger)
  BY DEF BackwardProcess, ScheduleTypeOK, LedgerType
<1>2. CASE Len(rounds) > 1
  <2>1. PICK prev : prev = rounds[Len(rounds) - 1]
    OBVIOUS
  <2>2. /\ rounds' = Front(rounds)
        /\ ledger' = ProcessReward(ledger, prev, RewardedBlocks(prev), -1)
    BY <1>2, <2>1 DEF BackwardProcess
  <2>3. LedgerType(ledger')
    BY <1>1, <2>2, RewardType
  <2>4. Front(rounds) \in Seq(RoundType) /\ Len(Front(rounds)) = Len(rounds) - 1
    BY FrontElements DEF ScheduleTypeOK
  <2>5. Len(rounds) \in Nat
    BY LenProperties DEF ScheduleTypeOK
  <2>6. Front(rounds) # <<>>
    BY <1>2, <2>4, <2>5, EmptySeq
  <2> QED
    BY <1>1, <2>2, <2>3, <2>4, <2>6
<1>3. CASE ~(Len(rounds) > 1)
  BY <1>1, <1>3 DEF BackwardProcess, ScheduleTypeOK
<1> QED
  BY <1>2, <1>3

LEMMA ScheduleInit == Init => ScheduleInv
<1> SUFFICES ASSUME Init PROVE ScheduleInv
  OBVIOUS
<1>1. /\ rounds = <<>> /\ ledger = [d \in Delegates |-> NoReward]
      /\ genTimer = 0 /\ finTimer = 0 /\ goal = 0 /\ lastSync = 0
      /\ now = StartSlot /\ imm = <<>> /\ evq = <<>> /\ pc = "warmUp"
  BY DEF Init
<1>2. ScheduleTypeOK
  BY <1>1, EmptySeq, NodeAssumption DEF ScheduleTypeOK
<1>3. ToSet(imm) = {} /\ ToSet(evq) = {}
  BY <1>1 DEF ToSet
<1> QED
  BY <1>1, <1>2, <1>3 DEF ScheduleInv, RoundsKnown

\* Every step keeps the types of rounds, rewards and timers.
LEMMA ScheduleTypeNext ==
  BaseInv /\ DispatchInv /\ ScheduleInv /\ [Next]_vars => ScheduleTypeOK'
<1> SUFFICES ASSUME BaseInv, DispatchInv, ScheduleInv, [Next]_vars
             PROVE  ScheduleTypeOK'
  OBVIOUS
<1>a. /\ rounds \in Seq(RoundType) /\ LedgerType(ledger)
      /\ now \in Int /\ genTimer \in Int /\ finTimer \in Int
      /\ goal \in Int /\ lastSync \in Int
  BY DEF ScheduleInv, ScheduleTypeOK, LedgerType
<1>b. ASSUME /\ rounds' \in Seq(RoundType) /\ LedgerType(ledger')
             /\ now' \in Int /\ genTimer' \in Int /\ finTimer' \in Int
             /\ goal' \in Int /\ lastSync' \in Int
      PROVE  ScheduleTypeOK'
  BY <1>b DEF ScheduleTypeOK, LedgerType
<1>c. Stage # "warmUp" => /\ chain # <<>> /\ LastBlock \in Blocks
                          /\ LastBlock.slot \in Int /\ LastBlock.id \in BlockIds
                          /\ LastBlock.generator \in Delegates
  <2> SUFFICES ASSUME Stage # "warmUp"
               PROVE  /\ chain # <<>> /\ LastBlock \in Blocks
                      /\ LastBlock.slot \in Int /\ LastBlock.id \in BlockIds
                      /\ LastBlock.generator \in Delegates
    OBVIOUS
  <2>1. chain # <<>> /\ chain \in Seq(Blocks)
    BY DEF BaseInv, GenesisFirst, StoreTypeOK
  <2>2. Len(chain) \in 1..Len(chain)
    BY <2>1, EmptySeq
  <2>3. LastBlock \in Blocks
    BY <2>1, <2>2, ElementOfSeq DEF LastBlock, Last
  <2> QED
    BY <2>1, <2>3, NodeAssumption
<1>d. /\ Stage \in {"restoreReceived", "receive", "saving", "warmRestore",
                    "warmPush"} => blk \in Blocks
      /\ blk \in Blocks => blk.slot \in Int /\ blk.generator \in Delegates
  BY NodeAssumption DEF BaseInv, TaskBlock, StoreTypeOK, Receiving, Loading
<1>e. rounds = <<>> => pc # "restore" /\ finTimer = 0
  BY DEF ScheduleInv, RoundsKnown
<1> USE DEF chainVars, roundVars, timerVars, queueVars, taskVars, miscVars, Released,
        Stage
<1>1. CASE RestoreStep
  <2>1. LastBlock \in Blocks
    BY <1>1, <1>c DEF RestoreStep, DispatchInv, Continues
  <2>2. rounds # <<>>
    BY <1>1, <1>e DEF RestoreStep
  <2>3. CASE LeaveRestore /\ UNCHANGED <<roundVars, timerVars>>
    BY <1>1, <1>a, <1>b, <2>3 DEF RestoreStep, LeaveRestore
  <2>4. CASE ForwardProcess /\ UNCHANGED goal
    BY <1>1, <1>a, <1>b, <2>1, <2>2, <2>4, ForwardTypes
    DEF RestoreStep, ScheduleInv
  <2>5. CASE BackwardProcess /\ UNCHANGED goal
    BY <1>1, <1>a, <1>b, <2>2, <2>5, BackwardTypes DEF RestoreStep, ScheduleInv
  <2> QED
    BY <1>1, <2>3, <2>4, <2>5 DEF RestoreStep
<1>2. CASE RoundFinish
  <2>1. LastBlock \in Blocks
    BY <1>2, <1>c DEF RoundFinish, RunCallback, AtAwait, AwaitPoints
  <2>2. rounds # <<>>
    <3>1. imm # <<>> /\ Head(imm) = "ROUND_FINISH"
      BY <1>2 DEF RoundFinish, RunCallback
    <3>2. Head(imm) \in ToSet(imm)
      BY <3>1, FirstInSet DEF DispatchInv, DispatcherTypeOK
    <3> QED
      BY <3>1, <3>2 DEF ScheduleInv, RoundsKnown
  <2> QED
    BY <1>2, <1>a, <1>b, <2>1, <2>2, ForwardTypes DEF RoundFinish, ScheduleInv
<1>3. CASE WarmUpFinished
  <2>1. LastBlock \in Blocks
    BY <1>3, <1>c DEF WarmUpFinished, RunCallback, AtAwait, AwaitPoints
  <2>2. PICK r : /\ r = IF rounds = <<>>
                        THEN NewRound(FirstSlotInRound(now, ActiveCount(LastBlock)),
                                      LastBlock.id)
                        ELSE CurrentRound
                 /\ rounds' = IF rounds = <<>> THEN <<r>> ELSE rounds
                 /\ CreateTasks(r, genTimer)
    BY <1>3 DEF WarmUpFinished
  <2>3. r \in RoundType
    BY <1>a, <2>1, <2>2, FirstSlotType, NewRoundType, CurrentRoundType,
       NodeAssumption
  <2>4. genTimer' \in Int /\ finTimer' \in Int
    BY <1>a, <2>2, <2>3, TimerTypes
  <2>5. rounds' \in Seq(RoundType)
    BY <1>a, <2>2, <2>3
  <2> QED
    BY <1>3, <1>a, <1>b, <2>4, <2>5 DEF WarmUpFinished
<1>4. CASE \/ RefuseBlock \/ SkipForging \/ ForgeFails \/ ForgeThrows \/ Forge
           \/ SendDelete \/ DbDelete \/ DbInsert \/ InsertFailed
           \/ SyncNotNeeded \/ SyncLoop \/ PeerAnswers \/ SaveRequestedBlock
           \/ RequestedBlocksEnd \/ SyncDone \/ WarmUpDone \/ BlockArrives
           \/ SyncTimerFires \/ ApplyThrows
  BY <1>4, <1>a, <1>b
  DEF RefuseBlock, SkipForging, ForgeFails, ForgeThrows, Forge, SendDelete, DbDelete,
      DbInsert, InsertFailed, SyncNotNeeded, SyncLoop, PeerAnswers,
      SaveRequestedBlock, RequestedBlocksEnd, SyncDone, WarmUpDone,
      BlockArrives, SyncTimerFires, ApplyThrows, FinishTask, NextTask,
      ProcessFailed, AbortTask
<1>5. CASE \/ GenTimerFires \/ FinTimerFires \/ Tick \/ StartSync
           \/ SyncWaitEnds \/ UNCHANGED vars
  BY <1>5, <1>a, <1>b
  DEF GenTimerFires, FinTimerFires, Tick, StartSync, SyncWaitEnds, vars
<1>6. CASE AcceptNext \/ AcceptReplacement \/ DeleteAnswered \/ AfterRollback \/ SyncBegins
  <2>1. LastBlock.slot \in Int
    BY <1>6, <1>c
    DEF AcceptNext, AcceptReplacement, DeleteAnswered, AfterRollback, SyncBegins,
        TaskBegins
  <2> QED
    BY <1>6, <1>a, <1>b, <2>1
    DEF AcceptNext, AcceptReplacement, DeleteAnswered, AfterRollback, SyncBegins,
        Restore
<1>7. CASE SyncExit
  BY <1>7, <1>a, <1>b DEF SyncExit, Restore
<1>8. CASE RestoreReceived \/ WarmRestore
  <2>1. blk.slot \in Int
    BY <1>8, <1>d DEF RestoreReceived, WarmRestore
  <2> QED
    BY <1>8, <1>a, <1>b, <2>1 DEF RestoreReceived, WarmRestore, Restore
<1>9. CASE ReceiveFails \/ ReceiveSaves
  <2>1. pc = "receive" /\ rounds' = RoundsForBlock
    BY <1>9 DEF ReceiveFails, ReceiveSaves
  <2>2. blk.slot \in Int /\ LastBlock \in Blocks /\ LastBlock.id \in BlockIds
    BY <1>c, <1>d, <2>1
  <2>3. NewRound(FirstSlotInRound(blk.slot, ActiveCount(LastBlock)), LastBlock.id)
          \in RoundType
    BY <2>2, FirstSlotType, NewRoundType
  <2>4. rounds' \in Seq(RoundType)
    BY <1>a, <2>1, <2>3 DEF RoundsForBlock
  <2> QED
    BY <1>9, <1>a, <1>b, <2>4
    DEF ReceiveFails, ReceiveSaves, ProcessFailed, FinishTask, NextTask, Await
<1>10. CASE Undo
  <2>1. CASE LastBlock.generator \in Active(CurrentRound)
    <3>1. PICK f : f = rounds[Len(rounds)].forged \ {LastBlock.generator}
      OBVIOUS
    <3>2. rounds' = [rounds EXCEPT ![Len(rounds)].forged = f]
      BY <1>10, <2>1, <3>1 DEF Undo, Pop
    <3>3. rounds # <<>> => f \in SUBSET Delegates
      BY <1>a, <3>1, CurrentRoundType DEF CurrentRound, Last, RoundType
    <3>4. rounds' \in Seq(RoundType)
      <4>1. CASE rounds # <<>>
        BY <1>a, <3>2, <3>3, <4>1, MarkType
      <4>2. CASE rounds = <<>>
        BY <1>a, <3>2, <4>2, UnmarkedType
      <4> QED
        BY <4>1, <4>2
    <3> QED
      BY <1>10, <1>a, <1>b, <2>1, <3>4 DEF Undo, Pop
  <2>2. CASE LastBlock.generator \notin Active(CurrentRound)
    BY <1>10, <1>a, <1>b, <2>2 DEF Undo, Pop, AbortTask, FinishTask, NextTask
  <2> QED
    BY <2>1, <2>2
<1>11. CASE ApplyBlock \/ WarmPush
  <2>1. blk.generator \in Delegates
    BY <1>11, <1>d DEF ApplyBlock, WarmPush
  <2>2. CASE UNCHANGED rounds
    BY <1>11, <1>a, <1>b, <2>2 DEF ApplyBlock, WarmPush, FinishTask, NextTask
  <2>3. CASE SetForged(blk)
    <3>1. PICK f : f = rounds[Len(rounds)].forged \cup {blk.generator}
      OBVIOUS
    <3>2. rounds' = [rounds EXCEPT ![Len(rounds)].forged = f]
      BY <2>3, <3>1 DEF SetForged
    <3>3. rounds # <<>> => f \in SUBSET Delegates
      BY <1>a, <2>1, <3>1, CurrentRoundType DEF CurrentRound, Last, RoundType
    <3>4. rounds' \in Seq(RoundType)
      <4>1. CASE rounds # <<>>
        BY <1>a, <3>2, <3>3, <4>1, MarkType
      <4>2. CASE rounds = <<>>
        BY <1>a, <3>2, <4>2, UnmarkedType
      <4> QED
        BY <4>1, <4>2
    <3> QED
      BY <1>11, <1>a, <1>b, <3>4 DEF ApplyBlock, WarmPush, FinishTask, NextTask
  <2> QED
    BY <1>11, <2>2, <2>3 DEF ApplyBlock, WarmPush
<1>12. CASE WarmUp
  <2>1. PICK b \in NextRows :
          \/ b.height # 2 /\ UNCHANGED rounds
          \/ /\ b.height = 2
             /\ rounds' = Append(rounds,
                            NewRound(FirstSlotInRound(b.slot,
                                       ActiveCount(LastBlock)), LastBlock.id))
    BY <1>12 DEF WarmUp
  <2>2. CASE UNCHANGED rounds
    BY <1>12, <1>a, <1>b, <2>2 DEF WarmUp
  <2>3. CASE b.height = 2
    <3>1. b \in db /\ b \in Blocks /\ b.slot \in Int
      BY NodeAssumption DEF NextRows, RowsLeft, BaseInv, StoreTypeOK
    <3>2. chain # <<>>
      <4>1. SUFFICES ASSUME chain = <<>> PROVE FALSE
        OBVIOUS
      <4>2. Genesis \in RowsLeft
        BY <3>1, <4>1 DEF BaseInv, GenesisFirst, RowsLeft, ToSet
      <4> QED
        BY <2>3, <3>1, <4>2, NodeAssumption DEF NextRows
    <3>3. LastBlock \in Blocks /\ LastBlock.id \in BlockIds
      <4>1. chain \in Seq(Blocks) /\ Len(chain) \in 1..Len(chain)
        BY <3>2, EmptySeq DEF BaseInv, StoreTypeOK
      <4>2. LastBlock \in Blocks
        BY <3>2, <4>1, ElementOfSeq DEF LastBlock, Last
      <4> QED
        BY <4>2, NodeAssumption
    <3>4. NewRound(FirstSlotInRound(b.slot, ActiveCount(LastBlock)), LastBlock.id)
            \in RoundType
      BY <3>1, <3>3, FirstSlotType, NewRoundType
    <3>5. rounds' \in Seq(RoundType)
      BY <1>a, <2>1, <2>3, <3>4, AppendProperties
    <3> QED
      BY <1>12, <1>a, <1>b, <3>5 DEF WarmUp
  <2> QED
    BY <2>1, <2>2, <2>3
<1>13. CASE Crash
  <2>1. LedgerType([d \in Delegates |-> NoReward])
    BY DEF LedgerType
  <2> QED
    BY <1>13, <1>a, <1>b, <2>1, EmptySeq DEF Crash
<1> QED
  BY <1>1, <1>2, <1>3, <1>4, <1>5, <1>6, <1>7, <1>8, <1>9, <1>10, <1>11,
     <1>12, <1>13, Zenon
  DEF Next, Handler, Database, Timers, Environment

\* A process that knows a round knows one until it dies.
LEMMA RoundsStay ==
  ASSUME BaseInv, DispatchInv, ScheduleInv, [Next]_vars,
         rounds # <<>>, rounds' = <<>>
  PROVE  Crash
<1>a. rounds \in Seq(RoundType) /\ rounds' # rounds
  BY DEF ScheduleInv, ScheduleTypeOK
<1>b. \A r : Append(rounds, r) # <<>>
  <2> TAKE r
  <2>1. Len(rounds) \in Nat /\ Len(Append(rounds, r)) = Len(rounds) + 1
    BY <1>a, LenProperties
  <2> QED
    BY <2>1, EmptySeq
<1>c. \A f : [rounds EXCEPT ![Len(rounds)].forged = f] # <<>>
  <2> TAKE f
  <2>1. /\ DOMAIN [rounds EXCEPT ![Len(rounds)].forged = f] = DOMAIN rounds
        /\ DOMAIN rounds = 1..Len(rounds) /\ Len(rounds) \in Nat \ {0}
    BY <1>a, EmptySeq, LenProperties
  <2>2. 1 \in DOMAIN rounds
    BY <2>1
  <2>3. DOMAIN <<>> = {}
    OBVIOUS
  <2> QED
    BY <2>1, <2>2, <2>3
<1>d. BackwardProcess => rounds' # <<>>
  BY BackwardTypes DEF ScheduleInv
<1>e. ForwardProcess => rounds' # <<>>
  BY <1>b DEF ForwardProcess
<1>1. CASE RestoreStep
  BY <1>1, <1>a, <1>d, <1>e DEF RestoreStep, roundVars
<1>2. CASE RoundFinish
  BY <1>2, <1>e DEF RoundFinish
<1>3. CASE WarmUpFinished
  BY <1>3 DEF WarmUpFinished
<1>4. CASE Undo \/ ApplyBlock \/ WarmPush
  BY <1>4, <1>a, <1>c DEF Undo, Pop, ApplyBlock, WarmPush, SetForged
<1>5. CASE ReceiveFails \/ ReceiveSaves
  BY <1>5, <1>a DEF ReceiveFails, ReceiveSaves, RoundsForBlock
<1>6. CASE WarmUp
  BY <1>6, <1>a, <1>b DEF WarmUp
<1>7. CASE \/ RefuseBlock \/ SkipForging \/ ForgeFails \/ ForgeThrows \/ Forge \/ StartSync
           \/ AcceptNext \/ AcceptReplacement \/ DeleteAnswered \/ AfterRollback
           \/ SendDelete \/ DbDelete \/ DbInsert \/ InsertFailed
           \/ RestoreReceived \/ WarmRestore \/ SyncWaitEnds \/ SyncBegins
           \/ SyncNotNeeded \/ SyncLoop \/ PeerAnswers \/ SaveRequestedBlock
           \/ RequestedBlocksEnd \/ SyncExit \/ SyncDone \/ WarmUpDone
           \/ ApplyThrows
  BY <1>7, <1>a
  DEF RefuseBlock, SkipForging, ForgeFails, ForgeThrows, Forge, StartSync, AcceptNext,
      AcceptReplacement, DeleteAnswered, AfterRollback, SendDelete, DbDelete,
      DbInsert, InsertFailed, RestoreReceived, WarmRestore, SyncWaitEnds,
      SyncBegins, SyncNotNeeded, SyncLoop, PeerAnswers, SaveRequestedBlock,
      RequestedBlocksEnd, SyncExit, SyncDone, WarmUpDone, ApplyThrows, roundVars
<1>8. CASE \/ GenTimerFires \/ FinTimerFires \/ SyncTimerFires \/ BlockArrives
           \/ Tick \/ UNCHANGED vars
  BY <1>8, <1>a
  DEF GenTimerFires, FinTimerFires, SyncTimerFires, BlockArrives, Tick, vars,
      roundVars
<1> QED
  BY <1>1, <1>2, <1>3, <1>4, <1>5, <1>6, <1>7, <1>8, Zenon
  DEF Next, Handler, Database, Timers, Environment

\* What the end of a task leaves among the callbacks.
LEMMA NextCallbacks ==
  ASSUME NEW queue, NEW callbacks \in Seq(Callbacks), NextTask(queue, callbacks)
  PROVE  ToSet(imm') \subseteq ToSet(callbacks) \cup {"MAIN"}
<1>1. ToSet(Append(callbacks, "MAIN")) = ToSet(callbacks) \cup {"MAIN"}
  BY AppendSet DEF Callbacks
<1> QED
  BY <1>1 DEF NextTask

\* Nothing that works on the current round is scheduled before there is one.
LEMMA RoundsKnownNext ==
  BaseInv /\ DispatchInv /\ ScheduleInv /\ [Next]_vars => RoundsKnown'
<1> SUFFICES ASSUME BaseInv, DispatchInv, ScheduleInv, [Next]_vars, rounds' = <<>>
             PROVE  /\ finTimer' = 0 /\ pc' # "restore"
                    /\ "ROUND_FINISH" \notin ToSet(imm')
                    /\ \A e \in ToSet(evq') : e.topic # "ROUND_FINISH"
  BY DEF RoundsKnown
<1>1. CASE Crash
  BY <1>1 DEF Crash, ToSet
<1> SUFFICES ASSUME ~Crash
             PROVE  /\ finTimer' = 0 /\ pc' # "restore"
                    /\ "ROUND_FINISH" \notin ToSet(imm')
                    /\ \A e \in ToSet(evq') : e.topic # "ROUND_FINISH"
  BY <1>1
<1>a. rounds = <<>>
  BY RoundsStay
<1>b. /\ finTimer = 0 /\ pc # "restore"
      /\ "ROUND_FINISH" \notin ToSet(imm)
      /\ \A e \in ToSet(evq) : e.topic # "ROUND_FINISH"
  BY <1>a DEF ScheduleInv, RoundsKnown
<1>c. mainQ \in Seq(Events) /\ evq \in Seq(Events) /\ imm \in Seq(Callbacks)
  BY DEF DispatchInv, DispatcherTypeOK, Callbacks
<1>d. imm # <<>> => /\ Tail(imm) \in Seq(Callbacks)
                    /\ ToSet(Tail(imm)) \subseteq ToSet(imm)
                    /\ Head(imm) \in ToSet(imm)
  BY <1>c, TailSet, FirstInSet, CallbackRun
<1>e. \A e \in Callbacks : /\ Append(imm, e) \in Seq(Callbacks)
                           /\ ToSet(Append(imm, e)) = ToSet(imm) \cup {e}
  BY <1>c, AppendSet, CallbackAdded
<1>f. \A e \in Events : ToSet(Append(evq, e)) = ToSet(evq) \cup {e}
  BY <1>c, AppendSet
<1>g. /\ "MAIN" \in Callbacks /\ "WARM_UP_FINISHED" \in Callbacks
      /\ "ROUND_FINISH" \notin {"MAIN", "WARM_UP_FINISHED"}
  BY DEF Callbacks, OnTopics
<1>h. \A queue, callbacks :
        callbacks \in Seq(Callbacks) /\ NextTask(queue, callbacks)
          => ToSet(imm') \subseteq ToSet(callbacks) \cup {"MAIN"}
  BY NextCallbacks
<1>i. \A slot, point : Restore(slot, point) => pc' = point
  BY <1>a DEF Restore
<1>j. ASSUME NEW e \in Events, e.topic # "ROUND_FINISH", MessageON(e)
      PROVE  /\ "ROUND_FINISH" \notin ToSet(imm')
             /\ \A x \in ToSet(evq') : x.topic # "ROUND_FINISH"
  <2>1. e.topic \notin MainTopics => e.topic \in Callbacks
    BY DEF Events, Callbacks
  <2>2. evq' = evq \/ evq' = Append(evq, e)
    BY <1>j DEF MessageON
  <2>3. \/ imm' = imm \/ imm' = Append(imm, "MAIN")
        \/ e.topic \notin MainTopics /\ imm' = Append(imm, e.topic)
    BY <1>j DEF MessageON
  <2>4. ToSet(Append(evq, e)) = ToSet(evq) \cup {e}
    BY <1>f, <1>j
  <2>5. \A x \in ToSet(evq') : x.topic # "ROUND_FINISH"
    BY <1>b, <1>j, <2>2, <2>4
  <2>6. "ROUND_FINISH" \notin ToSet(Append(imm, "MAIN"))
    BY <1>b, <1>e, <1>g
  <2>7. e.topic \notin MainTopics => "ROUND_FINISH" \notin ToSet(Append(imm, e.topic))
    BY <1>b, <1>e, <1>j, <2>1
  <2> QED
    BY <1>b, <2>3, <2>5, <2>6, <2>7
<1> USE DEF chainVars, roundVars, timerVars, queueVars, taskVars, miscVars
<1>2. CASE RestoreStep \/ RoundFinish \/ WarmUpFinished \/ FinTimerFires
  BY <1>2, <1>b, <1>d
  DEF RestoreStep, RoundFinish, WarmUpFinished, FinTimerFires, RunCallback
<1>3. CASE RefuseBlock \/ SkipForging \/ ForgeFails \/ ForgeThrows
  <2>1. PICK queue : NextTask(queue, Tail(imm))
    BY <1>3 DEF RefuseBlock, SkipForging, ForgeFails, ForgeThrows, FinishTask
  <2>2. imm # <<>> /\ evq' = evq /\ finTimer' = finTimer
    BY <1>3 DEF RefuseBlock, SkipForging, ForgeFails, ForgeThrows, FinishTask, TaskBegins
  <2> QED
    BY <1>b, <1>d, <1>g, <1>h, <2>1, <2>2 DEF NextTask
<1>4. CASE AcceptNext \/ AcceptReplacement \/ Forge \/ StartSync
  BY <1>4, <1>b, <1>d, <1>i
  DEF AcceptNext, AcceptReplacement, Forge, StartSync, Await, TaskBegins
<1>5. CASE ReceiveFails \/ InsertFailed
  <2>1. UNCHANGED <<evq, finTimer>> /\ pc' \in {"idle", "syncLoop"}
    BY <1>5 DEF ReceiveFails, InsertFailed, ProcessFailed, FinishTask, NextTask
  <2>2. imm' = imm \/ \E queue : NextTask(queue, imm)
    BY <1>5 DEF ReceiveFails, InsertFailed, ProcessFailed, FinishTask
  <2> QED
    BY <1>b, <1>c, <1>g, <1>h, <2>1, <2>2
<1>6. CASE ApplyBlock \/ ApplyThrows \/ Undo
  <2>1. UNCHANGED <<evq, finTimer>> /\ pc' # "restore"
    BY <1>6 DEF ApplyBlock, ApplyThrows, Undo, Pop, AbortTask, FinishTask, NextTask
  <2>2. imm' = imm \/ \E queue : NextTask(queue, imm)
    BY <1>6 DEF ApplyBlock, ApplyThrows, Undo, Pop, AbortTask, FinishTask
  <2> QED
    BY <1>b, <1>c, <1>g, <1>h, <2>1, <2>2
<1>7. CASE SyncNotNeeded
  <2>1. PICK queue : NextTask(queue, Append(imm, "WARM_UP_FINISHED"))
    BY <1>7 DEF SyncNotNeeded, FinishTask
  <2>2. UNCHANGED <<evq, finTimer>> /\ pc' = "idle"
    BY <1>7 DEF SyncNotNeeded, FinishTask, NextTask
  <2> QED
    BY <1>b, <1>e, <1>g, <1>h, <2>1, <2>2
<1>8. CASE SyncDone
  <2>1. PICK ons : ons = EventsOf(OnTopics)
    OBVIOUS
  <2>2. PICK topics : topics = [i \in DOMAIN ons |-> ons[i].topic]
    OBVIOUS
  <2>3. PICK S : S = {e \in Events : e.topic # "ROUND_FINISH"}
    OBVIOUS
  <2>4. evq \in Seq(S)
    <3>1. /\ Len(evq) \in Nat /\ evq \in [1..Len(evq) -> Events]
          /\ \A i \in 1..Len(evq) : evq[i] \in ToSet(evq)
      BY <1>c, LenProperties, ElementOfSeq, SetOf
    <3>2. evq \in [1..Len(evq) -> S]
      BY <1>b, <2>3, <3>1
    <3> QED
      BY <3>1, <3>2, FunctionIsSeq
  <2>5. ons \in Seq({e \in S : e.topic \in OnTopics})
    BY <2>1, <2>4, EventsOfTopics
  <2>6. /\ Len(ons) \in Nat /\ DOMAIN ons = 1..Len(ons)
        /\ \A i \in 1..Len(ons) : /\ ons[i].topic \in OnTopics
                                  /\ ons[i].topic # "ROUND_FINISH"
    BY <2>3, <2>5, LenProperties, ElementOfSeq
  <2>7. topics \in [1..Len(ons) -> Callbacks]
    BY <2>2, <2>6 DEF Callbacks
  <2>8. topics \in Seq(Callbacks) /\ Len(topics) = Len(ons)
    BY <2>6, <2>7, FunctionIsSeq
  <2>9. "ROUND_FINISH" \notin ToSet(topics)
    <3>1. ToSet(topics) = {topics[i] : i \in 1..Len(topics)}
      BY <2>8, SetOf
    <3> QED
      BY <2>2, <2>6, <2>8, <3>1
  <2>10. PICK w : w = Append(imm, "WARM_UP_FINISHED")
    OBVIOUS
  <2>11. w \in Seq(Callbacks) /\ "ROUND_FINISH" \notin ToSet(w)
    BY <1>b, <1>e, <1>g, <2>10
  <2>12. w \o topics \in Seq(Callbacks) /\ "ROUND_FINISH" \notin ToSet(w \o topics)
    BY <2>8, <2>9, <2>11, ConcatSet, CallbacksAdded
  <2>13. PICK queue : NextTask(queue, w \o topics)
    BY <1>8, <2>1, <2>2, <2>10 DEF SyncDone
  <2>14. evq' = <<>> /\ finTimer' = finTimer /\ pc' = "idle"
    BY <1>8 DEF SyncDone, NextTask
  <2>15. ToSet(evq') = {}
    BY <2>14 DEF ToSet
  <2> QED
    BY <1>b, <1>g, <1>h, <2>12, <2>13, <2>14, <2>15
<1>9. CASE GenTimerFires
  <2>1. PICK e : e = Event("BLOCK_GENERATE", genTimer)
    OBVIOUS
  <2>2. e \in Events /\ e.topic # "ROUND_FINISH"
    BY <2>1
    DEF Event, Events, MainTopics, ScheduleInv, ScheduleTypeOK
  <2> QED
    BY <1>9, <1>b, <1>j, <2>1, <2>2 DEF GenTimerFires
<1>10. CASE SyncTimerFires \/ BlockArrives
  <2>1. PICK e : /\ e \in {Sync, Event("BLOCK_RECEIVE", 0)}
                 /\ MessageON(e)
    BY <1>10 DEF SyncTimerFires, BlockArrives
  <2>2. e \in Events /\ e.topic # "ROUND_FINISH"
    BY <2>1 DEF Sync, Event, Events, MainTopics
  <2> QED
    BY <1>10, <1>b, <1>j, <2>1, <2>2 DEF SyncTimerFires, BlockArrives
<1>11. CASE \/ DeleteAnswered \/ AfterRollback \/ SendDelete \/ DbDelete
            \/ DbInsert \/ ReceiveSaves \/ RestoreReceived \/ WarmRestore
            \/ SyncWaitEnds \/ SyncBegins \/ SyncLoop \/ PeerAnswers
            \/ SaveRequestedBlock \/ RequestedBlocksEnd \/ SyncExit
            \/ WarmUp \/ WarmPush \/ WarmUpDone \/ Tick \/ UNCHANGED vars
  BY <1>11, <1>b, <1>i
  DEF DeleteAnswered, AfterRollback, SendDelete, AfterFailedDelete, DbDelete,
      DbInsert, ReceiveSaves, RestoreReceived, WarmRestore, SyncWaitEnds,
      SyncBegins, SyncLoop, PeerAnswers, SaveRequestedBlock, RequestedBlocksEnd,
      SyncExit, WarmUp, WarmPush, WarmUpDone, Tick, vars, Await
<1> QED
  BY <1>2, <1>3, <1>4, <1>5, <1>6, <1>7, <1>8, <1>9, <1>10, <1>11, Zenon
  DEF Next, Handler, Database, Timers, Environment

-----------------------------------------------------------------------------
(* The blocks found by height, and the history variable.                   *)

\* A push and a pop keep what is found by height in the chain.
LEMMA KnownNext ==
  ASSUME BaseInv, HeightsKnown, [Next]_vars
  PROVE  HeightsKnown'
<1>1. chain \in Seq(Blocks) /\ Len(chain) \in Nat /\ DOMAIN chain = 1..Len(chain)
  BY LenProperties DEF BaseInv, StoreTypeOK
<1>2. ASSUME UNCHANGED <<chain, byHeight>> PROVE HeightsKnown'
  BY <1>2 DEF HeightsKnown
<1>3. ASSUME NEW b \in Blocks, Push(b) PROVE HeightsKnown'
  <2>1. /\ DOMAIN chain' = 1..Len(chain) + 1
        /\ \A i \in 1..Len(chain) : chain'[i] = chain[i]
        /\ chain'[Len(chain) + 1] = b
    BY <1>3, PushProperties, LenProperties DEF BaseInv
  <2> SUFFICES ASSUME NEW h \in DOMAIN byHeight'
               PROVE  \E i \in DOMAIN chain' :
                        chain'[i] = byHeight'[h] /\ chain'[i].height = h
    BY DEF HeightsKnown
  <2>2. CASE h = b.height
    BY <1>1, <1>3, <2>1, <2>2 DEF Push
  <2>3. CASE h # b.height
    <3>1. h \in DOMAIN byHeight /\ byHeight'[h] = byHeight[h]
      BY <1>3, <2>3 DEF Push
    <3>2. PICK i \in 1..Len(chain) : chain[i] = byHeight[h] /\ chain[i].height = h
      BY <1>1, <3>1 DEF HeightsKnown
    <3> QED
      BY <1>1, <2>1, <3>1, <3>2
  <2> QED
    BY <2>2, <2>3
<1>4. ASSUME chain # <<>>, Pop PROVE HeightsKnown'
  <2>1. chain' \in Seq(Blocks) /\ Len(chain') = Len(chain) - 1
        /\ \A i \in 1..Len(chain) - 1 : chain'[i] = chain[i]
    BY <1>1, <1>4, FrontElements DEF Pop
  <2>2. DOMAIN chain' = 1..Len(chain) - 1
    BY <2>1, LenProperties
  <2> SUFFICES ASSUME NEW h \in DOMAIN byHeight'
               PROVE  \E i \in DOMAIN chain' :
                        chain'[i] = byHeight'[h] /\ chain'[i].height = h
    BY DEF HeightsKnown
  <2>3. h \in DOMAIN byHeight /\ h # LastBlock.height /\ byHeight'[h] = byHeight[h]
    BY <1>4 DEF Pop
  <2>4. PICK i \in 1..Len(chain) : chain[i] = byHeight[h] /\ chain[i].height = h
    BY <1>1, <2>3 DEF HeightsKnown
  <2>5. i # Len(chain)
    BY <2>3, <2>4 DEF LastBlock, Last
  <2>6. i \in 1..Len(chain) - 1
    <3>1. \A n \in Nat : \A k \in 1..n : k # n => k \in 1..n - 1
      OBVIOUS
    <3> QED
      BY <1>1, <2>5, <3>1
  <2> QED
    BY <2>1, <2>2, <2>3, <2>4, <2>6
<1> USE DEF chainVars
<1>5. CASE
         RestoreStep \/ RoundFinish \/ WarmUpFinished \/ RefuseBlock
     \/ AcceptNext \/ AcceptReplacement \/ SkipForging \/ Forge \/ ForgeFails
     \/ ForgeThrows \/ StartSync \/ SendDelete \/ DbDelete \/ DeleteAnswered
     \/ AfterRollback \/ RestoreReceived \/ ReceiveFails \/ ReceiveSaves
     \/ DbInsert \/ InsertFailed \/ SyncWaitEnds \/ SyncNotNeeded \/ SyncBegins
     \/ SyncLoop \/ PeerAnswers \/ SaveRequestedBlock \/ RequestedBlocksEnd
     \/ SyncExit \/ SyncDone \/ WarmRestore \/ GenTimerFires \/ FinTimerFires
     \/ SyncTimerFires \/ BlockArrives \/ Tick \/ UNCHANGED vars
  BY <1>2, <1>5
  DEF RestoreStep, RoundFinish, WarmUpFinished, RefuseBlock, AcceptNext,
      AcceptReplacement, SkipForging, Forge, ForgeFails, ForgeThrows, StartSync,
      SendDelete, DbDelete, DeleteAnswered, AfterRollback, RestoreReceived,
      ReceiveFails, ReceiveSaves, DbInsert, InsertFailed, SyncWaitEnds,
      SyncNotNeeded, SyncBegins, SyncLoop, PeerAnswers, SaveRequestedBlock,
      RequestedBlocksEnd, SyncExit, SyncDone, WarmRestore, GenTimerFires,
      FinTimerFires, SyncTimerFires, BlockArrives, Tick, vars
<1>6. CASE ApplyBlock \/ ApplyThrows
  BY <1>3, <1>6
  DEF ApplyBlock, ApplyThrows, BaseInv, StoreTypeOK, TaskBlock, Stage, Receiving
<1>7. CASE Undo
  BY <1>2, <1>4, <1>7 DEF Undo, BaseInv, GenesisFirst, Stage
<1>8. CASE WarmUp
  BY <1>2, <1>3, <1>8 DEF WarmUp, NextRows, RowsLeft, BaseInv, StoreTypeOK
<1>9. CASE WarmPush
  BY <1>3, <1>9 DEF WarmPush, BaseInv, StoreTypeOK, TaskBlock, Stage, Loading
<1>10. CASE WarmUpDone
  BY <1>2, <1>3, <1>10, NodeAssumption DEF WarmUpDone
<1>11. CASE Crash
  <2>1. DOMAIN <<>> = {}
    OBVIOUS
  <2> QED
    BY <1>11, <2>1 DEF Crash, HeightsKnown
<1> QED
  BY <1>5, <1>6, <1>7, <1>8, <1>9, <1>10, <1>11, Zenon
  DEF Next, Handler, Database, Timers, Environment

\* thrown is TRUE or FALSE.
LEMMA ThrownNext ==
  ASSUME thrown \in BOOLEAN, [Next]_vars
  PROVE  thrown' \in BOOLEAN
<1> USE DEF miscVars
<1>1. CASE
         RestoreStep \/ RoundFinish \/ WarmUpFinished \/ RefuseBlock
     \/ AcceptNext \/ AcceptReplacement \/ SkipForging \/ Forge \/ StartSync
     \/ SendDelete \/ DbDelete \/ DeleteAnswered \/ AfterRollback
     \/ RestoreReceived \/ ReceiveSaves \/ DbInsert \/ SyncWaitEnds
     \/ SyncNotNeeded \/ SyncBegins \/ SyncLoop \/ PeerAnswers
     \/ SaveRequestedBlock \/ RequestedBlocksEnd \/ SyncExit \/ WarmUp
     \/ WarmRestore \/ WarmPush \/ WarmUpDone \/ GenTimerFires \/ FinTimerFires
     \/ SyncTimerFires \/ BlockArrives \/ Tick \/ UNCHANGED vars
  BY <1>1
  DEF RestoreStep, RoundFinish, WarmUpFinished, RefuseBlock, AcceptNext,
      AcceptReplacement, SkipForging, Forge, StartSync, SendDelete, DbDelete,
      DeleteAnswered, AfterRollback, RestoreReceived, ReceiveSaves, DbInsert,
      SyncWaitEnds, SyncNotNeeded, SyncBegins, SyncLoop, PeerAnswers,
      SaveRequestedBlock, RequestedBlocksEnd, SyncExit, WarmUp, WarmRestore,
      WarmPush, WarmUpDone, GenTimerFires, FinTimerFires, SyncTimerFires,
      BlockArrives, Tick, vars
<1>2. CASE \/ ForgeFails \/ ReceiveFails \/ InsertFailed \/ ApplyBlock
           \/ SyncDone
  <2>1. thrown' = (thrown /\ sync)
    BY <1>2
    DEF ForgeFails, ReceiveFails, InsertFailed, ApplyBlock, SyncDone,
        ProcessFailed, Released
  <2> QED
    BY <2>1
<1>3. CASE ForgeThrows \/ ApplyThrows \/ Undo \/ Crash
  BY <1>3 DEF ForgeThrows, ApplyThrows, Undo, Crash, AbortTask
<1> QED
  BY <1>1, <1>2, <1>3, Zenon DEF Next, Handler, Database, Timers, Environment

-----------------------------------------------------------------------------
(* What a task holds.                                                      *)

\* The running task synchronizes.
Synchronizing == mainQ # <<>> /\ Task = "EMIT_SYNC_BLOCKS"

\* Where SyncService is.
AtSyncPoint ==
  \/ Stage \in {"syncWait", "syncStart", "syncLoop", "syncNet", "syncBlocks",
                "afterRollback", "syncExit", "syncDone"}
  \/ Deleting /\ blk = NoBlock

\* Only the task that synchronizes gets there.
SyncPointsInv == AtSyncPoint => Synchronizing

\* That task or the loader has set System.synchronization, and it or the
\* saving of a block has locked the transaction queue.
HolderRuns ==
  /\ sync => \/ WarmingUp \/ Stage = "dead"
             \/ Stage \notin {"idle", "syncDone"} /\ Synchronizing
  /\ locked => \/ Stage = "saving"
               \/ Stage \notin {"idle", "syncWait", "syncStart"} /\ Synchronizing

HeldInv == SyncPointsInv /\ (thrown \/ HolderRuns)

\* Where the task is.
LEMMA TaskPlaces ==
  ASSUME BaseInv, DispatchInv
  PROVE  /\ pc = "restore" => then \notin AwaitPoints \cup {"dead", "warmUp"}
         /\ pc \in Points /\ then \in Points /\ then # "restore"
         /\ Stage \in BootPoints => mainQ = <<>>
         /\ Stage \notin BootPoints \cup {"dead", "idle"} => mainQ # <<>>
         /\ Receiving \/ Loading => blk # NoBlock
         /\ ~Receiving /\ ~Loading /\ ~Deleting => blk = NoBlock
BY DEF DispatchInv, Continues, TaskQueued, BaseInv, StoreTypeOK, TaskBlock

\* An event that arrives does not change which task runs.
LEMMA SameTask ==
  ASSUME DispatchInv, Synchronizing, NEW e, MessageON(e)
  PROVE  Synchronizing'
<1>1. mainQ \in Seq(Events) /\ mainQ # <<>>
  BY DEF DispatchInv, DispatcherTypeOK, Synchronizing
<1>2. Append(mainQ, e) # <<>> /\ Head(Append(mainQ, e)) = Head(mainQ)
  BY <1>1
<1>3. mainQ' = mainQ \/ mainQ' = Append(mainQ, e)
  BY DEF MessageON
<1> QED
  BY <1>1, <1>2, <1>3 DEF Synchronizing, Task

LEMMA SyncPointsNext ==
  ASSUME BaseInv, DispatchInv, SyncPointsInv, [Next]_vars
  PROVE  SyncPointsInv'
<1>a. /\ pc = "restore" => then \notin AwaitPoints \cup {"dead", "warmUp"}
      /\ pc \in Points /\ then \in Points /\ then # "restore"
      /\ Stage \notin BootPoints \cup {"dead", "idle"} => mainQ # <<>>
      /\ Receiving \/ Loading => blk # NoBlock
      /\ ~Receiving /\ ~Loading /\ ~Deleting => blk = NoBlock
      /\ NoBlock \notin Blocks
  BY TaskPlaces, NodeAssumption
<1>b. UNCHANGED mainQ => Synchronizing' = Synchronizing
  BY DEF Synchronizing, Task
<1>c. ASSUME UNCHANGED <<pc, then, blk>>, Synchronizing => Synchronizing'
      PROVE  SyncPointsInv'
  BY <1>c DEF SyncPointsInv, AtSyncPoint, Stage, Deleting
<1>d. ASSUME NEW e, MessageON(e), UNCHANGED <<pc, then, blk>> PROVE SyncPointsInv'
  BY <1>c, <1>d, SameTask
<1>e. ASSUME pc' = "idle" PROVE SyncPointsInv'
  BY <1>e DEF SyncPointsInv, AtSyncPoint, Stage, Deleting
<1>f. ASSUME UNCHANGED mainQ, Synchronizing PROVE SyncPointsInv'
  BY <1>b, <1>f DEF SyncPointsInv
<1>g. /\ AtSyncPoint => Synchronizing
      /\ pc \in {"afterRollback", "syncStart", "syncLoop", "syncNet",
                 "syncBlocks", "syncExit", "syncWait"} => AtSyncPoint
      /\ pc \in {"undoStart", "deleting", "undo"} /\ blk = NoBlock => AtSyncPoint
  BY DEF SyncPointsInv, AtSyncPoint, Stage, Deleting
<1> USE DEF queueVars, taskVars
<1>1. CASE RestoreStep
  <2>1. UNCHANGED <<mainQ, blk>> /\ pc = "restore"
    BY <1>1 DEF RestoreStep
  <2>2. pc' = then \/ UNCHANGED <<pc, then>>
    BY <1>1 DEF RestoreStep, LeaveRestore
  <2> QED
    BY <1>a, <1>b, <2>1, <2>2 DEF SyncPointsInv, AtSyncPoint, Stage, Deleting
<1>2. CASE RoundFinish \/ WarmUpFinished \/ DbDelete \/ DbInsert \/ Tick
           \/ UNCHANGED vars
  BY <1>2, <1>b, <1>c
  DEF RoundFinish, WarmUpFinished, DbDelete, DbInsert, Tick, vars
<1>3. CASE \/ RefuseBlock \/ SkipForging \/ ForgeFails \/ ForgeThrows
           \/ ApplyThrows \/ SyncNotNeeded \/ SyncDone \/ WarmUpDone
  BY <1>3, <1>e
  DEF RefuseBlock, SkipForging, ForgeFails, ForgeThrows, ApplyThrows,
      SyncNotNeeded, SyncDone, WarmUpDone, AbortTask, FinishTask, NextTask
<1>4. CASE AcceptNext \/ AcceptReplacement \/ Forge
  <2>1. /\ blk' # NoBlock
        /\ \/ pc' \in {"restoreReceived", "saving", "undoStart"}
           \/ pc' = "restore" /\ then' = "undoStart"
    BY <1>4, <1>a
    DEF AcceptNext, AcceptReplacement, Forge, Forgeable, Delivered, Restore, Await
  <2> QED
    BY <2>1 DEF SyncPointsInv, AtSyncPoint, Stage, Deleting
<1>5. CASE StartSync
  <2>1. UNCHANGED mainQ /\ Synchronizing
    <3>1. mainQ # <<>>
      BY <1>5, TaskTaken DEF StartSync, TaskBegins
    <3> QED
      BY <1>5, <3>1 DEF StartSync, TaskBegins, Synchronizing
  <2> QED
    BY <1>f, <2>1
<1>6. CASE SendDelete \/ DeleteAnswered
  <2>1. UNCHANGED <<mainQ, blk>> /\ pc \in {"undoStart", "deleting"}
    BY <1>6 DEF SendDelete, DeleteAnswered
  <2>2. CASE blk = NoBlock
    BY <1>f, <1>g, <2>1, <2>2
  <2>3. CASE blk # NoBlock
    <3>1. \/ pc' \in {"deleting", "undo", "restoreReceived"}
          \/ pc' = "restore" /\ then' = "undo"
      BY <1>6, <2>3
      DEF SendDelete, DeleteAnswered, AfterFailedDelete, Await, Restore
    <3> QED
      BY <2>1, <2>3, <3>1 DEF SyncPointsInv, AtSyncPoint, Stage, Deleting
  <2> QED
    BY <2>2, <2>3
<1>7. CASE Undo
  <2>1. CASE LastBlock.generator \in Active(CurrentRound)
    <3>1. /\ pc = "undo" /\ UNCHANGED <<mainQ, blk>>
          /\ pc' = IF blk # NoBlock THEN "restoreReceived" ELSE "afterRollback"
      BY <1>7, <2>1 DEF Undo
    <3>2. CASE blk = NoBlock
      BY <1>f, <1>g, <3>1, <3>2
    <3>3. CASE blk # NoBlock
      BY <3>1, <3>3 DEF SyncPointsInv, AtSyncPoint, Stage, Deleting
    <3> QED
      BY <3>2, <3>3
  <2>2. CASE LastBlock.generator \notin Active(CurrentRound)
    BY <1>7, <1>e, <2>2 DEF Undo, AbortTask, FinishTask, NextTask
  <2> QED
    BY <2>1, <2>2
<1>8. CASE \/ AfterRollback \/ SyncBegins \/ SyncLoop \/ PeerAnswers
           \/ SaveRequestedBlock \/ RequestedBlocksEnd \/ SyncExit
           \/ SyncWaitEnds
  BY <1>8, <1>f, <1>g
  DEF AfterRollback, SyncBegins, SyncLoop, PeerAnswers, SaveRequestedBlock,
      RequestedBlocksEnd, SyncExit, SyncWaitEnds
<1>9. CASE RestoreReceived \/ ReceiveSaves
  <2>1. pc' \in {"receive", "saving"} \/ (pc' = "restore" /\ then' = "receive")
    BY <1>9 DEF RestoreReceived, ReceiveSaves, Restore, Await
  <2> QED
    BY <2>1 DEF SyncPointsInv, AtSyncPoint, Stage, Deleting
<1>10. CASE ReceiveFails \/ InsertFailed \/ ApplyBlock
  <2>1. mainQ # <<>>
    BY <1>10, <1>a
    DEF ReceiveFails, InsertFailed, ApplyBlock, Stage, BootPoints
  <2>2. CASE Task = "EMIT_SYNC_BLOCKS"
    <3>1. UNCHANGED mainQ
      BY <1>10, <2>2 DEF ReceiveFails, InsertFailed, ProcessFailed, ApplyBlock
    <3> QED
      BY <1>f, <2>1, <2>2, <3>1 DEF Synchronizing
  <2>3. CASE Task # "EMIT_SYNC_BLOCKS"
    BY <1>10, <1>e, <2>3
    DEF ReceiveFails, InsertFailed, ProcessFailed, ApplyBlock, FinishTask, NextTask
  <2> QED
    BY <2>2, <2>3
<1>11. CASE GenTimerFires \/ FinTimerFires \/ SyncTimerFires \/ BlockArrives
  <2>1. PICK e : MessageON(e)
    BY <1>11 DEF GenTimerFires, FinTimerFires, SyncTimerFires, BlockArrives
  <2>2. UNCHANGED <<pc, then, blk>>
    BY <1>11 DEF GenTimerFires, FinTimerFires, SyncTimerFires, BlockArrives
  <2> QED
    BY <1>d, <2>1, <2>2
<1>12. CASE Crash \/ WarmUp \/ WarmRestore \/ WarmPush
  <2>1. \/ pc' \in {"warmUp", "warmRestore", "warmPush", "dead"}
        \/ pc' = "restore" /\ then' = "warmPush"
    BY <1>12 DEF Crash, WarmUp, WarmRestore, WarmPush, Restore
  <2> QED
    BY <2>1 DEF SyncPointsInv, AtSyncPoint, Stage, Deleting
<1> QED
  BY <1>1, <1>2, <1>3, <1>4, <1>5, <1>6, <1>7, <1>8, <1>9, <1>10, <1>11,
     <1>12, Zenon
  DEF Next, Handler, Database, Timers, Environment

\* What a throwing handler has left is released where the queue is unlocked
\* outside of a synchronization, or by a crash.
LEMMA ReleasedNext ==
  ASSUME thrown, ~thrown', [Next]_vars
  PROVE  ~locked' /\ (Crash \/ ~sync')
<1> USE DEF miscVars
<1>1. CASE
         RestoreStep \/ RoundFinish \/ WarmUpFinished \/ RefuseBlock
     \/ AcceptNext \/ AcceptReplacement \/ SkipForging \/ Forge \/ ForgeThrows
     \/ StartSync \/ SendDelete \/ DbDelete \/ DeleteAnswered \/ Undo
     \/ AfterRollback \/ RestoreReceived \/ ReceiveSaves \/ DbInsert
     \/ ApplyThrows \/ SyncWaitEnds \/ SyncNotNeeded \/ SyncBegins \/ SyncLoop
     \/ PeerAnswers \/ SaveRequestedBlock \/ RequestedBlocksEnd \/ SyncExit
     \/ WarmUp \/ WarmRestore \/ WarmPush \/ WarmUpDone \/ GenTimerFires
     \/ FinTimerFires \/ SyncTimerFires \/ BlockArrives \/ Tick
     \/ UNCHANGED vars
  BY <1>1
  DEF RestoreStep, RoundFinish, WarmUpFinished, RefuseBlock, AcceptNext,
      AcceptReplacement, SkipForging, Forge, ForgeThrows, StartSync, SendDelete,
      DbDelete, DeleteAnswered, Undo, AfterRollback, RestoreReceived,
      ReceiveSaves, DbInsert, ApplyThrows, AbortTask, SyncWaitEnds,
      SyncNotNeeded, SyncBegins, SyncLoop, PeerAnswers, SaveRequestedBlock,
      RequestedBlocksEnd, SyncExit, WarmUp, WarmRestore, WarmPush, WarmUpDone,
      GenTimerFires, FinTimerFires, SyncTimerFires, BlockArrives, Tick, vars
<1>2. CASE \/ ForgeFails \/ ReceiveFails \/ InsertFailed \/ ApplyBlock
           \/ SyncDone
  <2>1. thrown' = (thrown /\ sync) /\ locked' = FALSE /\ sync' = sync
    BY <1>2
    DEF ForgeFails, ReceiveFails, InsertFailed, ApplyBlock, SyncDone,
        ProcessFailed, Released
  <2> QED
    BY <2>1
<1>3. CASE Crash
  BY <1>3 DEF Crash
<1> QED
  BY <1>1, <1>2, <1>3, Zenon DEF Next, Handler, Database, Timers, Environment

\* While no handler throws, what is held has its holder.
LEMMA HolderNext ==
  ASSUME BaseInv, DispatchInv, SyncPointsInv, HolderRuns, [Next]_vars, ~thrown'
  PROVE  HolderRuns'
<1>a. /\ pc = "restore" => then \notin AwaitPoints \cup {"dead", "warmUp"}
      /\ pc \in Points /\ then \in Points /\ then # "restore"
      /\ Stage \notin BootPoints \cup {"dead", "idle"} => mainQ # <<>>
      /\ NoBlock \notin Blocks
  BY TaskPlaces, NodeAssumption
<1>b. Stage \in BootPoints \cup {"dead"} => ~Synchronizing \/ Stage = "dead"
  BY TaskPlaces DEF Synchronizing
<1>c. UNCHANGED mainQ => Synchronizing' = Synchronizing
  BY DEF Synchronizing, Task
<1>d. ASSUME UNCHANGED <<pc, then, sync, locked>>,
             Synchronizing => Synchronizing'
      PROVE  HolderRuns'
  BY <1>d DEF HolderRuns, Stage, WarmingUp
<1>e. ASSUME NEW e, MessageON(e), UNCHANGED <<pc, then, sync, locked>>
      PROVE  HolderRuns'
  BY <1>d, <1>e, SameTask
<1>f. ASSUME ~sync', ~locked' PROVE HolderRuns'
  BY <1>f DEF HolderRuns
<1>g. /\ pc = "idle" => ~sync /\ ~locked
      /\ pc = "syncDone" => ~sync
      /\ pc \in {"syncWait", "syncStart"} => ~locked
      /\ WarmingUp => ~locked
      /\ sync \/ locked => Synchronizing \/ Stage = "saving" \/ WarmingUp \/ Stage = "dead"
      /\ Stage = "saving" => (sync => Synchronizing)
  BY <1>b DEF HolderRuns, Stage, WarmingUp, BootPoints
<1>h. pc \in {"syncWait", "syncStart", "syncLoop", "syncNet", "syncBlocks",
              "afterRollback", "syncExit"} => Synchronizing
  BY DEF SyncPointsInv, AtSyncPoint, Stage
<1>i. ASSUME UNCHANGED <<mainQ, sync, locked>>, Synchronizing,
             Stage' \notin {"idle", "syncDone", "syncWait", "syncStart"}
      PROVE  HolderRuns'
  BY <1>c, <1>i DEF HolderRuns
<1> USE DEF queueVars, taskVars, BootPoints, AwaitPoints
<1>1. CASE RestoreStep
  <2>1. UNCHANGED <<mainQ, sync, locked>> /\ pc = "restore"
    BY <1>1 DEF RestoreStep
  <2>2. pc' = then \/ UNCHANGED <<pc, then>>
    BY <1>1 DEF RestoreStep, LeaveRestore
  <2> QED
    BY <1>a, <1>c, <2>1, <2>2 DEF HolderRuns, Stage, WarmingUp
<1>2. CASE RoundFinish \/ WarmUpFinished \/ DbDelete \/ DbInsert \/ Tick
           \/ UNCHANGED vars
  BY <1>2, <1>c, <1>d
  DEF RoundFinish, WarmUpFinished, DbDelete, DbInsert, Tick, vars
<1>3. CASE RefuseBlock \/ SkipForging \/ ForgeFails \/ AcceptNext
           \/ AcceptReplacement
  <2>1. pc = "idle" /\ UNCHANGED sync
    BY <1>3
    DEF RefuseBlock, SkipForging, ForgeFails, AcceptNext, AcceptReplacement,
        TaskBegins
  <2>2. UNCHANGED locked \/ locked' = FALSE
    BY <1>3
    DEF RefuseBlock, SkipForging, ForgeFails, AcceptNext, AcceptReplacement
  <2>3. ~sync /\ ~locked
    BY <1>g, <2>1
  <2> QED
    BY <1>f, <2>1, <2>2, <2>3, Zenon
<1>4. CASE ForgeThrows \/ ApplyThrows
  BY <1>4 DEF ForgeThrows, ApplyThrows, AbortTask
<1>5. CASE Forge
  BY <1>5, <1>g DEF Forge, TaskBegins, Await, HolderRuns, Stage
<1>6. CASE StartSync
  <2>1. /\ mainQ # <<>> /\ UNCHANGED <<mainQ, locked>> /\ ~locked
        /\ pc' \in {"syncWait", "syncStart"}
    BY <1>6, <1>g, TaskTaken DEF StartSync, TaskBegins, Await
  <2>2. Synchronizing'
    BY <1>6, <2>1 DEF StartSync, TaskBegins, Synchronizing, Task
  <2> QED
    BY <2>1, <2>2 DEF HolderRuns, Stage
<1>7. CASE SendDelete \/ DeleteAnswered \/ RestoreReceived \/ AfterRollback
  <2>1. /\ UNCHANGED <<mainQ, sync, locked>>
        /\ pc \in {"undoStart", "deleting", "restoreReceived", "afterRollback"}
    BY <1>7 DEF SendDelete, DeleteAnswered, RestoreReceived, AfterRollback
  <2>2. \/ pc' \in {"deleting", "undo", "restoreReceived", "syncLoop", "receive"}
        \/ pc' = "restore" /\ then' \in {"undo", "receive", "syncLoop"}
    BY <1>7
    DEF SendDelete, DeleteAnswered, RestoreReceived, AfterRollback,
        AfterFailedDelete, Await, Restore
  <2>3. sync \/ locked => Synchronizing
    BY <1>g, <2>1 DEF Stage, WarmingUp
  <2> QED
    BY <1>f, <1>i, <2>1, <2>2, <2>3 DEF Stage
<1>8. CASE Undo
  <2>1. CASE LastBlock.generator \in Active(CurrentRound)
    <3>1. /\ pc = "undo" /\ UNCHANGED <<mainQ, sync, locked>>
          /\ pc' \in {"restoreReceived", "afterRollback"}
      BY <1>8, <2>1 DEF Undo
    <3>2. sync \/ locked => Synchronizing
      BY <1>g, <3>1 DEF Stage, WarmingUp
    <3> QED
      BY <1>f, <1>i, <3>1, <3>2 DEF Stage
  <2>2. CASE LastBlock.generator \notin Active(CurrentRound)
    BY <1>8, <2>2 DEF Undo, AbortTask
  <2> QED
    BY <2>1, <2>2
<1>9. CASE ReceiveFails \/ InsertFailed \/ ApplyBlock
  <2>1. /\ UNCHANGED sync /\ ~locked' /\ mainQ # <<>>
        /\ pc \in {"receive", "saving"}
    BY <1>9, <1>a
    DEF ReceiveFails, InsertFailed, ProcessFailed, ApplyBlock, Stage
  <2>2. CASE Task = "EMIT_SYNC_BLOCKS"
    <3>1. UNCHANGED mainQ /\ pc' \in {"syncLoop", "syncBlocks"} /\ Synchronizing
      BY <1>9, <2>1, <2>2
      DEF ReceiveFails, InsertFailed, ProcessFailed, ApplyBlock, Synchronizing
    <3> QED
      BY <1>c, <2>1, <3>1 DEF HolderRuns, Stage
  <2>3. CASE Task # "EMIT_SYNC_BLOCKS"
    <3>1. ~sync
      BY <1>g, <2>1, <2>3 DEF Synchronizing, Stage, WarmingUp
    <3> QED
      BY <1>f, <2>1, <3>1
  <2> QED
    BY <2>2, <2>3
<1>10. CASE ReceiveSaves
  <2>1. UNCHANGED <<mainQ, sync>> /\ pc = "receive" /\ pc' = "saving"
    BY <1>10 DEF ReceiveSaves, Await
  <2>2. sync => Synchronizing
    BY <1>g, <2>1 DEF Stage, WarmingUp
  <2> QED
    BY <1>c, <2>1, <2>2 DEF HolderRuns, Stage
<1>11. CASE SyncWaitEnds
  BY <1>11, <1>c, <1>g, <1>h DEF SyncWaitEnds, HolderRuns, Stage
<1>12. CASE SyncNotNeeded
  BY <1>12, <1>f, <1>g DEF SyncNotNeeded
<1>13. CASE SyncBegins
  <2>1. /\ UNCHANGED <<mainQ, sync>> /\ Synchronizing
        /\ pc' = "syncLoop" \/ (pc' = "restore" /\ then' = "syncLoop")
    BY <1>13, <1>h DEF SyncBegins, Restore
  <2> QED
    BY <1>c, <2>1 DEF HolderRuns, Stage
<1>14. CASE SyncLoop \/ PeerAnswers \/ SaveRequestedBlock \/ RequestedBlocksEnd
  <2>1. /\ UNCHANGED <<mainQ, sync, locked>> /\ Synchronizing
        /\ pc' \in {"syncLoop", "syncNet", "syncExit", "undoStart", "syncBlocks",
                    "restoreReceived"}
    BY <1>14, <1>h DEF SyncLoop, PeerAnswers, SaveRequestedBlock, RequestedBlocksEnd
  <2> QED
    BY <1>i, <2>1 DEF Stage
<1>15. CASE SyncExit
  <2>1. /\ UNCHANGED <<mainQ, locked>> /\ Synchronizing /\ ~sync'
        /\ pc' = "syncDone" \/ (pc' = "restore" /\ then' = "syncDone")
    BY <1>15, <1>h DEF SyncExit, Restore
  <2> QED
    BY <1>c, <2>1 DEF HolderRuns, Stage
<1>16. CASE SyncDone
  BY <1>16, <1>f, <1>g DEF SyncDone
<1>17. CASE GenTimerFires \/ FinTimerFires \/ SyncTimerFires \/ BlockArrives
  <2>1. PICK e : MessageON(e)
    BY <1>17 DEF GenTimerFires, FinTimerFires, SyncTimerFires, BlockArrives
  <2>2. UNCHANGED <<pc, then, sync, locked>>
    BY <1>17 DEF GenTimerFires, FinTimerFires, SyncTimerFires, BlockArrives
  <2> QED
    BY <1>e, <2>1, <2>2
<1>18. CASE Crash \/ WarmUp \/ WarmRestore \/ WarmPush
  <2>1. /\ ~locked'
        /\ \/ pc' \in {"warmUp", "warmRestore", "warmPush", "dead"}
           \/ pc' = "restore" /\ then' = "warmPush"
    BY <1>18, <1>g DEF Crash, WarmUp, WarmRestore, WarmPush, Restore, WarmingUp, Stage
  <2> QED
    BY <2>1 DEF HolderRuns, WarmingUp, Stage
<1>19. CASE WarmUpDone
  BY <1>19, <1>f, <1>g DEF WarmUpDone, WarmingUp, Stage
<1> QED
  BY <1>1, <1>2, <1>3, <1>4, <1>5, <1>6, <1>7, <1>8, <1>9, <1>10, <1>11,
     <1>12, <1>13, <1>14, <1>15, <1>16, <1>17, <1>18, <1>19, Zenon
  DEF Next, Handler, Database, Timers, Environment

\* Nothing is held without a holder but what a throwing handler has left.
LEMMA HeldNext ==
  ASSUME BaseInv, DispatchInv, HeldInv, [Next]_vars
  PROVE  HeldInv'
<1>1. SyncPointsInv'
  BY SyncPointsNext DEF HeldInv
<1>2. ASSUME ~thrown, ~thrown' PROVE HolderRuns'
  BY <1>2, HolderNext DEF HeldInv
<1>3. ASSUME thrown, ~thrown' PROVE HolderRuns'
  BY <1>3, ReleasedNext
  DEF HolderRuns, Crash, WarmingUp, Stage, BootPoints
<1> QED
  BY <1>1, <1>2, <1>3 DEF HeldInv

-----------------------------------------------------------------------------
(* Theorems.                                                               *)

\* The invariant of the dispatcher and the types of rounds hold in every state.
THEOREM DispatcherInvariant == Spec => [](DispatchInv /\ ScheduleInv)
<1>1. BaseInv /\ DispatchInv /\ ScheduleInv /\ [Next]_vars
        => (DispatchInv /\ ScheduleInv)'
  BY DispatchNext, ScheduleTypeNext, RoundsKnownNext DEF ScheduleInv
<1> QED
  BY <1>1, DispatchInit, ScheduleInit, BaseInvariant, PTL DEF Spec

\* All variables of a node have their types, what is found by height is in the
\* chain, and an await waits only for callbacks that are queued.
THEOREM TypeOKHolds == Spec => []TypeOK
<1>1. BaseInv /\ DispatchInv /\ ScheduleInv /\ HeightsKnown /\ thrown \in BOOLEAN
        => TypeOK
  BY DEF BaseInv, DispatchInv, ScheduleInv, Waiting, TypeOK
<1>2. Init => HeightsKnown /\ thrown \in BOOLEAN
  <2>1. DOMAIN <<>> = {}
    OBVIOUS
  <2> QED
    BY <2>1 DEF Init, HeightsKnown
<1>3. BaseInv /\ HeightsKnown /\ thrown \in BOOLEAN /\ [Next]_vars
        => (HeightsKnown /\ thrown \in BOOLEAN)'
  BY KnownNext, ThrownNext
<1> QED
  BY <1>1, <1>2, <1>3, BaseInvariant, DispatcherInvariant, PTL DEF Spec

\* Tasks are never forgotten and two of them never run at the same time: when
\* no task runs and some wait, processMainQueue is scheduled exactly once,
\* otherwise not at all.
THEOREM SingleDispatchHolds == Spec => []SingleDispatch
<1>1. ASSUME DispatchInv PROVE SingleDispatch
  <2>1. PICK M : M = {i \in DOMAIN imm : imm[i] = "MAIN"}
    OBVIOUS
  <2>2. DOMAIN imm = 1..Len(imm)
    BY <1>1, LenProperties DEF DispatchInv, DispatcherTypeOK
  <2>3. CASE pc = "idle" /\ mainQ # <<>>
    <3>1. PICK k \in 1..Len(imm) :
            imm[k] = "MAIN" /\ \A i \in 1..Len(imm) : imm[i] = "MAIN" => i = k
      BY <1>1, <2>3 DEF DispatchInv, Scheduled, OneMain
    <3>2. M = {k}
      BY <2>1, <2>2, <3>1
    <3>3. Cardinality(M) = 1
      BY <3>2, FS_Singleton
    <3> QED
      BY <2>1, <2>3, <3>3 DEF SingleDispatch
  <2>4. CASE ~(pc = "idle" /\ mainQ # <<>>)
    <3>1. M = {}
      BY <1>1, <2>1, <2>2, <2>4 DEF DispatchInv, Scheduled, NoMain
    <3>2. Cardinality(M) = 0
      BY <3>1, FS_EmptySet
    <3> QED
      BY <2>1, <2>4, <3>2 DEF SingleDispatch
  <2> QED
    BY <2>3, <2>4
<1> QED
  BY <1>1, DispatcherInvariant, PTL

\* In every behaviour, whichever statements fail, whenever rounds end and
\* however late the node forges: when no task runs, the transaction queue is
\* locked or System.synchronization set only because a handler threw and no
\* later task has released it.
THEOREM NothingHeldHolds == Spec => []NothingHeld
<1>1. Init => HeldInv
  <2> SUFFICES ASSUME Init PROVE HeldInv
    OBVIOUS
  <2>1. pc = "warmUp" /\ ~locked
    BY DEF Init
  <2> QED
    BY <2>1
    DEF HeldInv, SyncPointsInv, AtSyncPoint, HolderRuns, Stage, WarmingUp,
        Deleting, BootPoints
<1>2. BaseInv /\ DispatchInv /\ HeldInv /\ [Next]_vars => HeldInv'
  BY HeldNext
<1>3. HeldInv => NothingHeld
  BY DEF HeldInv, HolderRuns, NothingHeld, Stage, WarmingUp, BootPoints
<1> QED
  BY <1>1, <1>2, <1>3, BaseInvariant, DispatcherInvariant, PTL DEF Spec
=============================================================================
