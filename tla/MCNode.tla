------------------------------- MODULE MCNode -------------------------------
(***************************************************************************)
(* Small instances of Node for TLC.  A block is named by the path of       *)
(* <<slot, generator>> pairs that leads to it from the genesis block; its  *)
(* id is a number that encodes the path, so that different blocks have     *)
(* different ids, as with a hash.                                          *)
(***************************************************************************)
EXTENDS NodeInv

CONSTANTS
  MaxHeight,      \* bound: height of the highest block
  MaxBlockSlot,   \* bound: highest slot of a block
  MaxActive       \* bound: delegates in a round; 2 or 3

MCDelegates == SetToSeq(Delegates)

\* A block may have any slot and any generator; the code has to refuse the
\* wrong ones.
MCPaths ==
  LET first == MaxActive - 1
      level[h \in 1..MaxHeight] ==
        IF h = 1
        THEN {<<>>}
        ELSE {p \o << <<s, d>> >> :
                p \in level[h - 1], s \in first..MaxBlockSlot,
                d \in DOMAIN MCDelegates}
  IN  UNION {level[h] : h \in 1..MaxHeight}

MCId(p) ==
  FoldLeft(LAMBDA id, step :
             id * (MaxBlockSlot + 1) * (Len(MCDelegates) + 1)
               + step[1] * (Len(MCDelegates) + 1) + step[2],
           0, p)

\* One block is forged in the second half of its slot, the others in the first.
MCBlock(p) ==
  IF p = <<>>
  THEN [id |-> MCId(p), previousBlockId |-> -1, height |-> 1, slot |-> 0,
        createdAt |-> 0, generator |-> MCDelegates[1], fee |-> 0]
  ELSE [id |-> MCId(p), previousBlockId |-> MCId(Front(p)),
        height |-> Len(p) + 1, slot |-> Last(p)[1],
        createdAt |-> 2 * Last(p)[1]
                        + IF p = << <<MaxActive - 1, 2>> >> THEN 1 ELSE 0,
        generator |-> MCDelegates[Last(p)[2]], fee |-> Last(p)[1] % 2]

\* TLC evaluates a definition that takes the place of a constant each time it
\* is used, and the definitions it refers to once; hence the two levels.
AllBlocks   == {MCBlock(p) : p \in MCPaths}
AllBlockIds == {b.id : b \in AllBlocks}
GenesisOnly == MCBlock(<<>>)

MCBlocks   == AllBlocks
MCGenesis  == GenesisOnly
MCBlockIds == AllBlockIds

\* Two delegates are active, or MaxActive; which ones, and who comes first,
\* depends on the slot of the block on which the round is generated.
AllSchedules ==
  LET ds == MCDelegates
      slotOf(id) == (id \div (Len(ds) + 1)) % (MaxBlockSlot + 1)
  IN  [id \in AllBlockIds |->
        CASE slotOf(id) % 4 = 0 -> <<ds[1], ds[2]>>
          [] slotOf(id) % 4 = 1 -> <<ds[2], ds[1]>>
          [] slotOf(id) % 4 = 2 -> SubSeq(Reverse(ds), 1, MaxActive)
          [] slotOf(id) % 4 = 3 -> <<ds[1], ds[Len(ds)]>>]

MCSchedule == AllSchedules
=============================================================================
