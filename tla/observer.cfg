SPECIFICATION RacelessSpec
CONSTANTS
  Delegates = {me, a, b}
  Me = me
  NoBlock = NoBlock
  Blocks <- MCBlocks
  Genesis <- MCGenesis
  BlockIds <- MCBlockIds
  Schedule <- MCSchedule
  Consensus = {TRUE, FALSE}
  DbFails = {"insert", "delete"}
  Skew = 1
  StartSlot = 2
  MaxSlot = 4
  MaxQueue = 2
  MaxCrashes = 1
  MaxHeight = 3
  MaxBlockSlot = 4
  MaxActive = 3
CHECK_DEADLOCK FALSE
INVARIANTS ChainLinked SlotsIncrease FlagsMatchChain RoundsReproducible LedgerExact Loadable UndoFindsSlot
