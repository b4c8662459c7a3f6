SPECIFICATION FairSpec
CONSTANTS
  Delegates = {me, a}
  Me = me
  NoBlock = NoBlock
  Blocks <- MCBlocks
  Genesis <- MCGenesis
  BlockIds <- MCBlockIds
  Schedule <- MCSchedule
  Consensus = {TRUE, FALSE}
  DbFails = {"insert", "delete"}
  Skew = 0
  StartSlot = 1
  MaxSlot = 3
  MaxQueue = 1
  MaxCrashes = 0
  MaxHeight = 3
  MaxBlockSlot = 3
  MaxActive = 2
CHECK_DEADLOCK FALSE
PROPERTIES TaskEnds
