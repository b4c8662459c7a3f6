SPECIFICATION Spec
CONSTANTS
  Delegates = {me, a, b}
  Me = me
  NoBlock = NoBlock
  Blocks <- MCBlocks
  Genesis <- MCGenesis
  BlockIds <- MCBlockIds
  Schedule <- MCSchedule
  Consensus = {TRUE, FALSE}
  DbFails = {"insert"}
  Skew = 0
  StartSlot = 1
  MaxSlot = 3
  MaxQueue = 1
  MaxCrashes = 1
  MaxHeight = 3
  MaxBlockSlot = 3
  MaxActive = 2
CHECK_DEADLOCK FALSE
INVARIANTS TypeOK StoredLinear IInv SingleDispatch NothingHeld
PROPERTIES StoredChainSpec PopsWhatWasCompared
