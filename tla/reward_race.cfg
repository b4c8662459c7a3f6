SPECIFICATION Spec
CONSTANTS
  Delegates = {a, b}
  Me = me
  NoBlock = NoBlock
  Blocks <- MCBlocks
  Genesis <- MCGenesis
  BlockIds <- MCBlockIds
  Schedule <- MCSchedule
  Consensus = {TRUE, FALSE}
  DbFails = {}
  Skew = 0
  StartSlot = 1
  MaxSlot = 5
  MaxQueue = 1
  MaxCrashes = 0
  MaxHeight = 3
  MaxBlockSlot = 5
  MaxActive = 2
CHECK_DEADLOCK FALSE
INVARIANTS LedgerExact
