SPECIFICATION Spec
CONSTANTS
  Transactions = {"t"}
  MemoryLimit = 2
  RequestLimit = 2
  MaxIds = 4
  MaxFaults = 1
INVARIANTS WindowIsTail IdsOfChain AnswerIsChain
CHECK_DEADLOCK FALSE
