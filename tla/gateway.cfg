SPECIFICATION FairSpec
CONSTANTS
  Clients = {"a", "b"}
  Requests <- MCRequests
  Limit = 1
  MaxFaults = 2
INVARIANTS Accounted NoOvertaking WithdrawnNotExecuted
PROPERTIES EveryRequestAnswered
CHECK_DEADLOCK FALSE
