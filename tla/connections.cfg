SPECIFICATION Spec
CONSTANTS
  Address = {"a", "b", "c"}
  Sockets = {1, 2, 3, 4}
  MinPeers = 1
  MaxDiscover = 2
  MaxConnectTo = 2
  Plans <- SafetyPlans
CHECK_DEADLOCK FALSE
INVARIANTS ListsAgree SameConnection NoLeak NotItself BannedSilenced
