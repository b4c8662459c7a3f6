SPECIFICATION FairSpec
CONSTANTS
  Address = {"a", "b", "c"}
  Sockets = {1, 2}
  MinPeers = 0
  MaxDiscover = 3
  MaxConnectTo = 2
  Plans <- PingPlans
CHECK_DEADLOCK FALSE
PROPERTIES PingsClean
