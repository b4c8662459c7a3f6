SPECIFICATION FairSpec
CONSTANTS
  Peers = {"p", "q", "r"}
  Trunk = 1
  Forks <- TwoForks
  Window = 3
  Limit = 2
  MinConsensus = 51
  Starts <- AllStarts
  PeerStarts <- Tips
  Plans <- AllPlans
CHECK_DEADLOCK FALSE
INVARIANTS KnowsTheirChain
PROPERTIES FollowsMajority
