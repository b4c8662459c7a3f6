SPECIFICATION FairSpec
CONSTANTS
  Address <- MCAddress
  TotalSupply = "supply"
  Airdrop = "airdrop"
  NoName = "none"
  Trs <- SpendTrs
  Blacklist = {}
  TotalPercentage = 100
  Fees <- MCFees
  VoteMilestone = 2
  RewardVoteCount = 2
  UnstakeVoteCount = 3
  Milestones <- MCMilestones
  Distance = 30
  StakePercent = 10
  ReferralPercent <- MCReferralPercent
  MaxReferrals = 2
  MaxVotes = 2
  MoneyFactor = 10
  Genesis <- SpendGenesis
  MaxPerBlock = 2
  Budgets <- ForkBudgets
CHECK_DEADLOCK FALSE
INVARIANTS ForgedBlockValid VerdictIndependent
PROPERTIES QueueDrains
