SPECIFICATION Spec
CONSTANTS
  Address <- AllAddress
  TotalSupply = "supply"
  Airdrop = "airdrop"
  NoName = "none"
  Trs <- AllTrs
  Blacklist = {}
  TotalPercentage = 100
  Fees <- MCFees
  VoteMilestone = 2
  RewardVoteCount = 2
  UnstakeVoteCount = 3
  Milestones <- MCMilestones
  Distance = 30
  StakePercent = 10
  ReferralPercent <- MCReferralPercent
  MaxReferrals = 2
  MaxVotes = 2
  MoneyFactor = 10
  Genesis <- AllGenesis
  MaxPerBlock = 3
  Budgets <- LedgerBudgets
CHECK_DEADLOCK FALSE
INVARIANTS LedgerExact Conserved Solvent ConfirmedOnce
PROPERTIES NothingForgotten
