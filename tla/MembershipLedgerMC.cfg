CONSTANTS
  Goal = 3
  Rewards <- MCRewards
  MaximumRedemptions <- MCMaximumRedemptions
  Validity <- MCValidity
  Amounts = {1, 2, 3}
  Corrections <- MCCorrections
  MaximumPerOperation = 3
  DailyCap = 3
  Receipts = {r1}
  Locations = {l1, l2}
  KeyVersions = {1}
  NoReference = NoReference
  ReversalWindow = 1
  TicksPerDay = 2
  MaxLedger = 6
  MaxCycles = 2
  MaxTime = 2
SPECIFICATION FairSpec
INVARIANTS
  ProjectionMatchesLedger
  EarnedMatchesProgress
  FinalRewardDrivesCycle
  RedemptionsCounted
  ChecksSuffice
  DailyCapRespected
  ReceiptsEarnOnce
PROPERTIES
  ImplementsCard
  LapsedRewardsExpire
CHECK_DEADLOCK FALSE
