CONSTANTS
  Goal = 3
  Rewards <- MCRewards
  MaximumRedemptions <- MCMaximumRedemptions
  Validity <- MCValidity
  Amounts = {1, 2}
  Corrections <- MCCorrections
  MaximumPerOperation = 2
  DailyCap = 2
  Receipts = {r1}
  Locations = {l1, l2}
  KeyVersions = {1, 2}
  NoReference = NoReference
  ReversalWindow = 1
  TicksPerDay = 2
  MaxLedger = 5
  MaxCycles = 2
  MaxTime = 4
SPECIFICATION FairSpec
INVARIANTS
  DailyCapRespected
  ReceiptsEarnOnce
PROPERTIES
  LapsedRewardsExpire
CHECK_DEADLOCK FALSE
