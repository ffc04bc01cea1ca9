CONSTANTS
  Goal = 3
  Rewards <- MCRewards
  MaximumRedemptions <- MCMaximumRedemptions
  Validity <- MCValidity
  Amounts = {1, 2}
  Corrections <- MCCorrections
  MaximumPerOperation = 2
  DailyCap = 0
  Receipts = {}
  Locations = {l1}
  KeyVersions = {1}
  NoReference = NoReference
  ReversalWindow = 1
  TicksPerDay = 2
  MaxLedger = 6
  MaxCycles = 2
  MaxTime = 2
SPECIFICATION Spec
INVARIANTS
  AvailableRewardRedeems
CHECK_DEADLOCK FALSE
