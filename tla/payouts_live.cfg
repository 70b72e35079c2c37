SPECIFICATION FairSpec
CONSTANTS
  e1 = e1
  e2 = e2
  admin = admin
  hook = hook
  run1 = run1
  Workers <- AdminRun
  Does <- RunsDo
  Earnings <- OneEarning
  None = None
  Captured = 4
  Net = 2
  Amounts = {4}
  Missing = {e1}
  AutoNet = FALSE
  MaxBatches = 3
  MaxHolds = 1
  MaxFaults = 2
  MaxOutside = 0
  MaxCrashes = 1
INVARIANTS LeavesOnce BatchPaysItsEarnings
PROPERTIES EarningsLeave
CHECK_DEADLOCK FALSE
