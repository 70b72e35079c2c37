SPECIFICATION FairSpec
CONSTANTS
  e1 = e1
  e2 = e2
  admin = admin
  hook = hook
  run1 = run1
  Workers <- Solo
  Does <- SoloDry
  Earnings <- OneEarning
  None = None
  Captured = 4
  Net = 2
  Amounts = {4}
  Missing = {}
  AutoNet = FALSE
  MaxBatches = 3
  MaxHolds = 2
  MaxFaults = 2
  MaxOutside = 0
  MaxCrashes = 0
CHECK_DEADLOCK FALSE
PROPERTIES EarningsLeave
