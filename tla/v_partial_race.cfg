SPECIFICATION Spec
CONSTANTS
  e1 = e1
  e2 = e2
  admin = admin
  hook = hook
  run1 = run1
  Workers <- Two
  Does <- HookRun
  Earnings <- OneEarning
  None = None
  Captured = 4
  Net = 2
  Amounts = {2}
  Missing = {}
  AutoNet = FALSE
  MaxBatches = 2
  MaxHolds = 0
  MaxFaults = 0
  MaxOutside = 1
  MaxCrashes = 0
CHECK_DEADLOCK FALSE
INVARIANTS BatchPaysItsEarnings
