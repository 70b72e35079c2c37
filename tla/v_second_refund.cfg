SPECIFICATION Spec
CONSTANTS
  e1 = e1
  e2 = e2
  admin = admin
  hook = hook
  run1 = run1
  Workers <- Solo
  Does <- SoloDoes
  Earnings <- TwoEarnings
  None = None
  Captured = 4
  Net = 2
  Amounts = {2, 4}
  Missing = {}
  AutoNet = TRUE
  MaxBatches = 2
  MaxHolds = 0
  MaxFaults = 0
  MaxOutside = 2
  MaxCrashes = 0
SYMMETRY SymEarnings
CHECK_DEADLOCK FALSE
INVARIANTS RefundsAreBooked
