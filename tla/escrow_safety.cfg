SPECIFICATION Spec
CONSTANTS
  b1 = b1
  b2 = b2
  b3 = b3
  w1 = w1
  w2 = w2
  buyer = buyer
  org = org
  Bookings = {b1, b2}
  Wallets = {buyer, org}
  OrgWallets = {org}
  Payer <- FirstByOrg
  Workers = {w1, w2}
  Rate = 3
  Fee = 1
  Hours = {1}
  MaxHours = 2
  Funds = 3
  Units = 1
  MaxClock = 0
  MaxTopups = 1
  MaxPauses = 1
  MaxCrashes = 1
  Handlers = {"book", "launch", "extend", "stop", "accept", "result", "reap", "topup", "pause"}
SYMMETRY WorkerSymmetry
CHECK_DEADLOCK FALSE
INVARIANTS PaidAtMostOnce
PROPERTIES TerminalIsFinal ImplementsSettlement
