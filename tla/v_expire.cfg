SPECIFICATION Spec
CONSTANTS
  b1 = b1
  b2 = b2
  b3 = b3
  w1 = w1
  w2 = w2
  buyer = buyer
  org = org
  Bookings = {b1}
  Wallets = {buyer, org}
  OrgWallets = {org}
  Payer <- AllPersonal
  Workers = {w1, w2}
  Rate = 2
  Fee = 1
  Hours = {1}
  MaxHours = 2
  Funds = 4
  Units = 1
  MaxClock = 1
  MaxTopups = 0
  MaxPauses = 0
  MaxCrashes = 0
  Handlers = {"book", "launch", "extend", "expire"}
SYMMETRY WorkerSymmetry
CHECK_DEADLOCK FALSE
PROPERTY ExpiresFullyUsed
