SPECIFICATION Spec
CONSTANTS
  b1 = b1
  b2 = b2
  b3 = b3
  w1 = w1
  w2 = w2
  buyer = buyer
  org = org
  Bookings = {b1}
  Wallets = {buyer, org}
  OrgWallets = {org}
  Payer <- AllPersonal
  Workers = {w1, w2}
  Rate = 2
  Fee = 1
  Hours = {1}
  MaxHours = 3
  Funds = 8
  Units = 1
  MaxClock = 0
  MaxTopups = 0
  MaxPauses = 0
  MaxCrashes = 0
  Handlers = {"book", "launch", "extend"}
SYMMETRY WorkerSymmetry
CHECK_DEADLOCK FALSE
INVARIANT WindowCoversHours
