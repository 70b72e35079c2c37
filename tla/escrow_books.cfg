SPECIFICATION FairSpec
CONSTANTS
  b1 = b1
  b2 = b2
  b3 = b3
  w1 = w1
  w2 = w2
  buyer = buyer
  org = org
  Bookings = {b1, b2}
  Wallets = {buyer, org}
  OrgWallets = {org}
  Payer <- FirstByOrg
  Workers = {w1, w2}
  Rate = 2
  Fee = 1
  Hours = {1, 3}
  MaxHours = 3
  Funds = 5
  Units = 1
  MaxClock = 2
  MaxTopups = 0
  MaxPauses = 0
  MaxCrashes = 0
  Handlers = {"book", "launch", "extend", "stop", "result", "expire"}
CHECK_DEADLOCK FALSE
INVARIANTS TypeOK NeverOversold NoUnitLost EscrowMatchesBooking WalletsAreLedgerCaches
PROPERTY SettlementCompletes
