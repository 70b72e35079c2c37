SPECIFICATION Spec
CONSTANTS
  c1 = c1
  c2 = c2
  d1 = d1
  d2 = d2
  lab = lab
  own = own
  t1 = t1
  e1 = e1
  Keys <- OwnKeys
  OrgKeys = {}
  Clients <- TwoClients
  Deliverers <- OneDeliverer
  Topups <- OneTopup
  Events = {}
  Length = 1
  MaxHours = 1
  Funds = 2
  Caps = {0, 2}
  MaxDeposits = 0
  MaxErrors = 0
  MaxCrashes = 0

CHECK_DEADLOCK FALSE
INVARIANTS BalanceIsLedger
