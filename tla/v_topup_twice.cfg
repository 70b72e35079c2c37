SPECIFICATION Spec
CONSTANTS
  c1 = c1
  c2 = c2
  d1 = d1
  d2 = d2
  lab = lab
  own = own
  t1 = t1
  e1 = e1
  Keys <- LabKeys
  OrgKeys <- LabKeys
  Clients <- TwoClients
  Deliverers <- TwoDeliverers
  Topups <- OneTopup
  Events <- OneEvent
  Length = 1
  MaxHours = 3
  Funds = 2
  Caps = {0, 2}
  MaxDeposits = 1
  MaxErrors = 0
  MaxCrashes = 0

CHECK_DEADLOCK FALSE
INVARIANTS CreditedOnce
