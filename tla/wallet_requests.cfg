SPECIFICATION FairSpec
CONSTANTS
  c1 = c1
  c2 = c2
  d1 = d1
  d2 = d2
  lab = lab
  own = own
  t1 = t1
  e1 = e1
  Keys <- LabKeys
  OrgKeys <- LabKeys
  Clients <- TwoClients
  Deliverers <- OneDeliverer
  Topups <- OneTopup
  Events <- OneEvent
  Length = 1
  MaxHours = 3
  Funds = 2
  Caps = {0, 2}
  MaxDeposits = 1
  MaxErrors = 1
  MaxCrashes = 1
INVARIANTS OneBookingPerKey SpentIsBookings CreditedOnce
PROPERTIES PaidIsCredited
CHECK_DEADLOCK FALSE
