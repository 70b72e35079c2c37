SPECIFICATION Spec
CONSTANTS
  w1 = w1
  w2 = w2
  reaper = reaper
  Reaper = reaper
  Requests <- TwoWorkers
  Units = 1
  Handlers = {"reserve", "dispatch", "capture", "cancel"}
  Faults = {"refused"}
  Verdicts = {"settle", "fail"}
  Slots = 2
  Opening = "PAYMENT_AUTHORIZED"
  MaxOthers = 1
  MaxRetries = 0
  MaxDowns = 0
  MaxErrors = 0
  MaxCrashes = 0
INVARIANTS NeverOversold
SYMMETRY SymWorkers
CHECK_DEADLOCK FALSE
