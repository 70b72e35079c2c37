SPECIFICATION ResponsiveSpec
CONSTANTS
  w1 = w1
  w2 = w2
  reaper = reaper
  Reaper = reaper
  Requests <- TwoWorkers
  Units = 1
  Handlers = {"reserve", "cancel"}
  Faults = {}
  Verdicts = {"settle"}
  Slots = 1
  Opening = "PAYMENT_AUTHORIZED"
  MaxOthers = 0
  MaxRetries = 0
  MaxDowns = 0
  MaxErrors = 0
  MaxCrashes = 0
PROPERTIES ReservationEnds
CHECK_DEADLOCK FALSE
