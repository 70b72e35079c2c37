SPECIFICATION FairSpec
CONSTANTS
  w1 = w1
  w2 = w2
  reaper = reaper
  Reaper = reaper
  Requests <- TwoWorkers
  Units = 1
  Handlers = {"reserve", "dispatch"}
  Faults = {}
  Verdicts = {"settle"}
  Slots = 1
  Opening = "PAYMENT_AUTHORIZED"
  MaxOthers = 0
  MaxRetries = 0
  MaxDowns = 1
  MaxErrors = 0
  MaxCrashes = 0
PROPERTIES AbandonedIsReleased
CHECK_DEADLOCK FALSE
