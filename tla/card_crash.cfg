SPECIFICATION Spec
CONSTANTS
  w1 = w1
  w2 = w2
  reaper = reaper
  Reaper = reaper
  Requests <- OneWorker
  Units = 1
  Handlers = {"reserve", "dispatch", "meter", "capture", "cancel", "retry"}
  Faults = {"refused", "raw"}
  Verdicts = {"settle", "fail", "defer"}
  Slots = 2
  Opening = "none"
  MaxOthers = 1
  MaxRetries = 1
  MaxDowns = 0
  MaxErrors = 1
  MaxCrashes = 1
INVARIANTS ChargeLeavesTrace
CHECK_DEADLOCK FALSE
