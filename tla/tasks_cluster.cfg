SPECIFICATION Spec
CONSTANTS
  a1 = a1
  a2 = a2
  a3 = a3
  c1 = c1
  c2 = c2
  reaper = reaper
  h1 = h1
  h2 = h2
  Reaper = reaper
  Hosts = {h1, h2}
  Place <- SecondApart
  Owned <- OneSeller
  Parts = 2
  Stitches = 0
  Agents = {a1, a2}
  Buyers = {c1}
  Kinds = {"distributed"}
  Backups = {1}
  Handlers = {"retry", "accept"}
  Instant = FALSE
  MaxRetries = 1
  MaxRefusals = 1
  MaxFailures = 1
  MaxRestores = 0
  MaxSilences = 1
  MaxCrashes = 0
CHECK_DEADLOCK FALSE
INVARIANTS HandedOutOnce DoneIsSettled CompleteMeansWhole AllOrNothing
