SPECIFICATION FairSpec
CONSTANTS
  a1 = a1
  a2 = a2
  a3 = a3
  c1 = c1
  c2 = c2
  reaper = reaper
  h1 = h1
  h2 = h2
  Reaper = reaper
  Hosts = {h1, h2}
  Place <- SecondApart
  Owned <- TwoSellers
  Parts = 2
  Stitches = 2
  Agents = {a1, a3}
  Buyers = {c1}
  Kinds = {"fanout"}
  Backups = {1}
  Handlers = {"retry", "restore", "accept"}
  Instant = FALSE
  MaxRetries = 1
  MaxRefusals = 1
  MaxFailures = 1
  MaxRestores = 1
  MaxSilences = 0
  MaxCrashes = 1
CHECK_DEADLOCK FALSE
INVARIANTS CompleteMeansWhole
PROPERTY JobCompletes
