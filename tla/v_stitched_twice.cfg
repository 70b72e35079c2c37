SPECIFICATION Spec
CONSTANTS
  a1 = a1
  a2 = a2
  a3 = a3
  c1 = c1
  c2 = c2
  reaper = reaper
  h1 = h1
  h2 = h2
  Reaper = reaper
  Hosts = {h1, h2}
  Place <- SecondApart
  Owned <- TwoSellers
  Parts = 2
  Stitches = 2
  Agents = {a1, a2, a3}
  Buyers = {c1}
  Kinds = {"fanout"}
  Backups = {1}
  Handlers = {}
  Instant = FALSE
  MaxRetries = 1
  MaxRefusals = 0
  MaxFailures = 0
  MaxRestores = 0
  MaxSilences = 0
  MaxCrashes = 0
CHECK_DEADLOCK FALSE
INVARIANT StitchedOnce
