SPECIFICATION Spec
CONSTANTS
  n1 = n1
  n2 = n2
  n3 = n3
  v1 = v1
  v2 = v2
  main = main
  standalone = standalone
  r1 = r1
  r2 = r2
  none = none
  NoHost = none
  Hosts = {n1, n2}
  VMs = {v1, v2}
  Price <- PriceOrder
  Units = 2
  Reapers = {main}
  Main = {main}
  Requests = {r1, r2}
  Handlers = {"stop", "result"}
  MaxSilences = 1
  MaxRegisters = 0
  MaxCrashes = 0
SYMMETRY VMSymmetry
INVARIANT NeverOversold
