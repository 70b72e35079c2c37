SPECIFICATION FairSpec
CONSTANTS
  n1 = n1
  n2 = n2
  n3 = n3
  v1 = v1
  v2 = v2
  main = main
  standalone = standalone
  r1 = r1
  r2 = r2
  none = none
  NoHost = none
  Hosts = {n1, n2}
  VMs = {v1}
  Price <- PriceOrder
  Units = 1
  Reapers = {main}
  Main = {main}
  Requests = {r1}
  Handlers = {"stop", "result", "accept", "register"}
  MaxSilences = 2
  MaxRegisters = 1
  MaxCrashes = 1
PROPERTIES DeadHostsAreSettled SettledVMsStop
