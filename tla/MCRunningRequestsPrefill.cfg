SPECIFICATION Spec
CONSTANTS
  g1 = g1
  g2 = g2
  r1 = r1
  r2 = r2
  r3 = r3
  p1 = p1
  p2 = p2
  NoPod = NoPod
  Pods = {p1}
  Gateways = {g1}
  Requests = {r1, r2}
  GatewayOf <- MCGatewayOf
  Capped = {r1, r2}
  Early = {r1}
  Queued = {}
  Limit = 1
  ConfirmPasses = 5
  MaxFaults = 0
  MaxCrashes = 0
INVARIANT HardCapAlways
