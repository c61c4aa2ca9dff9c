SPECIFICATION Spec
CONSTANTS
  g1 = g1
  g2 = g2
  r1 = r1
  r2 = r2
  r3 = r3
  p1 = p1
  p2 = p2
  NoPod = NoPod
  Pods = {p1}
  Gateways = {g1, g2}
  Requests = {r1, r2, r3}
  GatewayOf <- MCGatewayOf
  Capped = {r1, r2, r3}
  Early = {r1}
  Queued = {r3}
  Limit = 2
  ConfirmPasses = 2
  MaxFaults = 0
  MaxCrashes = 1
INVARIANTS TypeOK Pairing HardCap
