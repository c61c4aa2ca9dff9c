\* Two pod keys, one request: every count is eventually given back.
CONSTANTS
  k1 = k1  k2 = k2  ip0 = ip0  ip1 = ip1  a1 = a1  a2 = a2  r1 = r1
  Keys = {k1, k2}
  IPs = {ip0, ip1}
  NoIP = ip0
  Attempts = {a1}
  Requests = {r1}
  Cancelled = {r1}
  RequestOf <- MCSoleRequest
  LoadOf <- MCSoleLoad
  NoAttempt = NoAttempt
  MaxObjs = 2
  MaxBurnt = 2
SPECIFICATION FairSpec
CHECK_DEADLOCK FALSE
PROPERTY
  EveryCountReleased
