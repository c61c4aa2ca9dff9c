\* One pod key that flaps and is recreated, two attempts sharing one request ID, completions that race.
CONSTANTS
  k1 = k1  k2 = k2  ip0 = ip0  ip1 = ip1  a1 = a1  a2 = a2  r1 = r1
  Keys = {k1}
  IPs = {ip0, ip1}
  NoIP = ip0
  Attempts = {a1, a2}
  Requests = {r1}
  Cancelled = {r1}
  RequestOf <- MCOneRequest
  LoadOf <- MCLoads
  NoAttempt = NoAttempt
  MaxObjs = 3
  MaxBurnt = 0
SPECIFICATION Spec
CHECK_DEADLOCK FALSE
INVARIANTS
  TypeOK
  RunningMatchesInFlight
  PendingMatchesInFlight
  CompletedMatchesSettled
  OneBackendPerGeneration
  CompletionReleases
