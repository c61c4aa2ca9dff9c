SPECIFICATION Spec
CONSTANTS
  c1 = c1
  c2 = c2
  i1 = i1
  i2 = i2
  NoCharge = NoCharge
  NoPod = NoPod
  Pods = {p1, p2}
  Charges = {c1, c2}
  IDs = {i1, i2}
  IdOf <- SharedIDs
  Costs = {1}
  MaxFaults = 1
INVARIANTS TypeOK NoLostUpdate
