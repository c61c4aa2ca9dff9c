SPECIFICATION FairSpec
CONSTANTS
  Requests = {r1, r2, r3}
  SubKeys = {k1, k2}
  r1 = r1
  r2 = r2
  r3 = r3
  k1 = k1
  k2 = k2
  KeyOf <- MCKeyOf
  Rankable <- MCRankable
  Costed <- MCCosted
  ProfileSets <- MCProfileSets
  p1 = p1
  p2 = p2
  d1 = d1
  d2 = d2
  Pods = {p1, p2}
  Deployments = {d1, d2}
  DeploymentOf <- MCDeploymentOf
  PodLists <- MCAllPods
  Cap = 1
  MaxPanics = 1
INVARIANTS
  TypeOK
  PeekedStaysHead
  LoadIsTheRunning
  NoLostWakeup
  GaugeSettles
PROPERTIES
  WaiterAnswered
  DispatchSpec
CHECK_DEADLOCK FALSE
