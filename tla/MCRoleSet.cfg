CONSTANTS
  MaxPods = 5
  Configs <- MCConfigs
SPECIFICATION FairSpec
INVARIANTS TypeOK SequentialOrder InterleaveLockstep
PROPERTIES FloorKept Converges ScaleInDrainEnds
CHECK_DEADLOCK FALSE
