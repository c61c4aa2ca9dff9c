CONSTANTS
  MaxPods = 4
  Configs <- SteppedConfigs
SPECIFICATION FairSpec
PROPERTIES UpdateCompletes
CHECK_DEADLOCK FALSE
