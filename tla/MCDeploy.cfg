CONSTANTS
  ctl = ctl
  containerctl = containerctl
  Tool <- MCTool
  Keep = 1
  MaxTime = 2
  MaxRun = 2
  MaxFault = 3
SPECIFICATION Spec
SYMMETRY Symmetry
INVARIANTS
  TypeOK
  NothingLost
  TunedHasTool
PROPERTY
  DeployedOrRestored
CHECK_DEADLOCK FALSE
