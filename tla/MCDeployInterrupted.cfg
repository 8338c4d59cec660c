CONSTANTS
  ctl = ctl
  containerctl = containerctl
  Tool <- MCTool
  Keep = 1
  MaxTime = 1
  MaxRun = 1
  MaxFault = 1
SPECIFICATION Spec
INVARIANT BinaryKept
CHECK_DEADLOCK FALSE
