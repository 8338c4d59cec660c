SPECIFICATION Spec
CONSTANTS
  Key <- MCKey
  Val <- MCVal
  None = None
  Rank <- MCRank
  Target <- MCTarget
  Generic <- MCGeneric
  BootStates <- MCBootNewKey
  Proc = {p}
  SilentRecovery = FALSE
  MaxFault = 3
  MaxEnv = 0
INVARIANTS
  BaselineCoversActive
CHECK_DEADLOCK FALSE
