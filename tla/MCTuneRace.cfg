SPECIFICATION Spec
CONSTANTS
  Key <- MCOneKey
  Val <- MCVal
  None = None
  Rank <- MCRank
  Target <- MCTarget
  Generic <- MCGeneric
  BootStates <- MCBoot
  Proc = {p, q}
  SilentRecovery = FALSE
  MaxFault = 0
  MaxEnv = 0
INVARIANTS
  ActiveHasBaseline
CHECK_DEADLOCK FALSE
