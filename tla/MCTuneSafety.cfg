SPECIFICATION FairSpec
CONSTANTS
  Key <- MCKey
  Val <- MCVal
  None = None
  Rank <- MCRank
  Target <- MCTarget
  Generic <- MCGeneric
  BootStates <- MCBoot
  Proc = {p}
  SilentRecovery = FALSE
  MaxFault = 3
  MaxEnv = 2
INVARIANTS
  TypeOK
  ActiveHasBaseline
  BaselineCoversActive
PROPERTIES
  BaselineImmutable
  CommitVerified
  ReleasedExactly
  ExternalPreserved
  ImplementsLedger
  EventuallyReleased
CHECK_DEADLOCK FALSE
