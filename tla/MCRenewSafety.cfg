SPECIFICATION Spec
CONSTANTS
  Renewal <- MCRenewal
  Rank <- MCRank
  Required <- MCRequired
  Kept <- MCKept
  None = None
  RecoveryFails = FALSE
  MaxFault = 3
INVARIANTS
  TypeOK
  Recoverable
  RenewedOrRestored
  ServesWhatIsInstalled
PROPERTIES
  SwitchedWhileStopped
  ImplementsReplacement
CHECK_DEADLOCK FALSE
