SPECIFICATION Spec
CONSTANTS
  Renewal <- MCRenewal
  Rank <- MCRank
  Required <- MCRequired
  Kept <- MCKept
  None = None
  RecoveryFails = TRUE
  MaxFault = 2
INVARIANTS
  NamedBackupExists
CHECK_DEADLOCK FALSE
