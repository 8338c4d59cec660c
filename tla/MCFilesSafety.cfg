SPECIFICATION Spec
CONSTANTS
  File <- MCFile
  Rank <- MCRank
  Proc = {p, q, r}
  Forced = {p, q}
  None = None
  Overlap = FALSE
  MaxFault = 2
INVARIANTS
  TypeOK
PROPERTIES
  NothingLost
  AllOrNothing
CHECK_DEADLOCK FALSE
