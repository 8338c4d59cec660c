CONSTANTS
  latest = latest
  v2 = v2
  imageA = imageA
  imageB = imageB
  imageX = imageX
  p1 = p1
  p2 = p2
  None = None
  Proc <- MCProc
  Image <- MCImage
  Good <- MCGood
  TagName <- MCTagName
  Default = latest
  Published <- MCPublished
  Republished <- MCRepublished
  MaxCommand = 3
  MaxFault = 2
  MaxEnv = 2
SPECIFICATION Spec
SYMMETRY Symmetry
INVARIANTS
  TypeOK
  Exclusive
  Recoverable
  LockReleased
  WayBack
PROPERTY
  AllOrNothing
CHECK_DEADLOCK FALSE
