CONSTANTS
  latest = latest
  v2 = v2
  imageA = imageA
  imageB = imageB
  imageX = imageX
  p1 = p1
  p2 = p2
  None = None
  Proc <- MCProc
  Image <- MCImage
  Good <- MCGood
  TagName <- MCTagName
  Default = latest
  Published <- MCPublished
  Republished <- MCRepublished
  MaxCommand = 1
  MaxFault = 1
  MaxEnv = 0
SPECIFICATION Spec
SYMMETRY Symmetry
PROPERTY
  RenewalTransactional
CHECK_DEADLOCK FALSE
