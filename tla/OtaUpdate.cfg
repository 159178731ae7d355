SPECIFICATION Spec
CONSTANTS
  factory = factory
  revised = revised
  Images = {factory, revised}
  Size <- MCSize
  Factory = factory
  NumPieces = 6
  SectorSize = 2
  usb = usb
  tcp = tcp
  Sources = {usb, tcp}
  OncePerSession = TRUE
  Erased = Erased
  Zeroed = Zeroed
  None = None
INVARIANTS
  TypeOK
  AlwaysBootable
  OtaFollowsToken
SYMMETRY SourceSymmetry
PROPERTY UpdateTakesEffect
CHECK_DEADLOCK FALSE
