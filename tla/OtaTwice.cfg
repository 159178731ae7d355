SPECIFICATION Spec
CONSTANTS
  factory = factory
  revised = revised
  Images = {factory, revised}
  Size <- MCSize
  Factory = factory
  NumPieces = 6
  SectorSize = 2
  usb = usb
  tcp = tcp
  Sources = {usb, tcp}
  OncePerSession = FALSE
  Erased = Erased
  Zeroed = Zeroed
  None = None
SYMMETRY SourceSymmetry
INVARIANT MagicValueExpected
CHECK_DEADLOCK FALSE
