SPECIFICATION Spec
CONSTANTS
  Slots = {s0, s1}
  Slot0 = s0
  Images = {x}
  NumChunks = 2
  Sources = {MagicIo, Stdio}
  MagicIo = MagicIo
  Uninitialized = Uninitialized
  Junk = Junk
  None = None
INVARIANT AcceptedBootStands
