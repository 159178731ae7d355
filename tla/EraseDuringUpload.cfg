SPECIFICATION Spec
CONSTANTS
  s0 = s0
  s1 = s1
  Slots <- MCSlots
  Byte = {b0, b1}
  Networks = {net}
  NotConfigured = NotConfigured
  NumSuperblocks = 2
  NumPages = 2
  SlotPage <- MCSlotPage
  WirelessPage = 1
  SectorSize = 2
  MaxMemSize = 4
  WordWidth = 3
  LastGeneration = 1
  Erased = Erased
  Junk = Junk
  None = None
  CallerDisciplined = FALSE
INVARIANT RomIntact
SYMMETRY ByteSymmetry
