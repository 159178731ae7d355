SPECIFICATION Spec
CONSTANTS
  byteA = byteA
  byteB = byteB
  Slots = {s0}
  Slot0 = s0
  Bytes = {byteA, byteB}
  Byte0 = byteA
  NumBlocks = 2
  NumCells = 2
  Capacity = 2
  LastVersion = 1
  Answers <- MCAnswers
  Generations = 2
  None = None
INVARIANTS
  TypeOK
  RecoveryNeverNeeded
  LinesAreWhole
  StaleIsNoticed
PROPERTIES
  ImplementsMailbox
