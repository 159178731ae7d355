SPECIFICATION FairSpec
CONSTANTS
  byteA = byteA
  byteB = byteB
  Slots = {s0}
  Slot0 = s0
  Bytes = {byteA}
  Byte0 = byteA
  NumBlocks = 2
  NumCells = 1
  Capacity = 1
  LastVersion = 1
  Answers <- MCShortAnswers
  Generations = 2
  None = None
PROPERTIES
  CallsEnd
  ScreenCatchesUp
