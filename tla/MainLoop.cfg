SPECIFICATION FairSpec
CONSTANTS
  Slots = {s0, s1}
  Slot0 = s0
  Images = {x}
  NumChunks = 2
  Sources = {MagicIo, Stdio}
  MagicIo = MagicIo
  Uninitialized = Uninitialized
  None = None
  Junk = Junk
INVARIANTS
  TypeOK
  WholeRoms
  UploadFollowsToken
  LeavesMenuOnce
  DeadKeysHarmless
PROPERTIES
  StoredWhenAcked
  BootHappens
