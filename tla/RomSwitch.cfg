SPECIFICATION FairSpec
CONSTANTS
  TRAMPOLINE_ADDRESS = 5
  Sizes <- MCSizes
  Samples = 7
  Sleep = 1
  MaxRestarts = 2
  None = None
INVARIANTS
  TypeOK
  BusIsDriven
  RomStaysWhole
PROPERTIES
  NoStrayExecution
  EntersAtZero
  BootCompletes
