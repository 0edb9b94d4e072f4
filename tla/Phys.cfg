CONSTANTS
  PageSize = 4
  BitsPerByte = 2
  BitsPerWord = 4
  MaxRegions = 2
  MemoryMap <- MapTwo
  MaxRequest = 3
SPECIFICATION Spec
INVARIANTS
  TypeOK
  CountMatchesBitmap
  HeldPagesAreTaken
  ShortOnlyWhenEmpty
PROPERTY KeepsPageOwners
\* A panic stops the machine.
CHECK_DEADLOCK FALSE
