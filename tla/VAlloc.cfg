CONSTANTS
  PageSize = 2
  BitsPerByte = 2
  BitsPerWord = 4
  MaxRegions = 2
  MemoryMap <- MapOne
  GuardPages = 2
  AreaPages = 20
  TableEntries = 2
  Lengths = {1, 3, 8}
SPECIFICATION Spec
INVARIANTS
  GuardsUnmapped
  BackedOnce
  BackingIsTaken
  MappedIsCounted
PROPERTY FreeStaysInside
\* A panic stops the machine.
CHECK_DEADLOCK FALSE
