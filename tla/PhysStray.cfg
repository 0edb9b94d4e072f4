CONSTANTS
  PageSize = 4
  BitsPerByte = 4
  BitsPerWord = 8
  MaxRegions = 2
  MemoryMap <- MapClose
  MaxRequest = 3
SPECIFICATION Spec
INVARIANT AllocatedIsCleared
CHECK_DEADLOCK FALSE
