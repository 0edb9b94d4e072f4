CONSTANTS
  NumItems = 3
  MaxRegions = 3
SPECIFICATION FairSpec
INVARIANTS
  TypeOK
  SlotsAccounted
  RegionsAreListed
PROPERTIES
  GrowsOnlyWhenFull
  AllocEnds
  FirstRegionFreeEnds
\* A null region stops the kernel.
CHECK_DEADLOCK FALSE
