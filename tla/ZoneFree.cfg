CONSTANTS
  NumItems = 3
  MaxRegions = 3
SPECIFICATION FairSpec
PROPERTY FreeEnds
\* A null region stops the kernel.
CHECK_DEADLOCK FALSE
