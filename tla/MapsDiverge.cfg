CONSTANTS
  TableEntries = 6
  ApertureTables = 1
  Frames <- MCFrames
  Recognised <- MCRecognised
  MaxMaps = 3
  Regions <- MCRegions
  MaxEntryRefs = 3
  Bases <- MCBases
  VAreas <- MCVAreas
  ZoneArea <- Zone
  VPages = 1
  Watched <- MCWatched
  Accessed <- MCAccessed
  MaxCached = 1
SPECIFICATION Spec
INVARIANT KernelAlwaysMapped
\* A panic stops the machine.
CHECK_DEADLOCK FALSE
