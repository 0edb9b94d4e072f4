SPECIFICATION FairSpec
CONSTANTS
  Width = 3
  Height = 3
  GivenStride = 0
  ScrollAmount = 2
  AnsiBufSize = 8
  gPriority = "Notice"
  Off = "off"
  Pitch = 3
  Machines <- MCScrolling
  MinRegion = 3
  Bound = 8
  EarlyLimit = 70
  PagesPerBitmapPage = 8
  MaxRegions = 3
  AperturePages = 2
  PageBytes = 4
  Sections <- MCSections
  KernelPhys = 100
  FbPhys = 200
  FbPages = 2
  ZonePages = 2
  Messages <- MCMessages
PROPERTY
  PanicHalts
CHECK_DEADLOCK FALSE
