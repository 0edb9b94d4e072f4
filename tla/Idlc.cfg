SPECIFICATION Spec
CONSTANTS
  Underscored = {"_hidden"}
  LowerCase <- MCLowerCase
  NameHash <- MCNameHash
  Stoull <- MCStoull
  Capital <- MCCapital
  MaxFaults = 1
  CommandLines <- MCCommandLines
  Identifiers <- MCIdentifiers
  TypeNames <- MCTypeNames
  Values <- MCValues
  Paths <- MCPaths
INVARIANTS
  AsWritten
  AllOrNothing
CHECK_DEADLOCK FALSE
