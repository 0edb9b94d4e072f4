SPECIFICATION Spec
CONSTANTS
  Underscored = {"_hidden"}
  LowerCase <- MCLowerCase
  NameHash <- MCNameHash
  Stoull <- MCStoull
  Capital <- MCCapital
  MaxFaults = 1
  CommandLines <- SameIdLines
  Identifiers <- MCIdentifiers
  TypeNames <- MCTypeNames
  Values <- MCValues
  Paths <- MCPaths
INVARIANT IdentifiersUnique
CHECK_DEADLOCK FALSE
