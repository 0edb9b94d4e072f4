CONSTANTS
  c1 = c1
  c2 = c2
  Clients = {c1, c2}
  ClientIdl <- Hello
  ServerIdl <- Hello
  Calls <- MCCalls
  Results <- MCResults
  NoResult = NoResult
  TagModulus = 2
  MaxCalls = 2
  MaxFailures = 1
SPECIFICATION Spec
INVARIANTS
  TypeOK
  InStep
PROPERTIES
  KeepsPromise
  WaitEnds
\* The clients stop at MaxCalls; a server that stopped, or a lost reply, leaves
\* them waiting.
CHECK_DEADLOCK FALSE
