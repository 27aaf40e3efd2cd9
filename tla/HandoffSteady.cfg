SPECIFICATION Spec
CONSTANTS
  Kinds <- AllKinds
  Faults = {"TIMEOUT"}
  MaxCalls = 3
  MaxParts = 2
  NBufs = 2
  GiveupKicks = 2
  MaxAge = 2
  B126N = 2
INVARIANTS
  RunNotUndercounted
PROPERTIES
  Offloads
