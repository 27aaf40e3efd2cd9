SPECIFICATION FairSpec
CONSTANTS
  Kinds <- LateKinds
  Faults = {"TIMEOUT", "ERR"}
  MaxCalls = 3
  MaxParts = 2
  NBufs = 3
  GiveupKicks = 0
  MaxAge = 1
  B126N = 9
INVARIANTS
  TypeOK
  DoneIsMine
  FillReadsOwnImage
  LateJobHarmless
PROPERTIES
  OneInFlight
  EachJobStartsOnce
  NoPostAfterGiveup
  Offloads
  EveryCallReturns
