SPECIFICATION FairSpec
CONSTANTS
  Threads = {"t", "u"}
  Buffers = {"b", "c"}
  N = 2
  Caps = {2, 3}
  Depth = 1
  MaxPolls = 2
  Attempts = 2
  MaxCalls = 2
  MaxDrops = 1
INVARIANTS
  WholeFrame
  NoLateWrite
PROPERTIES
  EveryCallReturns
