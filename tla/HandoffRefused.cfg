SPECIFICATION Spec
CONSTANTS
  Kinds = {"ENGINE", "ATTN"}
  Faults = {"ERR"}
  MaxCalls = 4
  MaxParts = 1
  NBufs = 4
  GiveupKicks = 1
  MaxAge = 1
  B126N = 2
INVARIANT
  NoWrongAnswer
