SPECIFICATION Spec
CONSTANTS
  Kinds = {"CONV"}
  Faults = {}
  MaxCalls = 1
  MaxParts = 1
  NBufs = 1
  GiveupKicks = 0
  MaxAge = 1
  B126N = 2
PROPERTY
  NoPostAfterGiveup
