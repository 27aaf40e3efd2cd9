SPECIFICATION HSpec
CONSTANTS
  Kinds <- EveryLane
  MaxN = 4
  Blocks = 3
  FifoBlocks = 1
  Depth = 2
  Patient = TRUE
  Refusable = {"ATTN", "LUT"}
  Optional = {"LUT"}
  LaneErrs = {"ATTN"}
  BusErrs = {"engine", "LN", "ATTN"}
INVARIANTS
  TypeOK
  OKUntilFault
  NoOrphanUntilFault
PROPERTIES
  LutRefusalUnarmed
  DispatchOffloads
  EveryDispatchReturns
