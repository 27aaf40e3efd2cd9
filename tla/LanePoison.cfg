SPECIFICATION HSpec
CONSTANTS
  Kinds = {"ATTN"}
  MaxN = 2
  Blocks = 2
  FifoBlocks = 1
  Depth = 2
  Patient = TRUE
  Refusable = {"ATTN"}
  Optional = {}
  LaneErrs = {}
  BusErrs = {}
PROPERTIES
  RefusalUnarmed
