SPECIFICATION Spec
CONSTANTS
  Layers = {"w1", "w2"}
  Shapes = {"odd", "lin", "conv"}
  BytesOf <- PlannedBytes
  ArenaEnd = 4
  MaxLayers = 3
  Heads = {"h1", "h2"}
  Lens = {"self", "cross", "other"}
  ShortLens = {"self"}
  ResidentN = 2
  HashN = 4
  MaxRewrites = 1
CONSTRAINT
  OneTable
INVARIANTS
  ImagesIntact
  TableSound
  ServesWhatWasAsked
