SPECIFICATION FairSpec
CONSTANTS
  TilesA = 2
  TilesW = 2
  Modes <- AllModes
  Early = TRUE
  BlockCells = 3
  Slice = 2
  FifoCells = 3
  Depth = 2
  MaxRuns = 2
  Patient = TRUE
  BusErrs = {"fill", "put", "hang"}
INVARIANTS
  PlacedRight
PROPERTIES
  RunOffloads
  EveryRunReturns
