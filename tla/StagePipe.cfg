SPECIFICATION HSpec
CONSTANTS
  TilesA = 3
  TilesW = 2
  Modes <- AllModes
  Early = FALSE
  BlockCells = 2
  Slice = 1
  FifoCells = 2
  Depth = 2
  MaxRuns = 4
  Patient = TRUE
  SpinPatient = FALSE
  BusErrs = {"fill", "put", "hang"}
INVARIANTS
  PipeTypeOK
  FillReadsStaged
  TransposedDrained
  NoStallUntilFault
  CleanUntilFault
PROPERTIES
  ConvOffloads
  EveryConvReturns
