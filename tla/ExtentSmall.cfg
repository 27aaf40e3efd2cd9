SPECIFICATION Spec
CONSTANTS
  Shapes <- SmallShapes
  BufWords = 32
  StageBytes = 8388608
INVARIANTS
  PublishesTruth
  CoversFill
  FillFits
