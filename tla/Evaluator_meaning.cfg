SPECIFICATION Spec
CONSTANTS
  Programs <- AllPrograms
  MaxDepth = 9
  Lists <- SampleLists
INVARIANTS TypeOK DepthBounded ComputesMeaning LoopsInPlace LibraryIsRight
CHECK_DEADLOCK FALSE
