SPECIFICATION FairSpec
CONSTANTS
  m = m
  n = n
  a = a
  b = b
  Names = {m, n}
  Programs <- MCPrograms
  MaxDepth = 6
  MaxExpansions = 3
  StackSize = 40
INVARIANTS TypeOK DepthBalanced ComputesMeaning
PROPERTIES EveryFormEnds
