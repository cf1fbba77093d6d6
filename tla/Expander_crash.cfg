SPECIFICATION Spec
CONSTANTS
  m = m
  n = n
  a = a
  b = b
  Names = {m, n}
  Programs <- Spiral
  MaxDepth = 6
  MaxExpansions = 3
  StackSize = 40
INVARIANTS NeverCrashes
