SPECIFICATION FairSpec
CONSTANTS
  Obj = {o1, o2, o3}
  Global = Global
  Atom = Atom
  MacroNames = {}
  Kinds = {"Vector"}
  MaxFrames = 3
  InitThreshold = 1
INVARIANTS NoDangling
PROPERTIES CollectionEnds IdealSpec HeapWithinThreshold
