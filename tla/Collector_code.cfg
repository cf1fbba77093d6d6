SPECIFICATION Spec
CONSTANTS
  Obj = {o1, o2, o3}
  Global = Global
  Atom = Atom
  MacroNames = {m}
  Kinds = {"Expr", "Procedure", "Thunk", "Env"}
  MaxFrames = 2
  InitThreshold = 1
SYMMETRY Addresses
INVARIANTS TypeOK
PROPERTIES SweepFreesGarbageOnly
