SPECIFICATION Spec
CONSTANTS
  FixMax = 7
  SizeMax = 3
  MaxPower = 4
  Mantissa = 4
  Spacings = {1, 2, 4}
  Bound = 16
  Literals <- MCLiterals
  Finite <- MCDoubles
INVARIANT AllCanonical
PROPERTY IdealSpec
