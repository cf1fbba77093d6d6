SPECIFICATION FairSpec
CONSTANTS
  self = self
  lib = lib
  missing = missing
  half = half
  calm = calm
  thrower = thrower
  meddler = meddler
  panicker = panicker
  Absent = Absent
  NoOp = NoOp
  Emitters = {calm, thrower, meddler, panicker}
  Behaviour <- MCBehaviour
  Files <- MCFiles
  Preamble <- MCPreamble
  Sources <- MCSources
  MaxDepth = 4
  MaxCalls = 2
INVARIANTS TypeOK DepthBalanced ActiveBalanced CallbackInCall
PROPERTIES ContractSpec CallsReturn CallInProgressUndisturbed
CHECK_DEADLOCK FALSE
