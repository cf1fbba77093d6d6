SPECIFICATION Spec
CONSTANTS
  Programs <- Reentrant
  MaxDepth = 7
  Lists <- SampleLists
PROPERTY ForcedOnce
CHECK_DEADLOCK FALSE
