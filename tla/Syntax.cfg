SPECIFICATION Spec
CONSTANTS
  Data <- MCData
  Bindings <- MCBindings
INVARIANTS
  TypeOK
  DerivedForms
  LexicalScope
  QuasiquoteMeaning
CHECK_DEADLOCK FALSE
