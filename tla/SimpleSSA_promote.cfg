CONSTANTS
  Shapes <- MCShapes
  MaxIds = 27
  MaxIterations = 50
SPECIFICATION Spec
CHECK_DEADLOCK FALSE
INVARIANTS
  TypeOK
  SameValues
  PhisSound
PROPERTIES
  EveryRoundRemovesAllocas
