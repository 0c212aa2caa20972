CONSTANTS
  Programs <- MCPrograms
  Samples <- MCSamples
  Narrow = 3
  Half = 4
  Wide = 8
  MaxIterations = 10
SPECIFICATION FairSpec
INVARIANTS TypeOK ValuePreserved NormalForm
PROPERTIES Settles
CHECK_DEADLOCK FALSE
