SPECIFICATION FairSpec
CONSTANTS
  Programs <- MCPrograms
  Here <- MCHere
  IncludeDirs <- MCIncludeDirs
INVARIANTS TypeOK OutputAsStandard ConditionalsBalanced
PROPERTY Termination
CHECK_DEADLOCK FALSE
