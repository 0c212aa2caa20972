CONSTANTS
  Block <- MCBlock
  Value <- MCValue
  Data <- MCData
  Programs <- MCCompareOld
  InitRegs <- MCInitRegs
  Op <- MCOp
  Cmp <- MCCmp
  Holds <- MCHolds
  NoFlag <- MCNoFlag
SPECIFICATION Spec
INVARIANT SameBranch
CHECK_DEADLOCK FALSE
