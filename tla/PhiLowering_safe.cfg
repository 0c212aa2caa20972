CONSTANTS
  Block <- MCBlock
  Value <- MCValue
  Data <- MCData
  Programs <- MCPrograms
  InitRegs <- MCInitRegs
  Op <- MCOp
  Cmp <- MCCmp
  Holds <- MCHolds
  NoFlag <- MCNoFlag
SPECIFICATION SafeSpec
INVARIANTS TypeOK SameBranch SameResult SameOnEntry
CHECK_DEADLOCK FALSE
