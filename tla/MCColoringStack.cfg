CONSTANTS
  Node <- MCNode
  HWNode <- MCHWNode
  Color <- MCColor
  Avail <- MCAvail
  HWColor <- MCHWColor
  NoColor = NoColor
SPECIFICATION MCSpec
INVARIANTS
  IInv
  ValidColoring
  MergedAgree
CHECK_DEADLOCK FALSE
