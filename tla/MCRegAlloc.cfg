CONSTANTS
  NumHW = 1
  NumVirtual = 4
  Color <- MCColor
  Avail <- MCAvail
  HWColor <- MCHWColor
  NoColor = NoColor
  NULL = NULL
  Graphs <- MCGraphs
  MovSeqs <- MCMovSeqs
SPECIFICATION LoopSpec
INVARIANTS
  TypeOK
  Bookkeeping
  SpillsWereCandidates
  ChecksHold
PROPERTIES
  NoComeback
  ImplementsColoringStack
  Termination
