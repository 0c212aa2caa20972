SPECIFICATION Spec
CONSTANTS
  PageSize = 16
  Chunk = 8
  BufferAddress = 4096
  ExternalAddress <- MCExternalAddress
  Programs <- MCPrograms
INVARIANTS TypeOK BranchesLand ListingDecodes ReferencesResolve LayoutSound
CHECK_DEADLOCK FALSE
