SPECIFICATION Spec
CONSTANTS
  PageSize = 16
  Chunk = 8
  BufferAddress = 4096
  ExternalAddress <- MCExternalAddress
  Programs <- UnsignedDivision
INVARIANT ListingDecodes
CHECK_DEADLOCK FALSE
