SPECIFICATION FileSpec
CONSTANTS
  Handles = {h1}
  Bytes <- MCBytes
  ZERO = 0
  Contents <- MCContents
  MaxPos = 3
  Counts = {0, 2}
  Bufs <- MCBufs
  Offsets <- MCOffsets
INVARIANTS
  FileTypeOK
PROPERTIES
  ImplementsByteFile
  ReadsEnd
