SPECIFICATION BlobSpec
CONSTANTS
  Chunks = {x, y}
  Writers = {w1, w2, w3}
SYMMETRY Symmetry
INVARIANTS
  BlobTypeOK
  BlobsAreWhole
  NeededIsThere
