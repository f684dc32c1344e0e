SPECIFICATION MetaSpec
CONSTANTS
  x = x
  a = a
  b = b
  MaxNode = 3
  MaxVersion = 3
  NodeIds <- MCNodeIds
  VersionIds <- MCVersionIds
  Names <- MCNames
  Manifests <- MCManifests
  Chunks = {x}
  Times = {1, 2}
SYMMETRY Symmetry
INVARIANTS
  MetaTypeOK
  ReferentialIntegrity
  CurrentIsHighest
  SizeCache
PROPERTIES
  ModifiedIsEarned
  NumbersAreStable
  MovesAloneUproot
  ImplementsVersionHistory
