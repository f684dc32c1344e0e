SPECIFICATION SearchSpec
CONSTANTS
  x = x
  a = a
  b = b
  c = c
  MaxNode = 3
  MaxVersion = 2
  NodeIds <- MCNodeIds
  VersionIds <- MCVersionIds
  Names <- MCNames
  Manifests <- MCManifests
  Chunks = {x}
  Times = {1}
  Indexable <- MCIndexable
  MAX_INDEX_SIZE = 0
  Faults = TRUE
  MaxSpoiled = 1
  Procs = {p1, p2}
SYMMETRY Symmetry
INVARIANTS
  SearchTypeOK
  SearchIsFresh
