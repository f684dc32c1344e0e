SPECIFICATION NameSpec
CONSTANTS
  a = a
  b = b
  MaxNode = 3
  MaxPath = 1
  NodeIds <- MCNodeIds
  Names <- MCNames
  Manifests <- MCManifests
  Paths <- MCPaths
  VersionIds = {}
  Chunks = {}
  Times = {1}
  Procs = {p1, p2}
SYMMETRY Symmetry
INVARIANTS
  MovesSpareTheirSource
