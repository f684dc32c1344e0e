SPECIFICATION NameSpec
CONSTANTS
  a = a
  b = b
  MaxNode = 4
  MaxPath = 2
  NodeIds <- MCNodeIds
  Names <- MCNames
  Manifests <- MCManifests
  Paths <- MCPaths
  VersionIds = {}
  Chunks = {}
  Times = {1}
  Procs = {p1}
SYMMETRY Symmetry
INVARIANTS
  NameTypeOK
  TreeIsRooted
PROPERTIES
  ImplementsNameTree
