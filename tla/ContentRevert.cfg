SPECIFICATION ContentSpec
CONSTANTS
  x = x
  y = y
  a = a
  b = b
  p1 = p1
  MaxNode = 3
  MaxVersion = 3
  NodeIds <- MCNodeIds
  VersionIds <- MCVersionIds
  Names <- MCNames
  Manifests <- MCManifests
  Times = {1}
  Chunks = {x, y}
  Procs = {p1, p2}
SYMMETRY Symmetry
INVARIANTS
  RevertRestoresContent
