SPECIFICATION LiveSpec
CONSTANTS
  x = x
  y = y
  a = a
  b = b
  p1 = p1
  MaxNode = 3
  MaxVersion = 2
  NodeIds <- MCNodeIds
  VersionIds <- MCVersionIds
  Names <- MCNames
  Manifests <- MCShortManifests
  Times = {1}
  Chunks = {x}
  Procs = {p1, p2}
INVARIANTS
  ContentTypeOK
  NoDanglingReference
  GcIsComplete
  MetadataIntact
PROPERTY WatchedEnds
