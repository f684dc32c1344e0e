SPECIFICATION StreamSpec
CONSTANTS
  x = x
  y = y
  a = a
  z = z
  MaxNode = 2
  MaxVersion = 2
  NodeIds <- MCNodeIds
  VersionIds <- MCVersionIds
  Names = {a}
  Manifests <- MCManifests
  Times = {1}
  Chunks = {x, y, z}
  Procs = {p1}
  Streams = {s1}
  VERSION_STREAM_CHUNKS = 1
INVARIANTS
  StreamTypeOK
  StreamsInOrder
  CompleteIsRight
PROPERTIES
  HangUpEndsTask
  ReadersGetAnEnd
