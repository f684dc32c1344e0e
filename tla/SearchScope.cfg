SPECIFICATION SearchSpec
CONSTANTS
  a = a
  b = b
  MaxNode = 4
  NodeIds <- MCNodeIds
  VersionIds = {1}
  Names <- MCNames
  Manifests <- MCManifests
  Chunks = {}
  Times = {1}
  Scopes <- MCScopes
  LIMIT = 1
  MAX_SEARCH_FETCH = 2
  MAX_WALK = 4
  Tables <- MCTables
  NewNames <- MCNames
  MaxHits = 2
  MaxStirs = 1
CHECK_DEADLOCK FALSE
INVARIANT ResultsInScope
