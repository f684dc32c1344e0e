SPECIFICATION HttpSpec
CONSTANTS
  a = a
  b = b
  readme = readme
  hidden = hidden
  image = image
  missing = missing
  half = half
  MaxNode = 3
  NodeIds <- MCNodeIds
  VersionIds <- MCVersionIds
  Names <- MCNames
  Manifests <- MCManifests
  Chunks = {}
  Times = {1}
  Scopes <- MCScopes
  LIMIT = 1
  MAX_SEARCH_FETCH = 2
  MAX_WALK = 3
  Tables <- MCTables
  NewNames <- MCNewNames
  MaxHits = 2
  MaxStirs = 2
  Spelling <- MCSpelling
  Written <- MCWritten
  Queries <- MCQueries
  Actions <- MCActions
  Bodies <- MCBodies
  PageTables <- MCPageTables
  ShownTimes <- MCTimes
CHECK_DEADLOCK FALSE
INVARIANTS
  HttpTypeOK
  EveryLinkLeads
  RequestsMeanWhatTheySay
  
  OnlyLateScopesAreLost
  IndexedIsListed
  DatesAreRight
  PathOfIsRight
  QuietSearchIsExact
PROPERTY SearchEnds
