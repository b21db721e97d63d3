SPECIFICATION FairSpec
CONSTANTS
  e1 = e1
  e2 = e2
  d1 = d1
  d2 = d2
  NoDomain = NoDomain
  Domains = {d1}
  Extents = {e1, e2}
  Scopes <- ScopesNested
  Attempts = {1}
  MaxLineageEntries = 100
  MaxFenceRecords = 100
  MaxIndexedExtents = 3
  MaxSessions = 1
  CheckpointEvery = 3
  AppendMayFail = TRUE
  MaxIncarnations = 4
  MaxTokens = 3
  MaxEffects = 1
  MaxFaults = 2
PROPERTIES
  LockReleased
  ServesAgain
