SPECIFICATION Spec
CONSTANTS
  e1 = e1
  e2 = e2
  d1 = d1
  d2 = d2
  NoDomain = NoDomain
  Domains = {d1}
  Extents = {e1}
  Scopes <- ScopesOne
  Attempts = {1}
  MaxLineageEntries = 100
  MaxFenceRecords = 100
  MaxIndexedExtents = 100
  MaxSessions = 1
  CheckpointEvery = 100
  AppendMayFail = TRUE
  MaxIncarnations = 4
  MaxTokens = 3
  MaxEffects = 2
  MaxFaults = 2
INVARIANTS
  EpochsMonotone
