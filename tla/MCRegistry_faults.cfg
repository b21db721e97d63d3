SPECIFICATION Spec
CONSTANTS
  e1 = e1
  e2 = e2
  d1 = d1
  d2 = d2
  NoDomain = NoDomain
  Domains = {d1, d2}
  Extents = {e1, e2}
  Scopes <- ScopesAll
  Attempts = {1}
  MaxLineageEntries = 2
  MaxFenceRecords = 100
  MaxIndexedExtents = 3
  MaxSessions = 1
  CheckpointEvery = 3
  AppendMayFail = TRUE
  MaxIncarnations = 4
  MaxTokens = 3
  MaxEffects = 2
  MaxFaults = 2
SYMMETRY Symmetry
INVARIANTS
  EffectTokensIdentifyGrants
  IncarnationsDurable
  NoEffectAcrossRestart
  RecoveryComplete
  SnapshotLoadable
PROPERTIES
  NoResurrection
  ImplementsAuthority
