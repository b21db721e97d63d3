SPECIFICATION Spec
CONSTANTS
  e1 = e1
  e2 = e2
  d1 = d1
  d2 = d2
  NoDomain = NoDomain
  Domains = {d1, d2}
  Extents = {e1, e2}
  Scopes <- ScopesAll
  Attempts = {1, 2}
  MaxLineageEntries = 100
  MaxFenceRecords = 100
  MaxIndexedExtents = 100
  MaxSessions = 2
  CheckpointEvery = 100
  AppendMayFail = FALSE
  MaxIncarnations = 4
  MaxTokens = 3
  MaxEffects = 2
  MaxFaults = 1
SYMMETRY Symmetry
INVARIANTS
  TypeOK
  OpenGrantsDisjoint
  EpochsMonotone
  DecisionHonoured
  AuditFindings
  LineagesReconcile
PROPERTIES
  NoStaleEffect
