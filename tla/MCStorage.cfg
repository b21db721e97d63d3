SPECIFICATION Spec
CONSTANTS
  e1 = e1
  e2 = e2
  Extents = {e1, e2}
  Credentials <- MCCredentials
  MaxMissing = 2
  CheckpointEvery = 2
  MaxBatch = 2
  MaxIds = 5
  MaxEffects = 2
  MaxFaults = 3
CHECK_DEADLOCK FALSE
INVARIANTS
  JournalReadable
  ReplayMatchesMemory
  FabricHistoryGated
  EffectsSurviveCrashes
PROPERTIES
  ImplementsDurableLog
