SPECIFICATION Spec
CONSTANTS
  w1 = w1
  w2 = w2
  d1 = d1
  d2 = d2
  e1 = e1
  e2 = e2
  c1 = c1
  c2 = c2
  NoDomain = NoDomain
  NoWitness = NoWitness
  Domains = {d1, d2}
  Extents = {e1, e2}
  Witnesses = {w1, w2}
  Subjects = {d1, d2}
  Coordinators = {c1, c2}
  Profile <- MCProfile
  Policy <- MCPolicy
  Home <- MCHome
  WitnessOrder <- MCWitnessOrder
  Reachable = {{w1}, {w1, w2}}
  Count = 2
  Horizon = 2
  LeaseHorizon = 2
  MaxSubjects = 2
  MaxLineageEntries = 100
  MaxFenceRecords = 100
  MaxIndexedExtents = 100
  MaxIncarnations = 4
  MaxTokens = 3
  MaxEffects = 2
  MaxStep = 8
  MaxFailures = 1
SYMMETRY Symmetry
CHECK_DEADLOCK FALSE
INVARIANTS
  HolderNeverRefused
  RevocationComplete
PROPERTIES
  EffectsFollowDecisions
