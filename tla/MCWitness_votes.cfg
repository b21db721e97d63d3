SPECIFICATION Spec
CONSTANTS
  w1 = w1
  w2 = w2
  w3 = w3
  s1 = s1
  NoWitness = NoWitness
  Witnesses = {w1, w2, w3}
  Subjects = {s1}
  Profile <- MCProfile
  Claims <- RivalClaims
  Horizon = 1
  MaxSubjects = 1
  MaxSessions = 1
  MaxStep = 2
  MaxStatements = 2
  MaxRestarts = 1
SYMMETRY Symmetry
INVARIANTS
  VotesExclusive
  VerdictIndependentOfOrder
