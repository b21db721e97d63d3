SPECIFICATION Spec
CONSTANTS
  w1 = w1
  w2 = w2
  w3 = w3
  w4 = w4
  s1 = s1
  s2 = s2
  NoWitness = NoWitness
  Witnesses = {w1, w2, w3, w4}
  Subjects = {s1, s2}
  Profile <- MCProfile
  Subject <- MCSubject
  Offered <- MCOffered
  OfferedLeases <- MCLeases
  MaxBundle = 3
  MaxStep = 3
INVARIANTS
  CurrentMeansQuorum
PROPERTIES
  OldStatementsInert
  NoFreshnessByWaiting
