SPECIFICATION Spec
CONSTANTS
  w1 = w1
  d1 = d1
  d2 = d2
  d3 = d3
  e1 = e1
  e2 = e2
  NoDomain = NoDomain
  NoWitness = NoWitness
  Domains = {d1, d2, d3}
  Extents = {e1, e2}
  Witnesses = {w1}
  Subjects = {d1, d2, d3}
  Profile <- MCProfile
  Policy <- MCPolicy
  MaxLineageEntries = 100
  MaxFenceRecords = 100
  MaxIndexedExtents = 100
  Offers <- MCOffers
  MaxFences = 2
  DomainRank <- MCDomainRank
  MaxSearchNodes = 100
  Budgets = {3, 8}
INVARIANTS
  NeverBoth
  HighestProvenWins
  SupersededAreNamed
  PlanIsOptimal
  PlanNeverOverclaims
