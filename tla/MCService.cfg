SPECIFICATION FairSpec
CONSTANTS
  c1 = c1
  c2 = c2
  Conns = {c1, c2}
  Scripts <- MCScripts
  MaxSessions = 1
CHECK_DEADLOCK FALSE
INVARIANTS
  NothingOutlivesJoin
  SessionsMatchWorkers
  DecodedAsSent
  ViolationsEndConnections
PROPERTIES
  StopEnds
  HangupsFreeSessions
