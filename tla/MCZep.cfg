CONSTANTS
  p1 = p1
  p2 = p2
  w1 = w1
  w2 = w2
  w3 = w3
  None = None
  Users = {u1}
  Episodes = {e1, e2}
  Processes = {p1, p2}
  Workers = {w1, w2, w3}
  ProcessOf <- Placed
  Verbs <- Roles
  MaxFacts = 2
SPECIFICATION FairSpec
INVARIANTS
  KnownUsersExist
  ProbeLeavesNothing
PROPERTIES
  WriteFailsForAReason
  EveryProbeEnds
