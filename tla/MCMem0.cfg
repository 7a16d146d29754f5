CONSTANTS
  t1 = t1
  u1 = u1
  s1 = s1
  n1 = n1
  n2 = n2
  n3 = n3
  n4 = n4
  w1 = w1
  w2 = w2
  None = None
  Tenants = {t1}
  Subjects = {u1}
  Sessions = {s1}
  Labels = {}
  Natives = {n1, n2, n3, n4}
  Stored <- FullPageStored
  Workers = {w1, w2}
  Verbs <- Roles
  Filters <- BySession
  Erasures <- BySubject
  PAGE = 2
  MaxFacts = 2
  CountCap = 4
SPECIFICATION FairSpec
INVARIANTS
  ErasureDrains
  CountsOnlyWhatWent
  AnsweredUpdateWasApplied
PROPERTY
  EveryErasureEnds
