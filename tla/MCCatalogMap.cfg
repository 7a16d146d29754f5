CONSTANTS
  n1 = n1
  n2 = n2
  c1 = c1
  c2 = c2
  c3 = c3
  NoGid = NoGid
  Keys = {n1, n2}
  Gids <- MCGids
  Calls = {c1, c2, c3}
  Workloads <- MCWorkloads
SPECIFICATION FairSpec
INVARIANTS
  TypeOK
  AnswersAreTheStoredIds
  SomebodyGoesOn
  LostOnlyToCommittedRows
  GateLosesNoRace
PROPERTIES
  RaceStaysInside
  RefinesIdMap
  OnlyWritesRevive
  EveryCallEnds
