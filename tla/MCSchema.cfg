CONSTANTS
  t1 = t1
  t2 = t2
  a = a
  b = b
  c = c
  Tables = {t1, t2}
  Procs = {a, b, c}
  Command <- Deployment
  MaxFailures = 2
SPECIFICATION FairSpec
INVARIANTS
  ServesOnlyOverTheSchema
PROPERTIES
  EveryServerStarts
