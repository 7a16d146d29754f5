CONSTANTS
  t1 = t1
  t2 = t2
  u1 = u1
  s1 = s1
  l1 = l1
  p1 = p1
  p2 = p2
  n1 = n1
  n2 = n2
  w1 = w1
  w2 = w2
  None = None
  Tenants = {t1}
  Subjects = {u1}
  Sessions = {s1}
  Labels = {l1}
  Providers = {p1}
  Natives = {n1, n2}
  Workers = {w1}
  Default <- SameDefault
  Caps <- AllCaps
  Reuses = {}
  Lags = {}
  JournalEnabled = TRUE
  Verbs = {"upsert", "delete_scope"}
  Filters <- ByLabel
  MaxFacts = 1
SPECIFICATION Spec
SYMMETRY NativeSymmetry
INVARIANTS
  TombstoneMeansGone
