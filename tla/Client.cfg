CONSTANTS
  None = None
  Calls = {c1, c2, c3}
  Closers = {k1, k2}
SPECIFICATION FairSpec
INVARIANTS
  OneCoreBetweenCloses
  
PROPERTY
  EveryVerbGoesOn
