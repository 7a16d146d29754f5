CONSTANTS
  RandSize = 9
  Seeds <- MCSeeds
  MaxClock = 4
  MaxMints = 5
SPECIFICATION Spec
INVARIANTS
  Chronological
