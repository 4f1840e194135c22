\* Two sessions and three fingerprints, one more than are kept.
SPECIFICATION Spec
CONSTANTS
  Sessions = {s1, s2}
  Fingerprints = {f1, f2, f3}
  MaxRequests = 2
  MaxCrashes = 1
  MaxOutdated = 1
SYMMETRY MCSymmetry
CHECK_DEADLOCK FALSE
INVARIANT TypeOK
INVARIANT GoodModelsCompile
INVARIANT CacheBounded
