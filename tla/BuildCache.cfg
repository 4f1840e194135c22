\* Two sessions, two texts and two setups.
SPECIFICATION Spec
CONSTANTS
  Sessions = {s1, s2}
  Contents = {v1, v2}
  Setups = {plain, opencl}
  NoLibrary = NoLibrary
  MaxEdits = 2
  MaxRequests = 2
SYMMETRY MCSymmetry
CHECK_DEADLOCK FALSE
INVARIANT TypeOK
INVARIANT ServedCarriesTheHash
INVARIANT FaithfulUnlessRaced
