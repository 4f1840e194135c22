\* What the tests say of restored fits.
SPECIFICATION Spec
CONSTANTS
  Fits = {f1, f2}
  MaxGeneration = 4
  MaxRestores = 2
SYMMETRY MCSymmetry
CHECK_DEADLOCK FALSE
INVARIANT RestoredFitsAnswer
