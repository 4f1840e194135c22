\* Two fits of one model that is compiled, saved and restored.
SPECIFICATION Spec
CONSTANTS
  Fits = {f1, f2}
  MaxGeneration = 4
  MaxRestores = 2
SYMMETRY MCSymmetry
CHECK_DEADLOCK FALSE
INVARIANT TypeOK
INVARIANT FastPathSafe
INVARIANT UsedFitsRecover
PROPERTY NewGenerationNewPointer
PROPERTY LiveModelAnswers
