\* Two chains; iteration counts that thinning divides and does not divide.
SPECIFICATION Spec
CONSTANTS
  Junk = Junk
  NumChains = 2
  WarmupSizes <- MCWarmupSizes
  SampleSizes <- MCSampleSizes
  Thins <- MCThins
  ColNames <- MCColNames
  DiagnosticNames <- MCDiagnosticNames
INVARIANT TypeOK
INVARIANT PreallocationExact
INVARIANT ArraysHoldTheDraws
INVARIANT LostChainIsAnError
