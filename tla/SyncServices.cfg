\* Every service with rejected initial values, errors and Ctrl-C.
SPECIFICATION Spec
CONSTANTS
  Junk = Junk
  Thread = Thread
  Writers = {Thread}
  ShowMessages = FALSE
  ShowExceptions = FALSE
  Iterations = 3
  ElboDraws = 2
  MaxRejects = 2
  Fits <- MCFits
INVARIANT TypeOK
INVARIANT FailureIsExplained
INVARIANT CtrlCIsNoticed
INVARIANT OkMeansComplete
INVARIANT NoDrawLost
