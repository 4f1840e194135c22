\* The array against the comment that says what it is.
SPECIFICATION Spec
CONSTANTS
  Junk = Junk
  Thread = Thread
  Writers = {Thread}
  ShowMessages = FALSE
  ShowExceptions = FALSE
  Iterations = 3
  ElboDraws = 2
  MaxRejects = 2
  Fits <- MCFits
INVARIANT DrawsKeepTheirPlace
