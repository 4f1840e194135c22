\* walnuts, whose exceptions escape to the future.
SPECIFICATION Spec
CONSTANTS
  NumChains = 2
  NumThreads = 2
  Services = {"walnuts"}
  MaxBlocks = 1
  Writers <- MCWriters
  ShowMessages = TRUE
  ShowExceptions = TRUE
PROPERTY CallPromise
PROPERTY CtrlCEndsCall
