\* Stan's services, two chains on two threads, one block of chatter each.
SPECIFICATION Spec
CONSTANTS
  NumChains = 2
  NumThreads = 2
  Services = {"hmc"}
  MaxBlocks = 1
  Writers <- MCWriters
  ShowMessages = FALSE
  ShowExceptions = FALSE
INVARIANT TypeOK
INVARIANT OutputAccounted
INVARIANT NoChainOutlivesCall
INVARIANT OkMeansEveryChainFinished
INVARIANT MetropolisCountsOpenBlocks
INVARIANT ChatterSilenced
PROPERTY CallSafety
PROPERTY LoneErrorsShown
