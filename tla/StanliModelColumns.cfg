\* A probe that throws after it has written columns.
SPECIFICATION Spec
CONSTANTS
  Threads = {t1}
  Points = {q1}
  WrongSize = wrong
  Columns <- MCColumns
  NumParams = 1
  NumTParams = 1
  ProbeStops = {0, 1, 2, 3}
  Flags <- MCFlags
INVARIANT RowsAreLabelled
