\* Two threads evaluate one model.
SPECIFICATION Spec
CONSTANTS
  Threads = {t1, t2}
  Points = {q1, q2}
  WrongSize = wrong
  Columns <- MCColumns
  NumParams = 1
  NumTParams = 1
  ProbeStops = {2}
  Flags <- MCFlags
INVARIANT TypeOK
INVARIANT ExclusiveLease
INVARIANT ClonesBounded
INVARIANT RowsLabelledUnlessTorn
PROPERTY CallsAreIsolated
