SPECIFICATION Spec
CONSTANTS
  Modulus = 3
  Durations = {1, 2}
  MaxIrqs = 3
  Calls = {"load", "status"}
  Pairs <- NoPairs
INVARIANTS
  StatusIsACut
  ReportIsExact
  PeaksReported
  StatusBeforeLoad
  MaskIsLifted
