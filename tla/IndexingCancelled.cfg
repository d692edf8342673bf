\* A forced reindex, one request after the other.
SPECIFICATION Spec
CONSTANTS
  Tables = {t1}
  Requests = {r1, r2}
  MaxRuns = 2
  Ops = {"start", "force"}
  Serial = TRUE
PROPERTY
  CancelledIsFinal
CHECK_DEADLOCK FALSE
