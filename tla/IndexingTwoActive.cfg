\* Two requests start indexing at the same moment.
SPECIFICATION Spec
CONSTANTS
  Tables = {t1}
  Requests = {r1, r2}
  MaxRuns = 2
  Ops = {"start"}
  Serial = FALSE
INVARIANT
  OneActive
CHECK_DEADLOCK FALSE
