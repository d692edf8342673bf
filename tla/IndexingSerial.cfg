\* Requests that do not overlap each other, with the runners in the background.
SPECIFICATION Spec
CONSTANTS
  Tables = {t1, t2}
  Requests = {r1, r2, r3}
  MaxRuns = 3
  Ops = {"start", "sweep", "refresh", "delete", "timeout", "crash"}
  Serial = TRUE
INVARIANTS
  TypeOK
  OneActive
  OneRowPerTable
  DrainSuffices
PROPERTIES
  CompletedIsStored
SYMMETRY Symmetry
CHECK_DEADLOCK FALSE
