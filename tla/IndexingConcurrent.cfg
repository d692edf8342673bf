\* Everything at once, with faults.
SPECIFICATION FairSpec
CONSTANTS
  Tables = {t1}
  Requests = {r1, r2}
  MaxRuns = 2
  Ops = {"start", "force", "sweep", "refresh", "delete", "timeout", "crash"}
  Serial = FALSE
INVARIANTS
  BackoffHolds
  ActiveHasRunner
PROPERTIES
  WaitersGetOn
CHECK_DEADLOCK FALSE
