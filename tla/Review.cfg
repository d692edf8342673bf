\* Two occurrences, two requests of administrators and two automation runs.
SPECIFICATION Spec
CONSTANTS
  MaxTasks = 2
  MaxFaults = 1
  MaxEmissions = 2
  MaxRequests = 2
INVARIANTS
  TypeOK
  Deduplicated
  GuardHolds
  ItemsHaveWorkflows
PROPERTIES
  DismissalHolds
CHECK_DEADLOCK FALSE
