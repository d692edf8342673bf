\* Two runs of one user with three operations or faults between them, and a policy edit.
SPECIFICATION Spec
CONSTANTS
  Agents = {a1, a2}
  Policies <- MCPolicies
  NoLimit = NoLimit
  Estimates = {1}
  Amounts = {2}
  Costs = {1}
  MaxSteps = 3
  Faults = {"db_error", "ack_lost", "death"}
INVARIANTS
  TypeOK
  EventsAddUp
  NeverOvercharged
  NoFreeQuery
  RunIsCharged
PROPERTIES
  AdmissionIsTimely
  RejectionIsReal
  LimitHolds
SYMMETRY Symmetry
CHECK_DEADLOCK FALSE
