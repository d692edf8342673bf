\* Requests one after the other, all operations a user can perform.
SPECIFICATION Spec
CONSTANTS
  Ins = {i1, i2}
  Ver = {v1, v2}
  NoVer = NoVer
  Requests = {r1, r2, r3, r4}
  MaxBuilds = 5
  Ops = {"open", "edit", "submit", "reject", "publish", "save", "accept", "delete", "rollback"}
  OpenSources = {"git"}
  Serial = TRUE
  Isolation = "postgres"
  Seeded = TRUE
INVARIANTS
  TypeOK
  LiveIsApproved
  ApprovedHasLanded
PROPERTIES
  ApprovedIsFrozen
  NoSilentRevert
  RollbackIsExact
  LiveOnlyOnce
  ImplementsMainLine
SYMMETRY Symmetry
CHECK_DEADLOCK FALSE
