\* A reviewer rejects a build while somebody publishes it.
SPECIFICATION Spec
CONSTANTS
  Ins = {i1, i2}
  Ver = {v1, v2}
  NoVer = NoVer
  Requests = {r1, r2, r3}
  MaxBuilds = 4
  Ops = {"save", "reject", "publish"}
  OpenSources = {"user"}
  Serial = FALSE
  Isolation = "sqlite"
  Seeded = TRUE
PROPERTY
  RejectionIsFinal
SYMMETRY Symmetry
CHECK_DEADLOCK FALSE
