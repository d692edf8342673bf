\* Requests that overlap and die anywhere, on SQLite (one writer at a time).
SPECIFICATION Spec
CONSTANTS
  Ins = {i1}
  Ver = {v1, v2}
  NoVer = NoVer
  Requests = {r1, r2, r3}
  MaxBuilds = 4
  Ops = {"open", "edit", "submit", "reject", "publish", "save", "accept", "delete", "learn", "rollback", "crash"}
  OpenSources = {"user"}
  Serial = FALSE
  Isolation = "sqlite"
  Seeded = TRUE
INVARIANTS
  AtMostOneMain
SYMMETRY Symmetry
CHECK_DEADLOCK FALSE
