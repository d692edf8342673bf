\* Two promotions overlap under READ COMMITTED.
SPECIFICATION Spec
CONSTANTS
  Ins = {i1}
  Ver = {v1, v2}
  NoVer = NoVer
  Requests = {r1, r2}
  MaxBuilds = 3
  Ops = {"save"}
  OpenSources = {"user"}
  Serial = FALSE
  Isolation = "postgres"
  Seeded = TRUE
INVARIANT
  AtMostOneMain
SYMMETRY Symmetry
CHECK_DEADLOCK FALSE
