\* Publishing one after the other, in an organization that had no main build yet.
SPECIFICATION Spec
CONSTANTS
  Ins = {i1, i2}
  Ver = {v1, v2}
  NoVer = NoVer
  Requests = {r1, r2, r3, r4}
  MaxBuilds = 5
  Ops = {"open", "edit", "save", "publish"}
  OpenSources = {"git"}
  Serial = TRUE
  Isolation = "sqlite"
  Seeded = FALSE
PROPERTY
  NoSilentRevert
SYMMETRY Symmetry
CHECK_DEADLOCK FALSE
