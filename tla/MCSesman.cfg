SPECIFICATION Spec
CONSTANTS
  Users = {ann, bob}
  Kinds = {"v0", "v1", "gw", "mng"}
  MaxSessions = 2
  Foreign = {}
  MaxLogins = 4
  MayFail = TRUE
  MayTerm = TRUE
SYMMETRY UserSymmetry
CHECK_DEADLOCK FALSE
INVARIANTS TypeOK CountIsExact LiveSessionsBounded LiveDisplaysDistinct
