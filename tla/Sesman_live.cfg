SPECIFICATION FairSpec
CONSTANTS
  Users = {"ann", "bob"}
  Kinds = {"v0", "gw"}
  MaxSessions = 2
  Foreign = {2}
  MaxLogins = 3
  MayFail = FALSE
  MayTerm = TRUE
CHECK_DEADLOCK FALSE
INVARIANTS OneSessionPerUser SentToOwnSession
PROPERTIES EveryLoginAnswered LoneEndIsNoticed
