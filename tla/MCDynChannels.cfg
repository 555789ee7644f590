SPECIFICATION Spec
CONSTANTS
  Apps = {a1, a2, a3}
  MaxId = 2
  MaxWrites = 2
  MaxReplies = 2
  MayDetach = TRUE
  None = None
SYMMETRY Symmetry
INVARIANTS TypeOK OwnChannelOnly TablesAgree NothingLost CloseIsUnderWay
CHECK_DEADLOCK FALSE
