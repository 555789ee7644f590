SPECIFICATION StraySpec
CONSTANTS
  Apps = {a1, a2}
  MaxId = 2
  MaxWrites = 2
  MaxReplies = 0
  MayDetach = FALSE
  None = None
INVARIANT OwnChannelOnly
CHECK_DEADLOCK FALSE
