CONSTANTS
  SameLoop = {FALSE}
  Inactive = FALSE
  UserOps <- Answering
  ForeignOps = {}
  MaxForeign = 0
  MaxRecv = 1
  MaxSend = 1
SPECIFICATION Safety
INVARIANTS ReleasedOnce
CHECK_DEADLOCK FALSE
