CONSTANTS
  SameLoop = {TRUE}
  Inactive = FALSE
  UserOps <- Answering
  ForeignOps = {"ShutdownInLoop"}
  MaxForeign = 1
  MaxRecv = 1
  MaxSend = 1
SPECIFICATION Safety
INVARIANTS ReleasedUnmonitored
CHECK_DEADLOCK FALSE
