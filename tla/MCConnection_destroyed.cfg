CONSTANTS
  SameLoop = {TRUE}
  Inactive = FALSE
  UserOps <- Answering
  ForeignOps = {}
  MaxForeign = 0
  MaxRecv = 1
  MaxSend = 1
SPECIFICATION Safety
INVARIANTS NoTaskOnDestroyed
CHECK_DEADLOCK FALSE
