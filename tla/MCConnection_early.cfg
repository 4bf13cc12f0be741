CONSTANTS
  SameLoop = {FALSE}
  Inactive = TRUE
  UserOps <- Answering
  ForeignOps = {}
  MaxForeign = 0
  MaxRecv = 0
  MaxSend = 0
SPECIFICATION Safety
INVARIANTS EstablishedOnNew
CHECK_DEADLOCK FALSE
