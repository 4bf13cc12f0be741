CONSTANTS
  SameLoop = {TRUE, FALSE}
  Inactive = TRUE
  UserOps <- Releasing
  ForeignOps <- AllRequests
  MaxForeign = 1
  MaxRecv = 1
  MaxSend = 2
SPECIFICATION Safety
INVARIANTS TypeOK ShutdownFlushes WriteEventMatches NoStaleChannel NoCallbackAfterRelease
CHECK_DEADLOCK FALSE
