CONSTANTS
  SameLoop = {FALSE}
  Inactive = FALSE
  UserOps <- Answering
  ForeignOps = {}
  MaxForeign = 0
  MaxRecv = 0
  MaxSend = 0
SPECIFICATION Spec
PROPERTIES EofReleases
CHECK_DEADLOCK FALSE
