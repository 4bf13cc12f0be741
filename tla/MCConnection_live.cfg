CONSTANTS
  SameLoop = {TRUE, FALSE}
  Inactive = FALSE
  UserOps <- Answering
  ForeignOps = {}
  MaxForeign = 0
  MaxRecv = 1
  MaxSend = 1
SPECIFICATION Spec
PROPERTIES ShutdownEnds PeerGoneReleases
CHECK_DEADLOCK FALSE
