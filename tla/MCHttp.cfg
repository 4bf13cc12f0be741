CONSTANTS
    MaxLine = 3
    SizeMax = 1000
    Streams <- MCStreams
SPECIFICATION Spec
INVARIANTS
    NothingLeftBehind
    NestingShrinks
PROPERTIES
    ImplementsSession
    OnMessageReturns
    LastAnswerReleases
CHECK_DEADLOCK FALSE
