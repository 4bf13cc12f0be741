CONSTANTS
    MaxLine = 3
    SizeMax = 1000
    Streams <- MCStreams
SPECIFICATION Spec
INVARIANT NothingAfterLast
CHECK_DEADLOCK FALSE
