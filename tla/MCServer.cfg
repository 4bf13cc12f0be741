CONSTANTS
    ThreadCounts <- MCThreadCounts
    Fds <- MCFds
    IntMax = 3
    MaxReleases = 3
    MaxTimers = 1
    MaxClients = 3
SPECIFICATION Spec
INVARIANTS
    ChannelsMatch
    LoopsPublished
PROPERTIES
    Starts
    ReleasedForgotten
CHECK_DEADLOCK FALSE
