CONSTANTS
    ThreadCounts <- MCThreadCounts
    Fds <- MCFds
    IntMax = 3
    MaxReleases = 3
    MaxTimers = 1
    MaxClients = 3
SPECIFICATION Spec
INVARIANT ConnectedWatched
CHECK_DEADLOCK FALSE
