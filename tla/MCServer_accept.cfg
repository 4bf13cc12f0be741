CONSTANTS
    ThreadCounts <- MCThreadCounts
    Fds <- MCFds
    IntMax = 3
    MaxReleases = 3
    MaxTimers = 1
    MaxClients = 2
SPECIFICATION Spec
PROPERTY AcceptReturns
CHECK_DEADLOCK FALSE
