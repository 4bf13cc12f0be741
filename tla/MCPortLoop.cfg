CONSTANTS
    f1 = f1
    f2 = f2
    Task <- MCTask
    MaxTasks = 3
SPECIFICATION Spec
INVARIANTS
    IndexMatches
    WritersWatched
PROPERTIES
    ImplementsTaskPool
    FunctorsRun
    QuitEndsLoop
CHECK_DEADLOCK FALSE
