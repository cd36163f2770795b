CONSTANTS
    t1 = t1
    t2 = t2
    MaxServiceFaults = 3
    MaxRetries = 2
    MaxTroubles = 2
    BaseFiles <- Installed
    UpdateFiles <- Updated
    AppFiles <- BelowApp
    VersionFile = "ver"
    MaxRuns = 2
    MaxEdits = 1
    MaxCleanupFaults = 3
    Tasks <- TwoTasks
    MaxSessions = 1
    MaxManaged = 1
    MaxTaskFaults = 1
SPECIFICATION FairSpec
INVARIANTS
    LockCoversEverything
    UpdatesAreSafe
    EndsAreWhole
PROPERTIES
    RetryIsHeard
    EndReturns
CHECK_DEADLOCK FALSE
