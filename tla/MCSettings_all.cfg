SPECIFICATION MCSpec
CONSTANTS
    Sound <- ConfigToml
    Files <- MadeFiles
    MaxInt = 2000000000
    MaxPort = 65535
    Migration <- Runs
    Configs <- UsedConfigs
    Sizes <- ModelSizes
    MaxChanges = 1
    MaxMishaps = 1
    JobTimeout = 4
    WatchdogGrace = 2
    MinIdle = 10
    CallTimeout = 3
    RetryDelay = 1
    PublishAttempts = 3
    Dispatch = 5
    MaxJobs = 2
INVARIANTS
    ReportIsComplete
    SameVerdict
    ReportsAreTrue
    LiveJobNotReclaimable
    RetriesEndInTime
PROPERTIES
    MigrationsKeepData
    ExitsAreEarned
    ServesAgain
CHECK_DEADLOCK FALSE
