SPECIFICATION FairSpec
CONSTANTS
    Hash = {h1}
    Worker = {w1, w2}
    NoWorker = NoWorker
    MaxAttempts = 2
    MaxRetries = 2
    BatchSize = 1
    MaxCrashes = 1
    MaxReports = 1
    MaxLost = 1
PROPERTIES
    EveryDocumentSettles
CHECK_DEADLOCK FALSE
