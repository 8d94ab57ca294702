SPECIFICATION Spec
CONSTANTS
    Hash = {h1}
    Worker = {w1, w2}
    NoWorker = NoWorker
    MaxAttempts = 2
    MaxRetries = 2
    BatchSize = 2
    MaxCrashes = 1
    MaxReports = 2
    MaxLost = 0
SYMMETRY Symmetry
INVARIANTS
    OneRowPerAttempt
    NoLostAttempt
    JustifiedOutcome
    RetryBudget
PROPERTIES
    ClaimEndsByOwner
    ImplementsLifecycle
CHECK_DEADLOCK FALSE
