SPECIFICATION FairSpec
CONSTANTS
    Entry = {1}
    Bad = {}
    Consumer = {c1, c2}
    None = None
    BatchSize = 1
    PoisonThreshold = 1
    MaxMishaps = 1
    MaxFailures = 1
    MaxOutages = 1
    MaxLosses = 1
    MaxTrims = 0
PROPERTIES
    EveryStatusApplied
CHECK_DEADLOCK FALSE
