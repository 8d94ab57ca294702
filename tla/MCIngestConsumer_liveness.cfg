SPECIFICATION FairSpec
CONSTANTS
    Entry = {e1, b1}
    Bad = {b1}
    Consumer = {c1, c2}
    None = None
    PoisonThreshold = 1
    MaxMishaps = 1
    MaxLosses = 1
    MaxTrims = 0
PROPERTIES
    EveryEntryReported
CHECK_DEADLOCK FALSE
