SPECIFICATION Spec
CONSTANTS
    Entry = {1, 2}
    Bad = {2}
    Consumer = {c1, c2}
    None = None
    BatchSize = 2
    PoisonThreshold = 1
    MaxMishaps = 1
    MaxFailures = 2
    MaxOutages = 1
    MaxLosses = 1
    MaxTrims = 1
SYMMETRY Symmetry
INVARIANTS
    NoStatusLost
    PoisonClock
CHECK_DEADLOCK FALSE
