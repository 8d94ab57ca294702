SPECIFICATION Spec
CONSTANTS
    Entry = {e1, b1}
    Bad = {b1}
    Consumer = {c1, c2}
    None = None
    PoisonThreshold = 3
    MaxMishaps = 3
    MaxLosses = 1
    MaxTrims = 1
SYMMETRY Symmetry
INVARIANTS
    NoEntryLost
    PoisonIsEarned
    JobsDoNotOverlap
CHECK_DEADLOCK FALSE
