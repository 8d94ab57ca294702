SPECIFICATION Spec
CONSTANTS
    Intent = {i1, i2}
    Hash = {h1, h2}
    Worker = {w1, w2}
    Call = {c1, c2}
    None = None
    Window = 1
    MaxRetries = 2
    MaxClock = 0
    MaxPuts = 2
    MaxCrashes = 1
SYMMETRY Symmetry
INVARIANTS
    ObjectsAreKept
PROPERTIES
    ClaimEndsByOwner
    ImplementsLifecycle
CHECK_DEADLOCK FALSE
