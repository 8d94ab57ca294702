SPECIFICATION FairSpec
CONSTANTS
    Intent = {i1}
    Hash = {h1}
    Worker = {w1}
    Call = {c1, c2}
    None = None
    Window = 1
    MaxRetries = 2
    MaxClock = 2
    MaxPuts = 1
    MaxCrashes = 0
INVARIANTS
    AnswersHold
    PollMatchesGate
PROPERTIES
    UploadSettles
    CallsAnswered
CHECK_DEADLOCK FALSE
