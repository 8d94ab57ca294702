SPECIFICATION MCSpec
CONSTANTS
    Call <- Calls
    Streaming <- Streams
    MaxWorkers = 1
    MaxChunks = 2
    Documents <- Files
    Foreign <- OtherProducers
    MaxInteger = 3
    MaxAttempts = 2
    MaxFaults = 2
    MaxForeign = 1
INVARIANTS
    NoStreamLeftOpen
    TextLeavesForAClient
    AbandonedStreamStops
    EveryEntryIsAnswerable
    VerdictFitsDocument
    ToolMissesNothing
PROPERTIES
    ImplementsProtocol
    EveryCallEnds
    VerdictReached
CHECK_DEADLOCK FALSE
