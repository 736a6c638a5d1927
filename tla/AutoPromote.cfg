SPECIFICATION Spec
CONSTANTS
    NOrigins = 2
    Matching = {1}
    Supply <- TwoAndOne
    Initially <- FirstOnly
    Manual = {1}
    N = 3
    MaxFaults = 1
    MaxRetained = 1
    AbortQueued = FALSE
INVARIANTS
    TypeOK
    HoldsKnown
    SupersededOnce
PROPERTIES
    AutoPromotedOnce
    OriginsKept
    Converges
