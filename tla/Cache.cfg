SPECIFICATION Spec
CONSTANTS
    Callers = {c1, c2, c3}
    Keys = {k1}
    CacheNothing = FALSE
    DefaultTTL = "finite"
    LoaderTTLs = {"nil", "zero"}
    MaxGets = 3
INVARIANTS
    TypeOK
    OneLoadPerKey
    MonotonicReads
    Undisturbed
PROPERTIES
    EveryGetReturns
CHECK_DEADLOCK FALSE
