SPECIFICATION Spec
CONSTANTS
    N = 2
    Intents = {"hold", "resume"}
    Deletable = {"Succeeded"}
    InOrder = TRUE
    HistoryLimit = 1
    MaxFaults = 0
    MaxToggles = 1
INVARIANTS
    TypeOK
    Serialized
    SerialInv
    OutcomeRecorded
    ReleaseSupersedesHold
PROPERTY ImplementsQueue
CHECK_DEADLOCK FALSE
