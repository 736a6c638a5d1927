SPECIFICATION Spec
CONSTANTS
    N = 3
    Intents = {"none"}
    Deletable = {}
    InOrder = TRUE
    HistoryLimit = 10
    MaxFaults = 0
    MaxToggles = 0
INVARIANT EverySuccessRecorded
CHECK_DEADLOCK FALSE
