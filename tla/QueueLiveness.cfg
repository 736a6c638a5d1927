SPECIFICATION FairSpec
CONSTANTS
    N = 2
    Intents = {"none"}
    Deletable = {}
    InOrder = TRUE
    HistoryLimit = 10
    MaxFaults = 1
    MaxToggles = 0
PROPERTIES
    EveryPromotionFinishes
    EverySuccessReplayed
    SuccessReplayedWhole
CHECK_DEADLOCK FALSE
