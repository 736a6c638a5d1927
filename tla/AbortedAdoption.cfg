SPECIFICATION Spec
CONSTANTS
    Freight = {f1, f2}
    NoFreight = NoFreight
    Rollbacks = TRUE
    AnnotationOutcomes = {TRUE}
    MaxInfos = 2
    MaxPromotions = 3
    MaxFaults = 0
INVARIANTS
    VerifiedEarned
CHECK_DEADLOCK FALSE
