SPECIFICATION Spec
CONSTANTS
    Freight = {f1, f2}
    NoFreight = NoFreight
    Rollbacks = FALSE
    AnnotationOutcomes = {TRUE}
    MaxInfos = 2
    MaxPromotions = 3
    MaxFaults = 1
INVARIANTS
    TypeOK
    AbortSticks
    VerifiedEarned
    RepromotionReverified
PROPERTIES
    EveryVerificationEnds
CHECK_DEADLOCK FALSE
