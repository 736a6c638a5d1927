SPECIFICATION FairSpec
CONSTANTS
    K = 2
    Plans <- MCPlans
    Results <- MCResults
    MaxFaults = 1
INVARIANTS
    TypeOK
    InheritedWork
    NoRepeat
    HealthChecksExact
    FailureStops
    SkippedForAReason
    SuccessEarned
    ErrorsBounded
    StepInv
PROPERTY TimeoutsEndIt
CHECK_DEADLOCK FALSE
