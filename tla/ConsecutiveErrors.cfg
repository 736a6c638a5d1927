SPECIFICATION Spec
CONSTANTS
    K = 1
    Plans <- MCUntimedPlans
    Results <- MCResults
    MaxFaults = 0
INVARIANT GivenUpAfterStreak
CHECK_DEADLOCK FALSE
