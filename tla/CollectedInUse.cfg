SPECIFICATION Spec
CONSTANTS
    NFreight = 2
    Required = 0
    MaxRetained = 1
    MaxTime = 1
    MaxFaults = 0
    MaxDeletes = 0
INVARIANT InUseExists
