SPECIFICATION Spec
CONSTANTS
    NFreight = 2
    Required = 1
    MaxRetained = 1
    MaxTime = 2
    MaxFaults = 0
    MaxDeletes = 0
PROPERTY PassedOn
