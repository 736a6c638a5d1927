SPECIFICATION Spec
CONSTANTS
    NFreight = 2
    Required = 0
    MaxRetained = 1
    MaxTime = 2
    MaxFaults = 1
    MaxDeletes = 1
INVARIANTS
    TypeOK
    SoakNotOverstated
    
PROPERTY PassedOn
