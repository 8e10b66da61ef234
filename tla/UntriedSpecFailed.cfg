SPECIFICATION Spec
CONSTANTS
    NoID = NoID
    InstanceIDs = {i1, i2}
    MaxCreates = 1
    MaxInterventions = 1
    MaxFaults = 1
CHECK_DEADLOCK FALSE
PROPERTY
    OnlyTriedSpecsFail
