SPECIFICATION FairSpec
CONSTANTS
    NoID = NoID
    InstanceIDs = {i1, i2}
    MaxCreates = 1
    MaxInterventions = 2
    MaxFaults = 0
CHECK_DEADLOCK FALSE
PROPERTY
    SelfHeals
