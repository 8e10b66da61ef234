SPECIFICATION FairSpec
CONSTANTS
    NoID = NoID
    InstanceIDs = {i1, i2}
    MaxCreates = 1
    MaxInterventions = 2
    MaxFaults = 1
CHECK_DEADLOCK FALSE
PROPERTIES
    DeletionCompletes
    Settles
