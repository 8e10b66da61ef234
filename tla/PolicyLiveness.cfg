SPECIFICATION FairSpec
CONSTANTS
    NoID = NoID
    ListIDs = {l1}
    MaxCreates = 1
    MaxInterventions = 2
    MaxFaults = 1
CHECK_DEADLOCK FALSE
PROPERTIES
    DeletionCompletes
    Settles
