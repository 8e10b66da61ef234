SPECIFICATION MeteredSpec
CONSTANTS
    NoID = NoID
    InstanceIDs = {i1}
    MaxCreates = 1
    MaxInterventions = 1
    MaxFaults = 1
    MaxReconciles = 6
CHECK_DEADLOCK FALSE
INVARIANTS
    MeteredTypeOK
    EntriesAreCounted
    FailuresShow
    MeteredIInv
