SPECIFICATION Spec
CONSTANTS
    NoID = NoID
    ListIDs = {l1, l2}
    MaxCreates = 2
    MaxInterventions = 2
    MaxFaults = 1
SYMMETRY Symmetry
CHECK_DEADLOCK FALSE
INVARIANTS
    TypeOK
    IInv
    OrphansAndDriftArePaidFor
PROPERTIES
    RecordedRulesAreCurrent
    GivenUpIsFinal
    ImplementsManagedResource
