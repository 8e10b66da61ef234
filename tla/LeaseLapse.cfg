SPECIFICATION Spec
CONSTANTS
    NoID = NoID
    InstanceIDs = {i1, i2, i3}
    MaxCreates = 1
    MaxInterventions = 1
    MaxFaults = 2
    MaxDisturbances = 2
SYMMETRY Symmetry
CHECK_DEADLOCK FALSE
INVARIANTS
    TypeOK
    OrphansArePaidFor
    IInv
PROPERTIES
    OnlyLaunchesStray
    GivenUpIsFinal
    TerminateIsWanted
