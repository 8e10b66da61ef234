SPECIFICATION Spec
CONSTANTS
    NoID = NoID
    InstanceIDs = {i1, i2}
    MaxCreates = 2
    MaxInterventions = 2
    MaxFaults = 2
SYMMETRY Symmetry
CHECK_DEADLOCK FALSE
INVARIANTS
    TypeOK
    IInv
    RecordedIsOwn
    ReleasedIsEnding
    OrphansArePaidFor
PROPERTIES
    LaunchIsSafe
    RecordedIDIsKept
    ObservedGenerationGrows
    GivenUpIsFinal
    TerminateIsWanted
    ImplementsManagedResource
