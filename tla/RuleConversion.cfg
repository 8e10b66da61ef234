SPECIFICATION Spec
CONSTANTS
    CIDRs = {c1, c2}
    Ports = {1, 2, 3}
    MaxRules = 2
CHECK_DEADLOCK FALSE
INVARIANTS
    TypeOK
    KeepsOrder
    IInv
    AdmitsWhatIsAsked
