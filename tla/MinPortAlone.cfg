SPECIFICATION Spec
CONSTANTS
    CIDRs = {c1, c2}
    Ports = {1, 2}
    MaxRules = 1
CHECK_DEADLOCK FALSE
INVARIANTS
    MinPortIsMinimum
