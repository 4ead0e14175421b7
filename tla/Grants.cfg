\* Two checks, a coordinate held only by grants and one also held by role, one fault.
SPECIFICATION Spec
CONSTANTS
    Caller = {c1, c2}
    Key = {k1, k2}
    ByRole = {k2}
    MaxIssued = 2
    MaxAllowed = 1
    MaxFaults = 1
SYMMETRY Symmetry
INVARIANTS TypeOK ConsumedAtMostOnce ResidueIsPaidFor
PROPERTY ImplementsLifecycle
