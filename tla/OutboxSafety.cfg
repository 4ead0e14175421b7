\* Two replicas whose drains may outrun the lease, one lost step, one refusal.
SPECIFICATION SafetySpec
CONSTANTS
    Worker = {w1, w2}
    None = None
    Row = {1, 2, 3}
    NumSources = 2
    SourceOf <- MCSourceOf
    Malformed = {2}
    Rejected = {}
    BatchSize = 2
    Lease = 1
    MaxDrain = 2
    MaxLosses = 1
    MaxRefusals = 1
    MaxCopies = 2
SYMMETRY Symmetry
INVARIANTS TypeOK OutcomeIsTrue LeaseHeld
PROPERTIES SettledIsFinal ImplementsDelivery
