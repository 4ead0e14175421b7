\* Drains within the lease; a malformed row, one the bus never accepts, a lost step, a refused send.
SPECIFICATION Spec
CONSTANTS
    Worker = {w1, w2}
    None = None
    Row = {1, 2, 3}
    NumSources = 2
    SourceOf <- MCSourceOf
    Malformed = {2}
    Rejected = {3}
    BatchSize = 2
    Lease = 1
    MaxDrain = 1
    MaxLosses = 1
    MaxRefusals = 1
    MaxCopies = 3
INVARIANT DuplicatesArePaidFor
PROPERTY ImplementsDeliveryLive
