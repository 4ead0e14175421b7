\* Two calls, two requests for one coordinate, two failures and one crash.
SPECIFICATION Spec
CONSTANTS
    Call = {c1, c2}
    Request = {r1, r2}
    Key = {k1}
    Approver = {a1}
    Type = {"permanent", "one_time"}
    None = None
    MaxFaults = 2
    MaxCrashes = 1
SYMMETRY Symmetry
INVARIANTS TypeOK EventsMatchDecision ClaimIsExclusive OneTimeGrantIsBacked ApprovedIsGranted ApprovingIsOwned
PROPERTY ImplementsContract
