\* Two requests and a pass on one user, the group deleted or not, two failures.
SPECIFICATION Spec
CONSTANTS
    Call = {c1, c2}
    Pass = {p1}
    User = {u1}
    Name = {n1, n2}
    MaxUpdates = 1
    None = None
    MaxRows = 2
    MaxFailures = 2
SYMMETRY Symmetry
INVARIANTS TypeOK EventsTellRows SyncedWasWritten SettledIsExact
