\* One user, two requests and a pass, no failure of any kind.
SPECIFICATION Spec
CONSTANTS
    Call = {c1, c2}
    Pass = {p1}
    User = {u1}
    Name = {n1}
    MaxUpdates = 0
    None = None
    MaxRows = 2
    MaxFailures = 0
INVARIANT RemovedIsRevoked
