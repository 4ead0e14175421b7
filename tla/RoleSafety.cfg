\* Three commands, so that a row may change and change back, from two calls, and a
\* reconciliation pass; two owners, one lost answer.
SPECIFICATION Spec
CONSTANTS
    Call = {c1, c2}
    Pass = {p1}
    Assignment = {a1, a2}
    Owner = {a1, a2}
    Human = {"human", "member"}
    Humans <- MCHumans
    MemberOwners = {}
    Inherited = {}
    Initial = {a1}
    Idempotency = {i1, i2, i3}
    None = None
    MaxFaults = 1
    MaxCrashes = 0
SYMMETRY Symmetry
INVARIANTS TypeOK 
PROPERTIES OneCommandPerRevision 
