\* Two owners, two calls racing, no failure of any kind.
SPECIFICATION Spec
CONSTANTS
    Call = {c1, c2}
    Pass = {}
    Assignment = {a1, a2}
    Owner = {a1, a2}
    Human = {"human", "member"}
    Humans <- MCHumans
    MemberOwners = {}
    Inherited = {}
    Initial = {a1, a2}
    Idempotency = {i1, i2, i3}
    None = None
    MaxFaults = 0
    MaxCrashes = 0
SYMMETRY Symmetry
INVARIANT TenantKeepsOwner
