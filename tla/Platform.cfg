\* Each component alone: racing creations and invitations, walks over a changing directory,
\* a send with two retries, renames and their dispatches, one settings page,
\* one listing of a tenant's access.
\* A part that has done everything its bounds allow stops.
SPECIFICATION PlatformSpec
CONSTANTS
    Creator = {c1, c2, c3}
    Person = {p1, p2}
    Name = {"Acme", "***"}
    Normalized <- MCNormalized
    Slug <- MCSlug
    MaxAttempts = 2
    MaxOwned = 1
    Inviter = {i1, i2, i3}
    Revoker = {r1, r2}
    Lifetime = 1
    MaxClock = 2
    Walk = {w1, w2}
    Employee = {e1, e2, e3, e4}
    MaxDepth = 2
    Ttl = 1
    MaxTime = 1
    MaxMoves = 1
    Nobody = Nobody
    MaxRetries = 2
    Change = {n1, n2, n3}
    Dispatch = {d1, d2}
    Contact = {k1}
    Unknown = Unknown
    MaxFailures = 1
    Tenant = {t1, t2}
    Nothing = Nothing
    MaxVersion = 2
    MaxSaves = 2
    User = {1, 2, 3}
    Displayed = {2, 3}
    Group = {9}
    MembershipRole <- MCMembershipRole
    Grant <- MCGrant
    Limit = 1
    MaxChanges = 2
SYMMETRY Symmetry
INVARIANTS TypeOK QuotaHolds ConflictIsReal LeavesPendingOnce ChainEndsForAReason CopiesArePaidFor
INVARIANTS PublishedInOrder SavesWhatIsShown PagesTellTheTenant
CHECK_DEADLOCK FALSE
