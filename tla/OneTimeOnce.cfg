\* Two checks race for a single one-time grant.
SPECIFICATION Spec
CONSTANTS
    Caller = {c1, c2}
    Key = {k1}
    ByRole = {}
    MaxIssued = 1
    MaxAllowed = 2
    MaxFaults = 0
INVARIANT OneTimeSingleUse
