\* One command, one reconciliation pass, an inherited role, an owner beside one by membership, an outage and a crash.
SPECIFICATION FairSpec
CONSTANTS
    Call = {c1}
    Pass = {p1}
    Assignment = {a1, a2}
    Owner = {a1}
    Human = {"human", "member"}
    Humans <- MCHumans
    MemberOwners = {"member"}
    Inherited = {a2}
    Initial = {a1}
    Idempotency = {i1, i2}
    None = None
    MaxFaults = 2
    MaxCrashes = 1
PROPERTY EventuallySynced
