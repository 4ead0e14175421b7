\* Every call of the client, and beside it a read whose answer may be cached.
SPECIFICATION Spec
CONSTANTS
    Tenants <- MCTenants
    Items <- MCItems
    RoleIds <- MCRoleIds
    Filters = {"all", "q"}
    NoFilter = "all"
    Requests = {1, 2}
    Active = {"t1", "t2"}
    Limit = 1
    None = None
    Worlds <- MCWorlds
    Users <- MCUsers
    Offered <- MCOffered
INVARIANTS TypeOK ReachesItsHandler CachedForItsKey 
