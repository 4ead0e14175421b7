------------------------------ MODULE ApiClient ------------------------------
(***************************************************************************)
(* The generated HTTP client of the web application                        *)
(* (packages/api-client).  Each endpoint is the call its function makes:   *)
(* method, path, the operation of the API it was generated for, the status *)
(* its success type declares, and whether the hook lets the call through.  *)
(* Paths are sequences of segments.  An identifier is spliced into its     *)
(* path as it is, so it is a sequence of segments too: the pieces of the   *)
(* string between its slashes, one empty piece for the empty string.  The  *)
(* types of the answers and the overloads of the hooks are left out.       *)
(***************************************************************************)
EXTENDS Naturals, Sequences, FiniteSets

CONSTANTS
    Tenants,      \* identifiers a caller may pass for a tenant, split at their slashes
    Items,        \* ... for a group, user, invitation or access request
    RoleIds,      \* ... for a role
    Filters,      \* query parameters of a list, NoFilter among them
    NoFilter

Empty == ""
Segment == STRING
Blank == <<Empty>>            \* the empty string as an identifier

ASSUME IdentifierAssumption ==
    Tenants \union Items \union RoleIds \subseteq Seq(Segment) \ {<<>>} /\ NoFilter \in Filters

Method == {"GET", "POST", "PUT", "PATCH", "DELETE"}

\* A hook that reads: it runs when no path argument is empty, and files the
\* answer under its path and parameters.
Read(op, path, args, filter) ==
    [op |-> op, method |-> "GET", path |-> path, success |-> 200,
     enabled |-> Blank \notin args, key |-> <<path, filter>>]

\* A mutation: no guard and no place in the cache.
Mutate(op, method, path, success) ==
    [op |-> op, method |-> method, path |-> path, success |-> success,
     enabled |-> TRUE, key |-> <<>>]

----------------------------------------------------------------------------
(* bimi, changelog, health, single-sign-on *)

bimiLogoControllerLogo == Read("Bimi.logo", <<"bimi", "logo.svg">>, {}, NoFilter)
changelogControllerGetChangelog == Read("Changelog.getChangelog", <<"changelog">>, {}, NoFilter)
healthControllerCheck == Read("Health.check", <<"health">>, {}, NoFilter)
healthControllerCheckDatabase == Read("Health.checkDatabase", <<"health", "db">>, {}, NoFilter)
singleSignOnControllerMe == Read("SingleSignOn.me", <<"api", "me">>, {}, NoFilter)

----------------------------------------------------------------------------
(* permissions *)

permissionsControllerCheck == Mutate("Permissions.check", "POST", <<"permissions", "check">>, 200)
permissionsControllerHealth == Read("Permissions.health", <<"permissions", "health">>, {}, NoFilter)
accessRequestControllerCreate ==
    Mutate("AccessRequest.create", "POST", <<"permissions", "access-requests">>, 201)
accessRequestControllerListMine(filter) ==
    Read("AccessRequest.listMine", <<"permissions", "access-requests", "mine">>, {}, filter)
accessRequestControllerListPending ==
    Read("AccessRequest.listPending", <<"permissions", "access-requests", "pending">>, {}, NoFilter)
accessRequestControllerApprove(id) ==
    Mutate("AccessRequest.approve", "POST", <<"permissions", "access-requests">> \o id \o <<"approve">>, 200)
accessRequestControllerDeny(id) ==
    Mutate("AccessRequest.deny", "POST", <<"permissions", "access-requests">> \o id \o <<"deny">>, 200)

----------------------------------------------------------------------------
(* tenants *)

tenantControllerFindAll(filter) == Read("Tenant.findAll", <<"tenants">>, {}, filter)
tenantControllerCreate == Mutate("Tenant.create", "POST", <<"tenants">>, 201)
tenantControllerCreateSelfService ==
    Mutate("Tenant.createSelfService", "POST", <<"tenants", "self-service">>, 201)
tenantControllerFindOne_Unguarded(id) ==      \* Faulty variant: the hook runs without an id.
    Read("Tenant.findOne", <<"tenants">> \o id, {}, NoFilter)
tenantControllerFindOne(id) == Read("Tenant.findOne", <<"tenants">> \o id, {id}, NoFilter)
tenantControllerUpdate(id) == Mutate("Tenant.update", "PATCH", <<"tenants">> \o id, 200)

----------------------------------------------------------------------------
(* tenant-invitations *)

invitations(tenantId) == <<"tenants">> \o tenantId \o <<"invitations">>

tenantInvitationControllerCreate(tenantId) ==
    Mutate("TenantInvitation.create", "POST", invitations(tenantId), 201)
tenantInvitationControllerFindAll(tenantId) ==
    Read("TenantInvitation.findAll", invitations(tenantId), {tenantId}, NoFilter)
tenantInvitationControllerRevoke(tenantId, invitationId) ==
    Mutate("TenantInvitation.revoke", "DELETE", invitations(tenantId) \o invitationId, 204)

----------------------------------------------------------------------------
(* tenant-groups *)

groups(tenantId) == <<"tenants">> \o tenantId \o <<"groups">>
members(tenantId, groupId) == groups(tenantId) \o groupId \o <<"members">>

tenantGroupControllerList(tenantId) ==
    Read("TenantGroup.list", groups(tenantId), {tenantId}, NoFilter)
tenantGroupControllerCreate(tenantId) ==
    Mutate("TenantGroup.create", "POST", groups(tenantId), 201)
tenantGroupControllerUpdate(tenantId, groupId) ==
    Mutate("TenantGroup.update", "PATCH", groups(tenantId) \o groupId, 200)
tenantGroupControllerRemove(tenantId, groupId) ==
    Mutate("TenantGroup.remove", "DELETE", groups(tenantId) \o groupId, 204)
tenantGroupControllerListMembers(tenantId, groupId) ==
    Read("TenantGroup.listMembers", members(tenantId, groupId), {tenantId, groupId}, NoFilter)
tenantGroupControllerAddMember(tenantId, groupId) ==
    Mutate("TenantGroup.addMember", "POST", members(tenantId, groupId), 201)
tenantGroupControllerRemoveMember(tenantId, groupId, userId) ==
    Mutate("TenantGroup.removeMember", "DELETE", members(tenantId, groupId) \o userId, 204)

----------------------------------------------------------------------------
(* tenant-access-administration *)

administration(tenantId) == <<"tenants">> \o tenantId \o <<"access-administration">>

accessAdministrationControllerList(tenantId, filter) ==
    Read("AccessAdministration.list", administration(tenantId), {tenantId}, filter)
accessAdministrationControllerAssignUser(tenantId, userId, roleId) ==
    Mutate("AccessAdministration.assignUser", "PUT",
           administration(tenantId) \o <<"users">> \o userId \o <<"roles">> \o roleId, 200)
accessAdministrationControllerRevokeUser(tenantId, userId, roleId) ==
    Mutate("AccessAdministration.revokeUser", "DELETE",
           administration(tenantId) \o <<"users">> \o userId \o <<"roles">> \o roleId, 200)
accessAdministrationControllerAssignGroup(tenantId, groupId, roleId) ==
    Mutate("AccessAdministration.assignGroup", "PUT",
           administration(tenantId) \o <<"groups">> \o groupId \o <<"roles">> \o roleId, 200)
accessAdministrationControllerRevokeGroup(tenantId, groupId, roleId) ==
    Mutate("AccessAdministration.revokeGroup", "DELETE",
           administration(tenantId) \o <<"groups">> \o groupId \o <<"roles">> \o roleId, 200)

----------------------------------------------------------------------------

(* Every call the client can make with given identifiers *)

PlainCalls ==
    {bimiLogoControllerLogo, changelogControllerGetChangelog, healthControllerCheck,
     healthControllerCheckDatabase, singleSignOnControllerMe, permissionsControllerCheck,
     permissionsControllerHealth, accessRequestControllerCreate,
     accessRequestControllerListPending, tenantControllerCreate,
     tenantControllerCreateSelfService}
ListCalls == UNION {{accessRequestControllerListMine(f), tenantControllerFindAll(f)} : f \in Filters}
DecisionCalls(items) ==
    UNION {{accessRequestControllerApprove(i), accessRequestControllerDeny(i)} : i \in items}
TenantCalls(tenants) ==
    UNION {{tenantControllerFindOne(t), tenantControllerUpdate(t),
            tenantInvitationControllerCreate(t), tenantInvitationControllerFindAll(t),
            tenantGroupControllerList(t), tenantGroupControllerCreate(t)} : t \in tenants}
AccessCalls(tenants) == {accessAdministrationControllerList(t, f) : t \in tenants, f \in Filters}
ItemCalls(tenants, items) ==
    UNION {{tenantInvitationControllerRevoke(t, i), tenantGroupControllerUpdate(t, i),
            tenantGroupControllerRemove(t, i), tenantGroupControllerListMembers(t, i),
            tenantGroupControllerAddMember(t, i)} : t \in tenants, i \in items}
MemberCalls(tenants, items) ==
    {tenantGroupControllerRemoveMember(t, g, u) : t \in tenants, g \in items, u \in items}
RoleCalls(tenants, items, roleIds) ==
    UNION {{accessAdministrationControllerAssignUser(t, i, r),
            accessAdministrationControllerRevokeUser(t, i, r),
            accessAdministrationControllerAssignGroup(t, i, r),
            accessAdministrationControllerRevokeGroup(t, i, r)} :
           t \in tenants, i \in items, r \in roleIds}

CallsWith(tenants, items, roleIds) ==
    PlainCalls \union ListCalls \union DecisionCalls(items) \union TenantCalls(tenants)
    \union AccessCalls(tenants) \union ItemCalls(tenants, items) \union MemberCalls(tenants, items)
    \union RoleCalls(tenants, items, roleIds)
Calls == CallsWith(Tenants, Items, RoleIds)

\* Those whose identifiers hold no slash, and those that send the request `path` with such ones.
Whole(ids) == {id \in ids : Len(id) = 1}
WholeCalls == CallsWith(Whole(Tenants), Whole(Items), Whole(RoleIds))
Pieces(path) == {<<path[i]>> : i \in DOMAIN path}
Spelling(method, path) ==
    {c \in CallsWith(Pieces(path), Pieces(path), Pieces(path)) : c.method = method /\ c.path = path}
=============================================================================
