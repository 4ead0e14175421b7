--------------------------- MODULE RequestPipeline ---------------------------
(***************************************************************************)
(* One request from the generated client to a handler of the API and back. *)
(* customFetch reads the configuration, waits for a token and sends; the   *)
(* host maps the session, resolves the tenancy, finds the route, throttles,*)
(* authenticates, stores the identity, asks the role and permission        *)
(* guards, and the service checks the rest.  Requests interleave with each *)
(* other and with changes of the client's tenant.  What a handler does     *)
(* with its rows is the other modules' subject: here it answers, refuses,  *)
(* or served the data of one tenant.                                      *)
(***************************************************************************)
EXTENDS ApiClient

CONSTANTS
    Requests,      \* requests in flight
    Offered,       \* the calls each of them may make
    Worlds,        \* who is signed in and what is stored about them
    Active,        \* tenants the client may be configured for
    Users,         \* rows of other people, from oid to e-mail address
    Limit,         \* requests the throttler lets through in its window
    None

ASSUME PipelineAssumption ==
    /\ IsFiniteSet(Requests) /\ Offered \in [Requests -> SUBSET Calls] /\ None \notin Active \union {"read", "update"}
    /\ Limit \in Nat /\ \A oid \in DOMAIN Users : Users[oid] # None
    /\ \A w \in Worlds : w.configured \in BOOLEAN

VARIABLES
    world,         \* session, token, memberships, rights; fixed in a behaviour
    config,        \* the client's x-tenant-id, None when cleared
    users,         \* User rows: e-mail address by oid
    hits,          \* requests counted by the throttler
    req,           \* every request
    answers        \* history: what the cache was given

vars == <<world, config, users, hits, req, answers>>

Idle == [at |-> "idle"]

----------------------------------------------------------------------------
(* Identities *)

normalizeEntraRoles(c) == c.roles \union ({c.role} \ {None})
Oid(c) == IF c.oid # None THEN c.oid ELSE c.sub
Email(c) == IF c.email # None THEN c.email ELSE c.upn
Identity(c) == [oid |-> Oid(c), email |-> Email(c), tenantId |-> c.tenant, roles |-> normalizeEntraRoles(c)]
mapEntraClaims_AnyEmail(c) ==      \* Faulty variant: an identity without an address passes.
    IF Oid(c) = None THEN None ELSE Identity(c)
mapEntraClaims(c) == IF Oid(c) = None \/ Email(c) = None THEN None ELSE Identity(c)

\* What the session's callbacks keep of a profile: no upn, and sub only without an oid.
extractEntraSessionFields(c) == [c EXCEPT !.upn = None]
SessionClaims(c) == [extractEntraSessionFields(c) EXCEPT !.sub = IF c.oid # None THEN None ELSE @]
\* Claims that cannot be mapped mean signed out.
mapAuthJsUser(c) == IF c = None THEN None ELSE mapEntraClaims(SessionClaims(c))
\* EntraJwtStrategy.validate; a token that does not verify is one that cannot be mapped.
BearerUser == IF world.bearer = None THEN None ELSE mapEntraClaims(world.bearer)

----------------------------------------------------------------------------
(* Routes *)

Param == "*"         \* a parameter of a pattern
Route(op, method, pattern, roles) == [op |-> op, method |-> method, pattern |-> pattern, roles |-> roles]

HealthRoutes == <<Route("Health.check", "GET", <<"health">>, {}),
                  Route("Health.checkDatabase", "GET", <<"health", "db">>, {})>>
ChangelogRoutes == <<Route("Changelog.getChangelog", "GET", <<"changelog">>, {})>>
TenantRoutes == <<
    Route("Tenant.findAll", "GET", <<"tenants">>, {"support-agent"}),
    Route("Tenant.create", "POST", <<"tenants">>, {"support-agent", "tenant-admin"}),
    Route("Tenant.createSelfService", "POST", <<"tenants", "self-service">>, {}),
    Route("Tenant.findOne", "GET", <<"tenants", Param>>, {}),
    Route("Tenant.update", "PATCH", <<"tenants", Param>>, {})>>
TenantInvitationRoutes == <<
    Route("TenantInvitation.create", "POST", <<"tenants", Param, "invitations">>, {}),
    Route("TenantInvitation.findAll", "GET", <<"tenants", Param, "invitations">>, {}),
    Route("TenantInvitation.revoke", "DELETE", <<"tenants", Param, "invitations", Param>>, {})>>
TenantGroupRoutes == <<
    Route("TenantGroup.list", "GET", <<"tenants", Param, "groups">>, {}),
    Route("TenantGroup.create", "POST", <<"tenants", Param, "groups">>, {}),
    Route("TenantGroup.update", "PATCH", <<"tenants", Param, "groups", Param>>, {}),
    Route("TenantGroup.remove", "DELETE", <<"tenants", Param, "groups", Param>>, {}),
    Route("TenantGroup.listMembers", "GET", <<"tenants", Param, "groups", Param, "members">>, {}),
    Route("TenantGroup.addMember", "POST", <<"tenants", Param, "groups", Param, "members">>, {}),
    Route("TenantGroup.removeMember", "DELETE", <<"tenants", Param, "groups", Param, "members", Param>>, {})>>
SingleSignOnRoutes == <<Route("SingleSignOn.me", "GET", <<"api", "me">>, {})>>
PermissionsRoutes == <<Route("Permissions.check", "POST", <<"permissions", "check">>, {}),
                       Route("Permissions.health", "GET", <<"permissions", "health">>, {})>>
AccessRequestRoutes == <<
    Route("AccessRequest.create", "POST", <<"permissions", "access-requests">>, {}),
    Route("AccessRequest.listMine", "GET", <<"permissions", "access-requests", "mine">>, {}),
    Route("AccessRequest.listPending", "GET", <<"permissions", "access-requests", "pending">>, {}),
    Route("AccessRequest.approve", "POST", <<"permissions", "access-requests", Param, "approve">>, {}),
    Route("AccessRequest.deny", "POST", <<"permissions", "access-requests", Param, "deny">>, {})>>
RoleRoute(op, method, kind) ==
    Route(op, method, <<"tenants", Param, "access-administration", kind, Param, "roles", Param>>, {})
AccessAdministrationRoutes == <<
    Route("AccessAdministration.list", "GET", <<"tenants", Param, "access-administration">>, {}),
    RoleRoute("AccessAdministration.assignUser", "PUT", "users"),
    RoleRoute("AccessAdministration.revokeUser", "DELETE", "users"),
    RoleRoute("AccessAdministration.assignGroup", "PUT", "groups"),
    RoleRoute("AccessAdministration.revokeGroup", "DELETE", "groups")>>
BimiRoutes == <<Route("Bimi.logo", "GET", <<"bimi", "logo.svg">>, {})>>

\* Modules register their controllers in the order the host imports them.
Routes == HealthRoutes \o ChangelogRoutes \o TenantRoutes \o TenantInvitationRoutes
          \o TenantGroupRoutes \o SingleSignOnRoutes \o PermissionsRoutes \o AccessRequestRoutes
          \o AccessAdministrationRoutes \o BimiRoutes

\* A trailing slash is tolerated; a parameter takes one segment that is not empty.
Trim(path) == IF path # <<>> /\ path[Len(path)] = Empty THEN SubSeq(path, 1, Len(path) - 1) ELSE path
Matches(route, method, path) ==
    /\ route.method = method /\ Len(route.pattern) = Len(path)
    /\ \A i \in 1..Len(path) : path[i] # Empty /\ route.pattern[i] \in {Param, path[i]}
Candidates(call) == {i \in DOMAIN Routes : Matches(Routes[i], call.method, Trim(call.path))}
RouteOf(call) == Routes[CHOOSE i \in Candidates(call) : \A j \in Candidates(call) : i <= j]

isPublicPath(path) == path[1] \in {"health", "changelog", "docs"} \/ (Len(path) > 1 /\ path[1] = "api" /\ path[2] = "auth")
isPublic(route, path) == route.op \in {"Health.check", "Health.checkDatabase", "Bimi.logo"} \/ isPublicPath(path)

\* permissions.manifest.json: the right on the tenant of the path a route asks for.
Manifest(op) ==
    CASE op \in {"TenantGroup.list", "TenantGroup.listMembers"} -> "read"
      [] op \in {"Tenant.update", "TenantGroup.create", "TenantGroup.update", "TenantGroup.remove",
                 "TenantGroup.addMember", "TenantGroup.removeMember"} -> "update"
      [] OTHER -> None

----------------------------------------------------------------------------
(* What the services check *)

Check(user, action, tenant) == world.configured /\ <<user.oid, action, tenant>> \in world.rights
checkTenantRole(user, role, tenant) == world.configured /\ <<user.oid, role, tenant>> \in world.rights
IsOwner(user, tenant) == <<tenant, user.oid, "owner">> \in world.memberships
IsMember(user, tenant) == \E role \in {"owner", "member"} : <<tenant, user.oid, role>> \in world.memberships

assertTenantAccess(ctx, id) == IF ctx = None THEN 401 ELSE IF ctx # id THEN 403 ELSE 200
assertCanUpdate(id, actor) == IF "tenant-admin" \in actor.roles \/ IsOwner(actor, id) THEN 200 ELSE 403
assertCanManage(id, actor) == IF "tenant-admin" \in actor.roles \/ IsOwner(actor, id) THEN 200 ELSE 403
assertCanManageInvitations(id, actor) ==
    IF actor.roles \intersect {"tenant-admin", "support-agent"} # {} \/ IsOwner(actor, id) THEN 200 ELSE 403
assertTenant(ctx, id, actor) ==
    IF ctx \in {None, id} /\ actor.tenantId \in {None, id} THEN 200 ELSE 403
assertAdmin(id, actor) == IF Check(actor, "admin", id) THEN 200 ELSE 403
\* An owner of the tenant: by membership, or in OpenFGA (directly or through a group).
ActsAsOwner(actor, id) == IsOwner(actor, id) \/ checkTenantRole(actor, "owner", id)
assertOwnerRole(id, roleId, actor) == IF roleId = "owner" /\ ~ActsAsOwner(actor, id) THEN 403 ELSE 200

\* The tenant an access request is filed in: the claim's, or another one of the body
\* that the caller is a member of.
resolveCreateTenantId(body, actor) ==
    IF body \in {None, actor.tenantId} THEN IF actor.tenantId = None THEN 400 ELSE 200
    ELSE IF IsMember(actor, body) THEN 200 ELSE 403
isEligibleApprover(tenant, actor) ==
    IF actor.tenantId = tenant /\ (Check(actor, "admin", tenant) \/ actor.oid \in world.managers) THEN 200 ELSE 403

\* The first check that fails decides.
First(s) == IF \E i \in DOMAIN s : s[i] # 200 THEN s[CHOOSE i \in DOMAIN s : s[i] # 200 /\ \A j \in 1..(i-1) : s[j] = 200] ELSE 200

GroupOps == {"TenantGroup.list", "TenantGroup.create", "TenantGroup.update", "TenantGroup.remove",
             "TenantGroup.listMembers", "TenantGroup.addMember", "TenantGroup.removeMember"}
InvitationOps == {"TenantInvitation.create", "TenantInvitation.findAll", "TenantInvitation.revoke"}
CommandOps == {"AccessAdministration.assignUser", "AccessAdministration.revokeUser",
               "AccessAdministration.assignGroup", "AccessAdministration.revokeGroup"}
DecisionOps == {"AccessRequest.approve", "AccessRequest.deny"}

\* Tenants a handler may turn out to work on: the path's, or one read from body or row.
Targets(q) ==
    IF q.op = "AccessRequest.create" THEN {q.user.tenantId} \union Active
    ELSE IF q.op \in DecisionOps THEN Active
    ELSE IF Len(q.call.path) > 1 /\ q.call.path[1] = "tenants" /\ q.op # "Tenant.createSelfService"
         THEN {q.call.path[2]} ELSE {None}

Verdict(q, ctx, target) ==
    CASE q.op = "Tenant.findOne" -> assertTenantAccess(ctx, target)
      [] q.op = "Tenant.update" -> First(<<assertTenantAccess(ctx, target), assertCanUpdate(target, q.user)>>)
      [] q.op \in GroupOps -> assertCanManage(target, q.user)
      [] q.op \in InvitationOps -> assertCanManageInvitations(target, q.user)
      [] q.op = "AccessAdministration.list" ->
           First(<<assertTenant(ctx, target, q.user), assertAdmin(target, q.user)>>)
      [] q.op \in CommandOps ->
           First(<<assertTenant(ctx, target, q.user), assertAdmin(target, q.user),
                   assertOwnerRole(target, q.call.path[7], q.user)>>)
      [] q.op = "AccessRequest.create" -> resolveCreateTenantId(target, q.user)
      [] q.op = "AccessRequest.listPending" -> IF q.user.tenantId = None THEN 400 ELSE 200
      [] q.op \in DecisionOps -> isEligibleApprover(target, q.user)
      [] OTHER -> 200

\* Rows, quotas, headers and OpenFGA may still refuse what the checks let through.
DataErrors(op) ==
    CASE op = "Tenant.findOne" -> {404}
      [] op = "Tenant.update" -> {400, 404}
      [] op \in {"Tenant.create", "Tenant.createSelfService"} -> {400, 409}
      [] op \in GroupOps \ {"TenantGroup.list"} -> {404, 409, 503}
      [] op \in InvitationOps \ {"TenantInvitation.findAll"} -> {404, 409}
      [] op \in CommandOps -> {400, 404, 409, 412, 503}
      [] op \in DecisionOps -> {400, 404, 409, 410}
      [] OTHER -> {}

\* @HttpCode, or what the method answers without it.
SuccessOf(op, method) ==
    IF op \in {"TenantGroup.remove", "TenantGroup.removeMember", "TenantInvitation.revoke"} THEN 204
    ELSE IF method = "POST" /\ op \notin DecisionOps \union {"Permissions.check"} THEN 201 ELSE 200

----------------------------------------------------------------------------
(* Types *)

\* Who the sign-ins can turn out to be, and the tenants their requests can be about.
Identities == {mapAuthJsUser(w.session) : w \in Worlds}
              \union {IF w.bearer = None THEN None ELSE mapEntraClaims(w.bearer) : w \in Worlds}
Claimed == {u.tenantId : u \in Identities \ {None}}
Operation == {Routes[i].op : i \in DOMAIN Routes}
ASSUME NoneIsNoOperation == None \notin Operation
Target == Active \union Claimed \union {None} \union UNION {{call.path[i] : i \in DOMAIN call.path} : call \in Calls}
Subject == Target \union {u.oid : u \in Identities \ {None}}

Waiting == [at : {"token"}, call : Calls, header : Active \union {None}]
Flight == [at : {"sent", "persist", "guards", "handler"}, call : Calls, header : Active \union {None},
           ctx : Active \union Claimed \union {None}, user : Identities \union {None}, op : Operation]
Answered == [at : {"answered"}, call : Calls, user : Identities \union {None}, op : Operation \union {None},
             status : 200..599, about : (Operation \X Subject) \union {None}, served : SUBSET Target]
Request == [at : {"idle", "settled"}] \union Waiting \union Flight \union Answered

TypeOK ==
    /\ world \in Worlds /\ config \in Active \union {None}
    /\ hits \in 0..Cardinality(Requests)
    /\ req \in [Requests -> Request]
    /\ \A r \in Requests : req[r].at \notin {"idle", "settled"} => req[r].call \in Offered[r]
    /\ \A oid \in DOMAIN users : users[oid] # None
    /\ answers \in SUBSET [key : {call.key : call \in Calls}, about : Operation \X Subject]

----------------------------------------------------------------------------
(* The client *)

Init ==
    /\ world \in Worlds /\ config \in Active \union {None}
    /\ users = Users /\ hits = 0
    /\ req = [r \in Requests |-> Idle]
    /\ answers = {}

\* `served` holds the tenant a handler went through with.
Answer(r, op, user, status, about, served) ==
    req' = [req EXCEPT ![r] = [at |-> "answered", call |-> @.call, op |-> op, user |-> user,
                               status |-> status, about |-> about, served |-> served]]
Refuse(r, status) == Answer(r, req[r].op, req[r].user, status, None, {})

\* It matters only while a request is still to be made.
setApiClientTenantId(t) ==
    /\ t # config /\ \E r \in Requests : req[r].at = "idle"
    /\ config' = t
    /\ UNCHANGED <<world, users, hits, req, answers>>

\* The URL and the headers are read before the token is awaited.
CustomFetch(r, call) ==
    /\ req[r].at = "idle" /\ call.enabled
    /\ req' = [req EXCEPT ![r] = [at |-> "token", call |-> call, header |-> config]]
    /\ UNCHANGED <<world, config, users, hits, answers>>

\* A 204 has no data; an answer that is not ok is thrown and never cached.
Receive(r) ==
    /\ req[r].at = "answered"
    /\ req' = [req EXCEPT ![r] = [at |-> "settled"]]
    /\ answers' = IF req[r].status = req[r].call.success /\ req[r].call.key # <<>>
                  THEN answers \union {[key |-> req[r].call.key, about |-> req[r].about]}
                  ELSE answers
    /\ UNCHANGED <<world, config, users, hits>>

----------------------------------------------------------------------------
(* The host *)

\* The session, then TenancyMiddleware: a claim it knows already wins over the header.
SessionUser == mapAuthJsUser(world.session)
Tenancy(r) == IF SessionUser # None /\ SessionUser.tenantId # None THEN SessionUser.tenantId ELSE req[r].header

\* The token arrives and the request goes out; the host routes and throttles it.
Arrive(r) ==
    /\ req[r].at = "token"
    /\ \/ /\ Candidates(req[r].call) = {}
          /\ Answer(r, None, None, 404, None, {})
          /\ UNCHANGED hits
       \/ /\ Candidates(req[r].call) # {}
          /\ hits' = hits + 1
          /\ IF hits >= Limit
             THEN Answer(r, None, None, 429, None, {})
             ELSE req' = [req EXCEPT ![r] = [at |-> "sent", call |-> @.call, user |-> None,
                                             op |-> RouteOf(@.call).op, ctx |-> Tenancy(r), header |-> @.header]]
    /\ UNCHANGED <<world, config, users, answers>>

\* The throttler's window passes.
NewWindow == hits > 0 /\ hits' = 0 /\ UNCHANGED <<world, config, users, req, answers>>

\* SessionOrJwtAuthGuard: a public route, else the session, else the token.
Authenticate(r) ==
    /\ req[r].at = "sent"
    /\ LET user == IF SessionUser # None THEN SessionUser ELSE BearerUser
       IN  IF isPublic(RouteOf(req[r].call), req[r].call.path)
           THEN req' = [req EXCEPT ![r].at = "guards"]
           ELSE IF user = None THEN Refuse(r, 401)
           ELSE req' = [req EXCEPT ![r].at = "persist", ![r].user = user]
    /\ UNCHANGED <<world, config, users, hits, answers>>

\* UserIdentityService.persist: one upsert by oid; an address another row has fails it.
Persist(r) ==
    /\ req[r].at = "persist"
    /\ LET u == req[r].user IN
       IF \E oid \in DOMAIN users \ {u.oid} : users[oid] = u.email
       THEN Refuse(r, 500) /\ UNCHANGED users
       ELSE /\ users' = [oid \in DOMAIN users \union {u.oid} |-> IF oid = u.oid THEN u.email ELSE users[oid]]
            /\ req' = [req EXCEPT ![r].at = "guards"]
    /\ UNCHANGED <<world, config, hits, answers>>

\* RolesGuard, then PermissionsGuard; both pass when the route asks for nothing.
RolesRefuse(q) ==
    LET required == RouteOf(q.call).roles
    IN  required # {} /\ (q.user = None \/ q.user.roles \intersect required = {})
PermissionsRefuse(q) ==
    /\ Manifest(q.op) # None /\ world.configured
    /\ ~Check(q.user, Manifest(q.op), q.call.path[2])
Guard(r) ==
    /\ req[r].at = "guards"
    /\ IF RolesRefuse(req[r]) \/ PermissionsRefuse(req[r])
       THEN Refuse(r, 403)
       ELSE req' = [req EXCEPT ![r].at = "handler"]
    /\ UNCHANGED <<world, config, users, hits, answers>>

\* ClaimTenancyInterceptor: the claim of the authenticated user replaces the header's tenant.
ClaimTenancy_FillsGap(q) ==      \* Faulty variant: a tenancy that is there already stays.
    IF q.ctx # None THEN q.ctx ELSE IF q.user # None THEN q.user.tenantId ELSE None
ClaimTenancy(q) == IF q.user # None /\ q.user.tenantId # None THEN q.user.tenantId ELSE q.ctx

\* What the answer is about: the rows the handler selects.
About_ByHeader(q, target) ==      \* Faulty variant: lists select by the header's tenant.
    CASE q.op = "AccessRequest.listPending" -> <<q.op, IF q.header = None THEN q.user.tenantId ELSE q.header>>
      [] OTHER -> <<q.op, target>>
About(q, target) ==
    CASE q.op = "AccessRequest.listPending" -> <<q.op, q.user.tenantId>>
      [] q.op \in {"AccessRequest.listMine", "SingleSignOn.me"} -> <<q.op, q.user.oid>>
      [] OTHER -> <<q.op, target>>

\* A command replayed under its idempotency key answers before any check and changes nothing.
Replay(r) ==
    /\ req[r].at = "handler" /\ req[r].op \in CommandOps
    /\ Answer(r, req[r].op, req[r].user, 200, About(req[r], req[r].call.path[2]), {})
    /\ UNCHANGED <<world, config, users, hits, answers>>

Handle(r) ==
    /\ req[r].at = "handler"
    /\ \E target \in Targets(req[r]) :
         LET q == req[r]
             verdict == Verdict(q, ClaimTenancy(q), target)
         IN  \/ /\ verdict = 200
                /\ Answer(r, q.op, q.user, SuccessOf(q.op, q.call.method), About(q, target), {target})
             \/ \E status \in IF verdict = 200 THEN DataErrors(q.op) ELSE {verdict} : Refuse(r, status)
    /\ UNCHANGED <<world, config, users, hits, answers>>

Done == (\A r \in Requests : req[r].at = "settled") /\ UNCHANGED vars

Next ==
    \/ \E t \in Active \union {None} : setApiClientTenantId(t)
    \/ NewWindow
    \/ \E r \in Requests :
         \/ \E call \in Offered[r] : CustomFetch(r, call)
         \/ Arrive(r) \/ Authenticate(r) \/ Persist(r) \/ Guard(r) \/ Replay(r) \/ Handle(r) \/ Receive(r)
    \/ Done

Spec == Init /\ [][Next]_vars

----------------------------------------------------------------------------
(* Properties *)

\* A call whose identifiers hold no slash reaches the handler it was generated for, and
\* when it succeeds it is with the status its type declares; only a mutation with an empty
\* identifier finds no route.  The client does not encode identifiers: one with a slash
\* may lead elsewhere, but never to a handler the client has no call for: it sends what
\* another call with plain identifiers sends, and is answered like that one.
ReachesItsHandler ==
    \A r \in Requests : req[r].at = "answered" =>
        LET call == req[r].call
            AnsweredAs(c) == req[r].op = c.op /\ (req[r].status < 300 => req[r].status = c.success)
            Missing == call.key = <<>> /\ \E i \in DOMAIN call.path : call.path[i] = Empty
        IN  IF req[r].op = None THEN call \in WholeCalls /\ req[r].status = 404 => Missing
            ELSE IF call \in WholeCalls THEN AnsweredAs(call)
            ELSE \E c \in Spelling(call.method, Trim(call.path)) : AnsweredAs(c)

\* The cache files answers under path and parameters only.  Two answers of one sign-in
\* under one key are about the same rows, whatever tenant the client was configured for
\* when each was fetched: no handler selects by the x-tenant-id header.
CachedForItsKey == \A a \in answers, b \in answers : a.key = b.key => a.about = b.about

BoundToClaim(c) == c.user.tenantId \in {None, c.tenant}
Manages(c) == "tenant-admin" \in c.user.roles \/ IsOwner(c.user, c.tenant)
Permitted(c) == world.configured => Check(c.user, Manifest(c.op), c.tenant)
Entitlement(c) ==
    /\ c.op = "Tenant.findAll" => "support-agent" \in c.user.roles
    /\ c.op = "Tenant.create" => c.user.roles \intersect {"support-agent", "tenant-admin"} # {}
    /\ c.op = "Tenant.findOne" => BoundToClaim(c)
    /\ c.op = "Tenant.update" => BoundToClaim(c) /\ Manages(c) /\ Permitted(c)
    /\ c.op \in GroupOps => Manages(c) /\ Permitted(c)
    /\ c.op \in InvitationOps => Manages(c) \/ "support-agent" \in c.user.roles
    /\ c.op = "AccessAdministration.list" => BoundToClaim(c) /\ Check(c.user, "admin", c.tenant)
    /\ c.op \in CommandOps => /\ BoundToClaim(c) /\ Check(c.user, "admin", c.tenant)
                              /\ c.call.path[7] = "owner" => ActsAsOwner(c.user, c.tenant)
    /\ c.op = "AccessRequest.create" => c.tenant = c.user.tenantId \/ IsMember(c.user, c.tenant)
    /\ c.op \in DecisionOps => /\ c.tenant = c.user.tenantId
                               /\ Check(c.user, "admin", c.tenant) \/ c.user.oid \in world.managers

\* What a handler read or changed, its caller was entitled to: the route's role or an
\* owner's standing, the OpenFGA right once that is configured, and, where the route is
\* bound to a tenancy, no other tenant than the one the caller's claim names.
OnlyEntitled ==
    \A r \in Requests : req[r].at = "answered" => \A tenant \in req[r].served :
        Entitlement([op |-> req[r].op, call |-> req[r].call, user |-> req[r].user, tenant |-> tenant])
=============================================================================
