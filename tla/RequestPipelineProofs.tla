------------------------ MODULE RequestPipelineProofs ------------------------
(***************************************************************************)
(* Proofs about a request on its way from the client to a handler and back *)
(* (RequestPipeline): whoever is signed in, whatever is stored about them  *)
(* and whatever identifiers a caller puts into a path.                     *)
(***************************************************************************)
EXTENDS RequestPipeline, FiniteSetTheorems, WellFoundedInduction, TLAPS

-----------------------------------------------------------------------------
(* The table of routes                                                     *)

Entries(table) == {table[i] : i \in DOMAIN table}

LEMMA EntriesJoin ==
  ASSUME NEW S, NEW s \in Seq(S), NEW t \in Seq(S)
  PROVE  s \o t \in Seq(S) /\ Entries(s \o t) = Entries(s) \union Entries(t)
<1>1. s \o t \in Seq(S) /\ Len(s \o t) = Len(s) + Len(t)
  OBVIOUS
<1>2. \A i \in 1..Len(s) : (s \o t)[i] = s[i]
  OBVIOUS
<1>3. \A i \in 1..Len(t) : Len(s) + i \in 1..Len(s \o t) /\ (s \o t)[Len(s) + i] = t[i]
  OBVIOUS
<1>4. \A i \in 1..Len(s \o t) : i \in 1..Len(s) \/ (i - Len(s) \in 1..Len(t) /\ (s \o t)[i] = t[i - Len(s)])
  OBVIOUS
<1>5. DOMAIN s = 1..Len(s) /\ DOMAIN t = 1..Len(t) /\ DOMAIN (s \o t) = 1..Len(s \o t) /\ 1..Len(s) \subseteq 1..Len(s \o t)
  BY <1>1
<1>6. \A i \in DOMAIN (s \o t) : (s \o t)[i] \in Entries(s) \union Entries(t)
  BY <1>2, <1>4, <1>5 DEF Entries
<1>7. \A i \in DOMAIN s : s[i] \in Entries(s \o t)
  BY <1>2, <1>5 DEF Entries
<1>8. \A i \in DOMAIN t : t[i] \in Entries(s \o t)
  BY <1>3, <1>5 DEF Entries
<1> QED
  BY <1>1, <1>6, <1>7, <1>8 DEF Entries

Tables == Entries(HealthRoutes) \union Entries(ChangelogRoutes) \union Entries(TenantRoutes)
          \union Entries(TenantInvitationRoutes) \union Entries(TenantGroupRoutes) \union Entries(SingleSignOnRoutes)
          \union Entries(PermissionsRoutes) \union Entries(AccessRequestRoutes)
          \union Entries(AccessAdministrationRoutes) \union Entries(BimiRoutes)

(* Every table is a sequence, and the routes are what is in one of them.   *)
LEMMA TablesAreSequences ==
  /\ HealthRoutes \in Seq(Tables) /\ ChangelogRoutes \in Seq(Tables) /\ TenantRoutes \in Seq(Tables)
  /\ TenantInvitationRoutes \in Seq(Tables) /\ TenantGroupRoutes \in Seq(Tables) /\ SingleSignOnRoutes \in Seq(Tables)
  /\ PermissionsRoutes \in Seq(Tables) /\ AccessRequestRoutes \in Seq(Tables)
  /\ AccessAdministrationRoutes \in Seq(Tables) /\ BimiRoutes \in Seq(Tables)
<1>1. ASSUME NEW table, NEW n \in Nat, table \in [1..n -> Entries(table)], Entries(table) \subseteq Tables
      PROVE  table \in Seq(Tables)
  BY <1>1
<1>2. HealthRoutes \in [1..2 -> Entries(HealthRoutes)] /\ ChangelogRoutes \in [1..1 -> Entries(ChangelogRoutes)]
  BY DEF HealthRoutes, ChangelogRoutes, Entries
<1>3. TenantRoutes \in [1..5 -> Entries(TenantRoutes)]
  BY DEF TenantRoutes, Entries
<1>4. TenantInvitationRoutes \in [1..3 -> Entries(TenantInvitationRoutes)]
  BY DEF TenantInvitationRoutes, Entries
<1>5. TenantGroupRoutes \in [1..7 -> Entries(TenantGroupRoutes)]
  BY DEF TenantGroupRoutes, Entries
<1>6. SingleSignOnRoutes \in [1..1 -> Entries(SingleSignOnRoutes)] /\ PermissionsRoutes \in [1..2 -> Entries(PermissionsRoutes)]
  BY DEF SingleSignOnRoutes, PermissionsRoutes, Entries
<1>7. AccessRequestRoutes \in [1..5 -> Entries(AccessRequestRoutes)]
  BY DEF AccessRequestRoutes, Entries
<1>8. AccessAdministrationRoutes \in [1..5 -> Entries(AccessAdministrationRoutes)] /\ BimiRoutes \in [1..1 -> Entries(BimiRoutes)]
  BY DEF AccessAdministrationRoutes, BimiRoutes, Entries
<1> QED
  BY <1>1, <1>2, <1>3, <1>4, <1>5, <1>6, <1>7, <1>8 DEF Tables

LEMMA RoutesAre == Routes \in Seq(Tables) /\ Entries(Routes) = Tables
<1> DEFINE a == HealthRoutes \o ChangelogRoutes
           b == a \o TenantRoutes
           c == b \o TenantInvitationRoutes
           d == c \o TenantGroupRoutes
           e == d \o SingleSignOnRoutes
           f == e \o PermissionsRoutes
           g == f \o AccessRequestRoutes
           h == g \o AccessAdministrationRoutes
<1>1. Routes = h \o BimiRoutes
  BY DEF Routes
<1>2. a \in Seq(Tables) /\ Entries(a) = Entries(HealthRoutes) \union Entries(ChangelogRoutes)
  BY TablesAreSequences, EntriesJoin
<1> HIDE DEF a
<1>3. b \in Seq(Tables) /\ Entries(b) = Entries(a) \union Entries(TenantRoutes)
  BY <1>2, TablesAreSequences, EntriesJoin
<1> HIDE DEF b
<1>4. c \in Seq(Tables) /\ Entries(c) = Entries(b) \union Entries(TenantInvitationRoutes)
  BY <1>3, TablesAreSequences, EntriesJoin
<1> HIDE DEF c
<1>5. d \in Seq(Tables) /\ Entries(d) = Entries(c) \union Entries(TenantGroupRoutes)
  BY <1>4, TablesAreSequences, EntriesJoin
<1> HIDE DEF d
<1>6. e \in Seq(Tables) /\ Entries(e) = Entries(d) \union Entries(SingleSignOnRoutes)
  BY <1>5, TablesAreSequences, EntriesJoin
<1> HIDE DEF e
<1>7. f \in Seq(Tables) /\ Entries(f) = Entries(e) \union Entries(PermissionsRoutes)
  BY <1>6, TablesAreSequences, EntriesJoin
<1> HIDE DEF f
<1>8. g \in Seq(Tables) /\ Entries(g) = Entries(f) \union Entries(AccessRequestRoutes)
  BY <1>7, TablesAreSequences, EntriesJoin
<1> HIDE DEF g
<1>9. h \in Seq(Tables) /\ Entries(h) = Entries(g) \union Entries(AccessAdministrationRoutes)
  BY <1>8, TablesAreSequences, EntriesJoin
<1> HIDE DEF h
<1>10. Routes \in Seq(Tables) /\ Entries(Routes) = Entries(h) \union Entries(BimiRoutes)
  BY <1>1, <1>9, TablesAreSequences, EntriesJoin
<1> QED
  BY <1>2, <1>3, <1>4, <1>5, <1>6, <1>7, <1>8, <1>9, <1>10 DEF Tables

Bound == {"Tenant.findOne", "Tenant.update", "AccessAdministration.list"} \union GroupOps \union InvitationOps \union CommandOps
Filed == {"AccessRequest.create"} \union DecisionOps
Guarded == {"Tenant.findAll", "Tenant.create", "SingleSignOn.me", "AccessRequest.listMine", "AccessRequest.listPending"}
           \union Bound \union Filed

(* What the guards and the services rely on in a route.                    *)
Sound(route) ==
    /\ Len(route.pattern) \in Nat \ {0} /\ route.pattern[1] # Param
    /\ route.op \in Guarded => \/ route.pattern[1] \in {"tenants", "permissions"}
                               \/ Len(route.pattern) = 2 /\ route.pattern[1] = "api" /\ route.pattern[2] = "me"
    /\ route.op \in Bound => route.pattern[1] = "tenants" /\ Len(route.pattern) > 1
    /\ route.op \in Filed \union CommandOps => route.method # "GET"
    /\ route.op \in CommandOps => route.method # "POST"
    /\ route.op = "Tenant.findAll" => route.roles = {"support-agent"}
    /\ route.op = "Tenant.create" => route.roles = {"support-agent", "tenant-admin"}

LEMMA RoutesSound == \A route \in Tables : Sound(route)
<1> USE DEF Entries, Route, Param
<1>1. \A route \in Entries(HealthRoutes) \union Entries(ChangelogRoutes) : Sound(route)
  BY DEF HealthRoutes, ChangelogRoutes, Sound, Guarded, Filed, Bound, GroupOps, InvitationOps, CommandOps, DecisionOps
<1>2. \A route \in Entries(TenantRoutes) : Sound(route)
  BY DEF TenantRoutes, Sound, Guarded, Filed, Bound, GroupOps, InvitationOps, CommandOps, DecisionOps
<1>3. \A route \in Entries(TenantInvitationRoutes) : Sound(route)
  <2>1. \A route \in Entries(TenantInvitationRoutes) :
          route.op \in InvitationOps /\ Len(route.pattern) \in {3, 4} /\ route.pattern[1] = "tenants"
    BY DEF TenantInvitationRoutes, InvitationOps
  <2> QED
    BY <2>1, SMTT(30) DEF Sound, Filed, InvitationOps, DecisionOps, CommandOps
<1>4. \A route \in Entries(TenantGroupRoutes) : Sound(route)
  <2>1. \A route \in Entries(TenantGroupRoutes) : route.op \in GroupOps /\ Len(route.pattern) \in 3..6
    BY DEF TenantGroupRoutes, GroupOps
  <2>2. \A route \in Entries(TenantGroupRoutes) : route.pattern[1] = "tenants"
    BY DEF TenantGroupRoutes
  <2> QED
    <3>1. \A op \in GroupOps : op \notin Filed \union CommandOps \union {"Tenant.findAll", "Tenant.create"}
      BY DEF Filed, GroupOps, DecisionOps, CommandOps
    <3> QED
      BY <2>1, <2>2, <3>1 DEF Sound
<1>5. \A route \in Entries(SingleSignOnRoutes) \union Entries(PermissionsRoutes) : Sound(route)
  BY DEF SingleSignOnRoutes, PermissionsRoutes, Sound, Guarded, Filed, Bound, GroupOps, InvitationOps, CommandOps, DecisionOps
<1>6. \A route \in Entries(AccessRequestRoutes) : Sound(route)
  <2>1. \A route \in Entries(AccessRequestRoutes) :
          /\ route.op \in {"AccessRequest.create", "AccessRequest.listMine", "AccessRequest.listPending"} \union DecisionOps
          /\ Len(route.pattern) \in 2..4 /\ route.pattern[1] = "permissions"
          /\ route.op \in {"AccessRequest.create"} \union DecisionOps => route.method = "POST"
    BY DEF AccessRequestRoutes, DecisionOps
  <2> QED
    BY <2>1 DEF Sound, Filed, Bound, GroupOps, InvitationOps, DecisionOps, CommandOps
<1>7. \A route \in Entries(AccessAdministrationRoutes) : Sound(route)
  <2>1. \A route \in Entries(AccessAdministrationRoutes) :
          /\ route.op \in {"AccessAdministration.list"} \union CommandOps
          /\ route.op \in CommandOps => route.method \in {"PUT", "DELETE"}
    BY DEF AccessAdministrationRoutes, RoleRoute, CommandOps
  <2>2. \A route \in Entries(AccessAdministrationRoutes) :
          Len(route.pattern) \in {3, 7} /\ route.pattern[1] = "tenants"
    BY DEF AccessAdministrationRoutes, RoleRoute
  <2> QED
    <3>1. \A op \in {"AccessAdministration.list"} \union CommandOps : op \notin Filed \union {"Tenant.findAll", "Tenant.create"}
      BY DEF Filed, DecisionOps, CommandOps
    <3>2. "AccessAdministration.list" \notin CommandOps
      BY DEF CommandOps
    <3> QED
      BY <2>1, <2>2, <3>1, <3>2 DEF Sound
<1>8. \A route \in Entries(BimiRoutes) : Sound(route)
  BY DEF BimiRoutes, Sound, Guarded, Filed, Bound, GroupOps, InvitationOps, CommandOps, DecisionOps
<1> QED
  BY <1>1, <1>2, <1>3, <1>4, <1>5, <1>6, <1>7, <1>8 DEF Tables

-----------------------------------------------------------------------------
(* No two routes take the same request                                     *)

Kind(route, op, method, n) == route.op = op /\ route.method = method /\ Len(route.pattern) = n

LEMMA OtherRoutesAre ==
  \A v \in Entries(HealthRoutes) \union Entries(ChangelogRoutes) \union Entries(SingleSignOnRoutes) \union Entries(BimiRoutes) :
    \/ Kind(v, "Health.check", "GET", 1) /\ v.pattern[1] = "health"
    \/ Kind(v, "Health.checkDatabase", "GET", 2) /\ v.pattern[1] = "health"
    \/ Kind(v, "Changelog.getChangelog", "GET", 1) /\ v.pattern[1] = "changelog"
    \/ Kind(v, "SingleSignOn.me", "GET", 2) /\ v.pattern[1] = "api"
    \/ Kind(v, "Bimi.logo", "GET", 2) /\ v.pattern[1] = "bimi"
BY DEF Entries, HealthRoutes, ChangelogRoutes, SingleSignOnRoutes, BimiRoutes, Route, Kind

LEMMA TenantRoutesAre ==
  \A v \in Entries(TenantRoutes) :
    /\ v.pattern[1] = "tenants"
    /\ \/ Kind(v, "Tenant.findAll", "GET", 1) \/ Kind(v, "Tenant.create", "POST", 1)
       \/ Kind(v, "Tenant.createSelfService", "POST", 2) /\ v.pattern[2] # Param
       \/ Kind(v, "Tenant.findOne", "GET", 2) \/ Kind(v, "Tenant.update", "PATCH", 2)
BY DEF Entries, TenantRoutes, Route, Kind, Param

LEMMA InvitationRoutesAre ==
  \A v \in Entries(TenantInvitationRoutes) :
    /\ v.pattern[1] = "tenants" /\ v.pattern[3] = "invitations"
    /\ \/ Kind(v, "TenantInvitation.create", "POST", 3) \/ Kind(v, "TenantInvitation.findAll", "GET", 3)
       \/ Kind(v, "TenantInvitation.revoke", "DELETE", 4)
BY DEF Entries, TenantInvitationRoutes, Route, Kind, Param

LEMMA GroupRoutesAre ==
  \A v \in Entries(TenantGroupRoutes) :
    /\ v.pattern[1] = "tenants" /\ v.pattern[3] = "groups"
    /\ \/ Kind(v, "TenantGroup.list", "GET", 3) \/ Kind(v, "TenantGroup.create", "POST", 3)
       \/ Kind(v, "TenantGroup.update", "PATCH", 4) \/ Kind(v, "TenantGroup.remove", "DELETE", 4)
       \/ Kind(v, "TenantGroup.listMembers", "GET", 5)
       \/ Kind(v, "TenantGroup.addMember", "POST", 5) /\ v.pattern[5] = "members"
       \/ Kind(v, "TenantGroup.removeMember", "DELETE", 6)
BY DEF Entries, TenantGroupRoutes, Route, Kind, Param

LEMMA PermissionRoutesAre ==
  \A v \in Entries(PermissionsRoutes) \union Entries(AccessRequestRoutes) :
    /\ v.pattern[1] = "permissions"
    /\ \/ Kind(v, "Permissions.check", "POST", 2) /\ v.pattern[2] = "check"
       \/ Kind(v, "Permissions.health", "GET", 2)
       \/ Kind(v, "AccessRequest.create", "POST", 2) /\ v.pattern[2] = "access-requests"
       \/ Kind(v, "AccessRequest.listMine", "GET", 3) /\ v.pattern[3] = "mine"
       \/ Kind(v, "AccessRequest.listPending", "GET", 3) /\ v.pattern[3] = "pending"
       \/ Kind(v, "AccessRequest.approve", "POST", 4) /\ v.pattern[4] = "approve"
       \/ Kind(v, "AccessRequest.deny", "POST", 4) /\ v.pattern[4] = "deny"
BY DEF Entries, PermissionsRoutes, AccessRequestRoutes, Route, Kind, Param

LEMMA AdministrationRoutesAre ==
  \A v \in Entries(AccessAdministrationRoutes) :
    /\ v.pattern[1] = "tenants" /\ v.pattern[3] = "access-administration"
    /\ \/ Kind(v, "AccessAdministration.list", "GET", 3)
       \/ Kind(v, "AccessAdministration.assignUser", "PUT", 7) /\ v.pattern[4] = "users"
       \/ Kind(v, "AccessAdministration.revokeUser", "DELETE", 7) /\ v.pattern[4] = "users"
       \/ Kind(v, "AccessAdministration.assignGroup", "PUT", 7) /\ v.pattern[4] = "groups"
       \/ Kind(v, "AccessAdministration.revokeGroup", "DELETE", 7) /\ v.pattern[4] = "groups"
BY DEF Entries, AccessAdministrationRoutes, RoleRoute, Route, Kind, Param

(* Where a route begins tells its table.                                   *)
LEMMA TableIs ==
  ASSUME NEW v \in Tables
  PROVE  \/ v \in Entries(HealthRoutes) \union Entries(ChangelogRoutes) \union Entries(SingleSignOnRoutes) \union Entries(BimiRoutes)
         \/ v \in Entries(TenantRoutes) \/ v \in Entries(TenantInvitationRoutes) \/ v \in Entries(TenantGroupRoutes)
         \/ v \in Entries(PermissionsRoutes) \union Entries(AccessRequestRoutes) \/ v \in Entries(AccessAdministrationRoutes)
BY DEF Tables

Takes(pattern, path) == \A i \in 1..Len(pattern) : pattern[i] \in {Param, path[i]}

(* The kind of a group's route tells its operation.                        *)
LEMMA KindIs ==
  ASSUME NEW u, NEW op, NEW method, NEW n, Kind(u, op, method, n)
  PROVE  u.op = op /\ u.method = method /\ Len(u.pattern) = n
BY DEF Kind

LEMMA GroupOfKind ==
  ASSUME NEW v \in Entries(TenantGroupRoutes), NEW w \in Entries(TenantGroupRoutes),
         v.method = w.method, Len(v.pattern) = Len(w.pattern)
  PROVE  v.op = w.op
<1> DEFINE Operations(n, method) ==
             IF n = 3 THEN IF method = "GET" THEN "TenantGroup.list" ELSE "TenantGroup.create"
             ELSE IF n = 4 THEN IF method = "PATCH" THEN "TenantGroup.update" ELSE "TenantGroup.remove"
             ELSE IF n = 5 THEN IF method = "GET" THEN "TenantGroup.listMembers" ELSE "TenantGroup.addMember"
             ELSE "TenantGroup.removeMember"
<1>1. ASSUME NEW u \in Entries(TenantGroupRoutes) PROVE u.op = Operations(Len(u.pattern), u.method)
  <2>1. \A op, method, n : Kind(u, op, method, n) => Operations(Len(u.pattern), u.method) = Operations(n, method) /\ u.op = op
    <3> HIDE DEF Operations
    <3> QED
      BY KindIs
  <2>2. /\ Operations(3, "GET") = "TenantGroup.list" /\ Operations(3, "POST") = "TenantGroup.create"
        /\ Operations(4, "PATCH") = "TenantGroup.update" /\ Operations(4, "DELETE") = "TenantGroup.remove"
        /\ Operations(5, "GET") = "TenantGroup.listMembers" /\ Operations(5, "POST") = "TenantGroup.addMember"
        /\ Operations(6, "DELETE") = "TenantGroup.removeMember"
    OBVIOUS
  <2> HIDE DEF Operations
  <2> QED
    BY <2>1, <2>2, GroupRoutesAre, ZenonT(60)
<1> HIDE DEF Operations
<1> QED
  BY <1>1, Zenon

LEMMA OneRoute ==
  ASSUME NEW v \in Tables, NEW w \in Tables, NEW path, Takes(v.pattern, path), Takes(w.pattern, path),
         v.method = w.method, Len(v.pattern) = Len(w.pattern)
  PROVE  v.op = w.op
<1> DEFINE Starts(u, first) == Len(u.pattern) >= 1 /\ u.pattern[1] = first
           Goes(u, third) == Starts(u, "tenants") /\ Len(u.pattern) \in 3..7 /\ u.pattern[3] = third
<1>1. \A u \in Entries(HealthRoutes) \union Entries(ChangelogRoutes) \union Entries(SingleSignOnRoutes) \union Entries(BimiRoutes) :
        Len(u.pattern) \in 1..2 /\ u.pattern[1] \in {"health", "changelog", "api", "bimi"}
  BY OtherRoutesAre DEF Kind
<1>2. \A u \in Entries(TenantRoutes) : Starts(u, "tenants") /\ Len(u.pattern) \in 1..2
  BY TenantRoutesAre DEF Kind
<1>3. \A u \in Entries(TenantInvitationRoutes) : Goes(u, "invitations")
  BY InvitationRoutesAre DEF Kind
<1>4. \A u \in Entries(TenantGroupRoutes) : Goes(u, "groups")
  BY GroupRoutesAre DEF Kind
<1>5. \A u \in Entries(AccessAdministrationRoutes) : Goes(u, "access-administration")
  BY AdministrationRoutesAre DEF Kind
<1>6. \A u \in Entries(PermissionsRoutes) \union Entries(AccessRequestRoutes) : Starts(u, "permissions") /\ Len(u.pattern) \in 2..4
  BY PermissionRoutesAre DEF Kind
<1>7. \A i \in 1..Len(v.pattern) : v.pattern[i] # Param /\ w.pattern[i] # Param => v.pattern[i] = w.pattern[i]
  BY DEF Takes
<1>8. CASE v \in Entries(HealthRoutes) \union Entries(ChangelogRoutes) \union Entries(SingleSignOnRoutes) \union Entries(BimiRoutes)
  <2>1. w.pattern[1] = v.pattern[1] /\ w.pattern[1] \notin {"tenants", "permissions"}
    BY <1>1, <1>2, <1>3, <1>4, <1>5, <1>6, <1>7, <1>8, TableIs DEF Param
  <2>2. w \in Entries(HealthRoutes) \union Entries(ChangelogRoutes) \union Entries(SingleSignOnRoutes) \union Entries(BimiRoutes)
    BY <1>2, <1>3, <1>4, <1>5, <1>6, <2>1, TableIs
  <2> QED
    BY <1>8, <2>1, <2>2, OtherRoutesAre DEF Kind
<1>9. CASE v \in Entries(PermissionsRoutes) \union Entries(AccessRequestRoutes)
  <2>1. w.pattern[1] = "permissions"
    BY <1>1, <1>2, <1>3, <1>4, <1>5, <1>6, <1>7, <1>9, TableIs DEF Param
  <2>2. w \in Entries(PermissionsRoutes) \union Entries(AccessRequestRoutes)
    BY <1>1, <1>2, <1>3, <1>4, <1>5, <2>1, TableIs
  <2>3. /\ Len(v.pattern) = 2 => v.pattern[2] = w.pattern[2] \/ v.method = "GET" \/ w.method = "GET"
        /\ Len(v.pattern) = 3 => v.pattern[3] = w.pattern[3]
        /\ Len(v.pattern) = 4 => v.pattern[4] = w.pattern[4]
    BY <1>7, <1>9, <2>2, PermissionRoutesAre DEF Kind, Param
  <2> QED
    BY <1>9, <2>2, <2>3, PermissionRoutesAre DEF Kind
<1>10. CASE v \in Entries(TenantRoutes)
  <2>1. w.pattern[1] = "tenants" /\ Len(w.pattern) \in 1..2
    BY <1>1, <1>2, <1>3, <1>4, <1>5, <1>6, <1>7, <1>10, TableIs DEF Param
  <2>2. w \in Entries(TenantRoutes)
    BY <1>1, <1>3, <1>4, <1>5, <1>6, <2>1, TableIs
  <2> QED
    BY <1>10, <2>2, TenantRoutesAre, SMTT(30) DEF Kind
<1>11. ASSUME NEW third \in {"invitations", "groups", "access-administration"}, Goes(v, third) PROVE Goes(w, third)
  <2>1. w.pattern[1] = "tenants" /\ Len(w.pattern) \in 3..7
    BY <1>1, <1>2, <1>3, <1>4, <1>5, <1>6, <1>7, <1>11, TableIs DEF Param
  <2>2. w.pattern[3] \in {"invitations", "groups", "access-administration"}
    BY <1>1, <1>2, <1>3, <1>4, <1>5, <1>6, <2>1, TableIs
  <2> QED
    BY <1>7, <1>11, <2>1, <2>2 DEF Param
<1>12. CASE v \in Entries(TenantInvitationRoutes)
  <2>1. Goes(w, "invitations")
    BY <1>3, <1>11, <1>12
  <2>2. w \in Entries(TenantInvitationRoutes)
    BY <1>1, <1>2, <1>4, <1>5, <1>6, <2>1, TableIs
  <2> QED
    BY <1>12, <2>2, InvitationRoutesAre DEF Kind
<1>13. CASE v \in Entries(TenantGroupRoutes)
  <2>1. Goes(w, "groups")
    BY <1>4, <1>11, <1>13
  <2>2. w \in Entries(TenantGroupRoutes)
    BY <1>1, <1>2, <1>3, <1>5, <1>6, <2>1, TableIs
  <2> QED
    BY <1>13, <2>2, GroupOfKind
<1>14. CASE v \in Entries(AccessAdministrationRoutes)
  <2>1. Goes(w, "access-administration")
    BY <1>5, <1>11, <1>14
  <2>2. w \in Entries(AccessAdministrationRoutes)
    BY <1>1, <1>2, <1>3, <1>4, <1>6, <2>1, TableIs
  <2>3. Len(v.pattern) = 7 => v.pattern[4] = w.pattern[4]
    BY <1>7, <1>14, <2>2, AdministrationRoutesAre DEF Kind, Param
  <2> QED
    BY <1>14, <2>2, <2>3, AdministrationRoutesAre DEF Kind
<1> QED
  BY <1>8, <1>9, <1>10, <1>12, <1>13, <1>14, TableIs

(* A path that ends in a parameter and is cut short leads nowhere, unless  *)
(* it is read.                                                             *)
LEMMA NoShorterRoute ==
  ASSUME NEW v \in Tables, NEW w \in Tables, NEW path, Takes(v.pattern, path), Takes(w.pattern, path),
         v.method = w.method, w.method # "GET", w.pattern[Len(w.pattern)] \in {Param, Empty}
  PROVE  Len(v.pattern) # Len(w.pattern) - 1
<1>1. \/ Len(w.pattern) \in {2, 4} /\ w.method = "PATCH"
      \/ Len(w.pattern) \in {4, 6} /\ w.method = "DELETE"
      \/ Len(w.pattern) = 7 /\ w.method \in {"PUT", "DELETE"} /\ w.pattern[3] = "access-administration"
  <2>1. w \notin Entries(HealthRoutes) \union Entries(ChangelogRoutes) \union Entries(SingleSignOnRoutes) \union Entries(BimiRoutes)
    BY OtherRoutesAre DEF Kind
  <2>2. w \notin Entries(PermissionsRoutes) \union Entries(AccessRequestRoutes)
    BY PermissionRoutesAre DEF Kind, Param, Empty
  <2>3. CASE w \in Entries(TenantRoutes)
    <3>1. \A u \in Entries(TenantRoutes) : u.method = "POST" => u.pattern = <<"tenants">> \/ u.pattern = <<"tenants", "self-service">>
      BY DEF Entries, TenantRoutes, Route
    <3>2. ASSUME w.pattern = <<"tenants">> PROVE w.pattern[Len(w.pattern)] = "tenants"
      BY <3>2
    <3>3. ASSUME w.pattern = <<"tenants", "self-service">> PROVE w.pattern[Len(w.pattern)] = "self-service"
      BY <3>3
    <3>4. w.method # "POST"
      BY <2>3, <3>1, <3>2, <3>3 DEF Param, Empty
    <3> QED
      BY <2>3, <3>4, TenantRoutesAre DEF Kind
  <2>4. CASE w \in Entries(TenantInvitationRoutes)
    BY <2>4, InvitationRoutesAre DEF Kind, Param, Empty
  <2>5. CASE w \in Entries(TenantGroupRoutes)
    BY <2>5, GroupRoutesAre DEF Kind, Param, Empty
  <2>6. CASE w \in Entries(AccessAdministrationRoutes)
    BY <2>6, AdministrationRoutesAre DEF Kind, Param, Empty
  <2> QED
    BY <2>1, <2>2, <2>3, <2>4, <2>5, <2>6, TableIs
<1>2. /\ v.method = "PATCH" => Len(v.pattern) \in {2, 4}
      /\ v.method = "PUT" => Len(v.pattern) = 7
      /\ v.method = "DELETE" => Len(v.pattern) \in {4, 7} \/ (Len(v.pattern) = 6 /\ v.pattern[3] = "groups")
  <2>1. v \notin Entries(HealthRoutes) \union Entries(ChangelogRoutes) \union Entries(SingleSignOnRoutes) \union Entries(BimiRoutes)
    BY OtherRoutesAre DEF Kind
  <2>2. CASE v \in Entries(PermissionsRoutes) \union Entries(AccessRequestRoutes)
    BY <2>2, PermissionRoutesAre DEF Kind
  <2>3. CASE v \in Entries(TenantRoutes)
    BY <2>3, TenantRoutesAre DEF Kind
  <2>4. CASE v \in Entries(TenantInvitationRoutes)
    <3>1. v.method \in {"POST", "GET"} \/ (v.method = "DELETE" /\ Len(v.pattern) = 4)
      BY <2>4, InvitationRoutesAre DEF Kind
    <3> QED
      BY <3>1
  <2>5. CASE v \in Entries(TenantGroupRoutes)
    BY <2>5, GroupRoutesAre DEF Kind
  <2>6. CASE v \in Entries(AccessAdministrationRoutes)
    <3>1. v.method = "GET" \/ (v.method \in {"PUT", "DELETE"} /\ Len(v.pattern) = 7)
      BY <2>6, AdministrationRoutesAre DEF Kind
    <3> QED
      BY <3>1
  <2> QED
    BY <2>1, <2>2, <2>3, <2>4, <2>5, <2>6, TableIs
<1>3. ~(Len(v.pattern) = 6 /\ v.pattern[3] = "groups" /\ Len(w.pattern) = 7 /\ w.pattern[3] = "access-administration")
  BY DEF Takes, Param
<1>4. \A m, n \in {2, 4} : m # n - 1
  OBVIOUS
<1>5. \A m \in {4, 6, 7}, n \in {4, 6} : m # n - 1
  OBVIOUS
<1>6. \A m \in {4, 7}, n \in {7} : m # n - 1
  OBVIOUS
<1>7. CASE Len(w.pattern) \in {2, 4} /\ w.method = "PATCH"
  BY <1>2, <1>4, <1>7, Zenon
<1>8. CASE Len(w.pattern) \in {4, 6} /\ w.method = "DELETE"
  <2>1. Len(v.pattern) \in {4, 6, 7}
    BY <1>2, <1>8
  <2> QED
    BY <1>5, <1>8, <2>1, Zenon
<1>9. CASE Len(w.pattern) = 7 /\ w.method \in {"PUT", "DELETE"} /\ w.pattern[3] = "access-administration"
  <2>1. Len(v.pattern) \in {4, 7}
    BY <1>2, <1>3, <1>9
  <2> QED
    BY <1>6, <1>9, <2>1
<1> QED
  BY <1>1, <1>7, <1>8, <1>9

-----------------------------------------------------------------------------
(* The calls of the client                                                 *)

Part == Segment \union {"bimi", "logo.svg", "changelog", "health", "db", "api", "me", "permissions", "check",
                         "access-requests", "mine", "pending", "approve", "deny", "tenants", "self-service",
                         "invitations", "groups", "members", "access-administration", "users", "roles"}

(* A call has a path, and only what it reads has a place in the cache.     *)
SoundCall(call) ==
    /\ call.path \in Seq(Part)
    /\ call.key # <<>> => call.method = "GET" /\ call.success = 200 /\ call.key[1] = call.path

LEMMA ReadSound ==
  ASSUME NEW op, NEW path \in Seq(Part), NEW args, NEW filter
  PROVE  SoundCall(Read(op, path, args, filter))
BY DEF Read, SoundCall

LEMMA MutateSound ==
  ASSUME NEW op, NEW method, NEW path \in Seq(Part), NEW success
  PROVE  SoundCall(Mutate(op, method, path, success))
BY DEF Mutate, SoundCall

LEMMA CallsSound == \A call \in Calls : SoundCall(call)
<1> DEFINE Paths == Seq(Part)
<1>1. {"bimi", "logo.svg", "changelog", "health", "db", "api", "me", "permissions", "check", "access-requests",
       "mine", "pending", "approve", "deny", "tenants", "self-service", "invitations", "groups", "members",
       "access-administration", "users", "roles"} \subseteq Part
  BY DEF Part
<1>t. /\ \A a \in Part : <<a>> \in Paths
      /\ \A a, b \in Part : <<a, b>> \in Paths
      /\ \A a, b, c \in Part : <<a, b, c>> \in Paths
  OBVIOUS
<1>a. \A s, t \in Paths : s \o t \in Paths
  OBVIOUS
<1>i. Tenants \subseteq Paths /\ Items \subseteq Paths /\ RoleIds \subseteq Paths
  <2>1. Segment \subseteq Part
    BY DEF Part
  <2>2. \A id \in Seq(Segment) : id \in Paths
    BY <2>1
  <2> QED
    BY <2>2, IdentifierAssumption
<1> HIDE DEF Paths
<1>r. \A path \in Paths : \A op, args, filter : SoundCall(Read(op, path, args, filter))
  BY ReadSound DEF Paths
<1>m. \A path \in Paths : \A op, method, success : SoundCall(Mutate(op, method, path, success))
  BY MutateSound DEF Paths
<1>2. /\ SoundCall(bimiLogoControllerLogo) /\ SoundCall(changelogControllerGetChangelog)
      /\ SoundCall(healthControllerCheck) /\ SoundCall(healthControllerCheckDatabase) /\ SoundCall(singleSignOnControllerMe)
  <2>1. <<"bimi", "logo.svg">> \in Paths /\ <<"changelog">> \in Paths /\ <<"health">> \in Paths
        /\ <<"health", "db">> \in Paths /\ <<"api", "me">> \in Paths
    BY <1>1, <1>t
  <2> QED
    BY <2>1, <1>r
    DEF bimiLogoControllerLogo, changelogControllerGetChangelog, healthControllerCheck, healthControllerCheckDatabase, singleSignOnControllerMe
<1>3. /\ SoundCall(permissionsControllerCheck) /\ SoundCall(permissionsControllerHealth)
      /\ SoundCall(accessRequestControllerCreate) /\ SoundCall(accessRequestControllerListPending)
      /\ SoundCall(tenantControllerCreate) /\ SoundCall(tenantControllerCreateSelfService)
  <2>1. <<"permissions", "check">> \in Paths /\ <<"permissions", "health">> \in Paths
        /\ <<"permissions", "access-requests">> \in Paths /\ <<"permissions", "access-requests", "pending">> \in Paths
        /\ <<"tenants">> \in Paths /\ <<"tenants", "self-service">> \in Paths
    BY <1>1, <1>t
  <2> QED
    BY <2>1, <1>r, <1>m
    DEF permissionsControllerCheck, permissionsControllerHealth, accessRequestControllerCreate, accessRequestControllerListPending,
        tenantControllerCreate, tenantControllerCreateSelfService
<1>4. \A f \in Filters : SoundCall(accessRequestControllerListMine(f)) /\ SoundCall(tenantControllerFindAll(f))
  <2>1. <<"permissions", "access-requests", "mine">> \in Paths /\ <<"tenants">> \in Paths
    BY <1>1, <1>t
  <2> QED
    BY <2>1, <1>r DEF accessRequestControllerListMine, tenantControllerFindAll
<1>5. \A i \in Items : SoundCall(accessRequestControllerApprove(i)) /\ SoundCall(accessRequestControllerDeny(i))
  <2>1. \A i \in Items, word \in {"approve", "deny"} : <<"permissions", "access-requests">> \o i \o <<word>> \in Paths
    BY <1>1, <1>t, <1>a, <1>i
  <2> QED
    BY <2>1, <1>m DEF accessRequestControllerApprove, accessRequestControllerDeny
<1>6. \A t \in Tenants : SoundCall(tenantControllerFindOne(t)) /\ SoundCall(tenantControllerUpdate(t))
  <2>1. \A t \in Tenants : <<"tenants">> \o t \in Paths
    BY <1>1, <1>t, <1>a, <1>i
  <2> QED
    BY <2>1, <1>r, <1>m DEF tenantControllerFindOne, tenantControllerUpdate
<1>7. \A t \in Tenants : invitations(t) \in Paths /\ groups(t) \in Paths /\ administration(t) \in Paths
  <2>1. \A t \in Tenants, word \in {"invitations", "groups", "access-administration"} : <<"tenants">> \o t \o <<word>> \in Paths
    <3>1. \A t \in Tenants : <<"tenants">> \o t \in Paths
      BY <1>1, <1>t, <1>a, <1>i
    <3>2. \A word \in {"invitations", "groups", "access-administration"} : <<word>> \in Paths
      BY <1>1, <1>t
    <3> QED
      BY <3>1, <3>2, <1>a
  <2> QED
    BY <2>1 DEF invitations, groups, administration
<1>8. \A t \in Tenants, i \in Items : members(t, i) \in Paths
  BY <1>1, <1>7, <1>t, <1>a, <1>i DEF members
<1>9. \A t \in Tenants : /\ SoundCall(tenantInvitationControllerCreate(t)) /\ SoundCall(tenantInvitationControllerFindAll(t))
                         /\ SoundCall(tenantGroupControllerList(t)) /\ SoundCall(tenantGroupControllerCreate(t))
  BY <1>7, <1>r, <1>m
  DEF tenantInvitationControllerCreate, tenantInvitationControllerFindAll, tenantGroupControllerList, tenantGroupControllerCreate
<1>10. \A t \in Tenants, f \in Filters : SoundCall(accessAdministrationControllerList(t, f))
  BY <1>7, <1>r DEF accessAdministrationControllerList
<1>11. \A t \in Tenants, i \in Items : /\ SoundCall(tenantInvitationControllerRevoke(t, i)) /\ SoundCall(tenantGroupControllerUpdate(t, i))
                                       /\ SoundCall(tenantGroupControllerRemove(t, i))
  BY <1>7, <1>a, <1>i, <1>m, ZenonT(60) DEF tenantInvitationControllerRevoke, tenantGroupControllerUpdate, tenantGroupControllerRemove
<1>12. \A t \in Tenants, i \in Items : SoundCall(tenantGroupControllerListMembers(t, i)) /\ SoundCall(tenantGroupControllerAddMember(t, i))
  BY <1>8, <1>r, <1>m DEF tenantGroupControllerListMembers, tenantGroupControllerAddMember
<1>13. \A t \in Tenants, g \in Items, u \in Items : SoundCall(tenantGroupControllerRemoveMember(t, g, u))
  BY <1>8, <1>a, <1>i, <1>m DEF tenantGroupControllerRemoveMember
<1>14. \A t \in Tenants, i \in Items, r \in RoleIds, kind \in {"users", "groups"} :
         administration(t) \o <<kind>> \o i \o <<"roles">> \o r \in Paths
  <2> TAKE t \in Tenants, i \in Items, r \in RoleIds, kind \in {"users", "groups"}
  <2>1. <<kind>> \in Paths /\ <<"roles">> \in Paths
    BY <1>1, <1>t
  <2>2. administration(t) \o <<kind>> \in Paths
    BY <2>1, <1>7, <1>a
  <2>3. administration(t) \o <<kind>> \o i \in Paths
    BY <2>2, <1>a, <1>i
  <2>4. administration(t) \o <<kind>> \o i \o <<"roles">> \in Paths
    BY <2>1, <2>3, <1>a
  <2> QED
    BY <2>4, <1>a, <1>i
<1>15. \A t \in Tenants, i \in Items, r \in RoleIds :
         /\ SoundCall(accessAdministrationControllerAssignUser(t, i, r)) /\ SoundCall(accessAdministrationControllerRevokeUser(t, i, r))
         /\ SoundCall(accessAdministrationControllerAssignGroup(t, i, r)) /\ SoundCall(accessAdministrationControllerRevokeGroup(t, i, r))
  BY <1>14, <1>m, ZenonT(60)
  DEF accessAdministrationControllerAssignUser, accessAdministrationControllerRevokeUser,
      accessAdministrationControllerAssignGroup, accessAdministrationControllerRevokeGroup
<1>16. \A call \in PlainCalls : SoundCall(call)
  BY <1>2, <1>3 DEF PlainCalls
<1>17. \A call \in ListCalls : SoundCall(call)
  BY <1>4 DEF ListCalls
<1>18. \A call \in DecisionCalls(Items) : SoundCall(call)
  BY <1>5 DEF DecisionCalls
<1>19. \A call \in TenantCalls(Tenants) : SoundCall(call)
  BY <1>6, <1>9 DEF TenantCalls
<1>20. \A call \in ItemCalls(Tenants, Items) : SoundCall(call)
  BY <1>11, <1>12 DEF ItemCalls
<1>21. \A call \in AccessCalls(Tenants) \union MemberCalls(Tenants, Items) : SoundCall(call)
  BY <1>10, <1>13 DEF AccessCalls, MemberCalls
<1>22. \A call \in RoleCalls(Tenants, Items, RoleIds) : SoundCall(call)
  BY <1>15 DEF RoleCalls
<1> QED
  BY <1>16, <1>17, <1>18, <1>19, <1>20, <1>21, <1>22 DEF Calls, CallsWith

-----------------------------------------------------------------------------
(* Every call has a route                                                  *)

Covers(pattern, path) == Len(path) = Len(pattern) /\ Takes(pattern, path)
Filled(path) == \A i \in DOMAIN path : path[i] # Empty

(* A call is covered by the route it was generated from, and succeeds with *)
(* the status its type declares; a read that is enabled fills its path.    *)
Fits(call) ==
    /\ \E w \in Tables : w.op = call.op /\ w.method = call.method /\ Covers(w.pattern, call.path)
    /\ call.enabled /\ call.method = "GET" => Filled(call.path)
    /\ call.method # "GET" => call.key = <<>>
    /\ SuccessOf(call.op, call.method) = call.success

LEMMA ReadFits ==
  ASSUME NEW op, NEW pattern, NEW roles, Route(op, "GET", pattern, roles) \in Tables,
         op \notin {"TenantGroup.remove", "TenantGroup.removeMember", "TenantInvitation.revoke"},
         NEW path, Covers(pattern, path), NEW args, Blank \notin args => Filled(path), NEW filter
  PROVE  Fits(Read(op, path, args, filter))
BY DEF Fits, Read, SuccessOf, Route

LEMMA MutateFits ==
  ASSUME NEW op, NEW method, NEW pattern, NEW roles, Route(op, method, pattern, roles) \in Tables, method # "GET",
         NEW path, Covers(pattern, path), NEW status, SuccessOf(op, method) = status
  PROVE  Fits(Mutate(op, method, path, status))
BY DEF Fits, Mutate, Route

(* Paths and patterns of one length agree segment by segment.              *)
LEMMA OneSegments ==
  ASSUME NEW p1, NEW a1, p1 \in {Param, a1}
  PROVE  /\ Covers(<<p1>>, <<a1>>)
         /\ Empty \notin {a1} => Filled(<<a1>>)
<1>1. PICK pattern, path : pattern = <<p1>> /\ path = <<a1>>
  OBVIOUS
<1>2. /\ Len(pattern) = 1 /\ Len(path) = 1 /\ DOMAIN path = 1..1 /\ 1..1 = {1}
      /\ pattern[1] \in {Param, path[1]}
      /\ Empty \notin {a1} => Empty \notin {path[1]}
  BY <1>1
<1>3. Takes(pattern, path) /\ (Empty \notin {a1} => Filled(path))
  BY <1>2 DEF Takes, Filled
<1> QED
  BY <1>1, <1>2, <1>3 DEF Covers

LEMMA TwoSegments ==
  ASSUME NEW p1, NEW p2, NEW a1, NEW a2, p1 \in {Param, a1} /\ p2 \in {Param, a2}
  PROVE  /\ Covers(<<p1, p2>>, <<a1, a2>>)
         /\ Empty \notin {a1, a2} => Filled(<<a1, a2>>)
<1>1. PICK pattern, path : pattern = <<p1, p2>> /\ path = <<a1, a2>>
  OBVIOUS
<1>2. /\ Len(pattern) = 2 /\ Len(path) = 2 /\ DOMAIN path = 1..2 /\ 1..2 = {1, 2}
      /\ pattern[1] \in {Param, path[1]} /\ pattern[2] \in {Param, path[2]}
      /\ Empty \notin {a1, a2} => Empty \notin {path[1], path[2]}
  BY <1>1
<1>3. Takes(pattern, path) /\ (Empty \notin {a1, a2} => Filled(path))
  BY <1>2 DEF Takes, Filled
<1> QED
  BY <1>1, <1>2, <1>3 DEF Covers

LEMMA ThreeSegments ==
  ASSUME NEW p1, NEW p2, NEW p3, NEW a1, NEW a2, NEW a3, p1 \in {Param, a1} /\ p2 \in {Param, a2} /\ p3 \in {Param, a3}
  PROVE  /\ Covers(<<p1, p2, p3>>, <<a1, a2, a3>>)
         /\ Empty \notin {a1, a2, a3} => Filled(<<a1, a2, a3>>)
<1>1. PICK pattern, path : pattern = <<p1, p2, p3>> /\ path = <<a1, a2, a3>>
  OBVIOUS
<1>2. /\ Len(pattern) = 3 /\ Len(path) = 3 /\ DOMAIN path = 1..3 /\ 1..3 = {1, 2, 3}
      /\ pattern[1] \in {Param, path[1]} /\ pattern[2] \in {Param, path[2]} /\ pattern[3] \in {Param, path[3]}
      /\ Empty \notin {a1, a2, a3} => Empty \notin {path[1], path[2], path[3]}
  BY <1>1
<1>3. Takes(pattern, path) /\ (Empty \notin {a1, a2, a3} => Filled(path))
  BY <1>2 DEF Takes, Filled
<1> QED
  BY <1>1, <1>2, <1>3 DEF Covers

LEMMA FourSegments ==
  ASSUME NEW p1, NEW p2, NEW p3, NEW p4, NEW a1, NEW a2, NEW a3, NEW a4, p1 \in {Param, a1} /\ p2 \in {Param, a2} /\ p3 \in {Param, a3} /\ p4 \in {Param, a4}
  PROVE  /\ Covers(<<p1, p2, p3, p4>>, <<a1, a2, a3, a4>>)
         /\ Empty \notin {a1, a2, a3, a4} => Filled(<<a1, a2, a3, a4>>)
<1>1. PICK pattern, path : pattern = <<p1, p2, p3, p4>> /\ path = <<a1, a2, a3, a4>>
  OBVIOUS
<1>2. /\ Len(pattern) = 4 /\ Len(path) = 4 /\ DOMAIN path = 1..4 /\ 1..4 = {1, 2, 3, 4}
      /\ pattern[1] \in {Param, path[1]} /\ pattern[2] \in {Param, path[2]} /\ pattern[3] \in {Param, path[3]} /\ pattern[4] \in {Param, path[4]}
      /\ Empty \notin {a1, a2, a3, a4} => Empty \notin {path[1], path[2], path[3], path[4]}
  BY <1>1
<1>3. Takes(pattern, path) /\ (Empty \notin {a1, a2, a3, a4} => Filled(path))
  BY <1>2 DEF Takes, Filled
<1> QED
  BY <1>1, <1>2, <1>3 DEF Covers

LEMMA FiveSegments ==
  ASSUME NEW p1, NEW p2, NEW p3, NEW p4, NEW p5, NEW a1, NEW a2, NEW a3, NEW a4, NEW a5, p1 \in {Param, a1} /\ p2 \in {Param, a2} /\ p3 \in {Param, a3} /\ p4 \in {Param, a4} /\ p5 \in {Param, a5}
  PROVE  /\ Covers(<<p1, p2, p3, p4, p5>>, <<a1, a2, a3, a4, a5>>)
         /\ Empty \notin {a1, a2, a3, a4, a5} => Filled(<<a1, a2, a3, a4, a5>>)
<1>1. PICK pattern, path : pattern = <<p1, p2, p3, p4, p5>> /\ path = <<a1, a2, a3, a4, a5>>
  OBVIOUS
<1>2. /\ Len(pattern) = 5 /\ Len(path) = 5 /\ DOMAIN path = 1..5 /\ 1..5 = {1, 2, 3, 4, 5}
      /\ pattern[1] \in {Param, path[1]} /\ pattern[2] \in {Param, path[2]} /\ pattern[3] \in {Param, path[3]} /\ pattern[4] \in {Param, path[4]} /\ pattern[5] \in {Param, path[5]}
      /\ Empty \notin {a1, a2, a3, a4, a5} => Empty \notin {path[1], path[2], path[3], path[4], path[5]}
  BY <1>1
<1>3. Takes(pattern, path) /\ (Empty \notin {a1, a2, a3, a4, a5} => Filled(path))
  BY <1>2 DEF Takes, Filled
<1> QED
  BY <1>1, <1>2, <1>3 DEF Covers

LEMMA SixSegments ==
  ASSUME NEW p1, NEW p2, NEW p3, NEW p4, NEW p5, NEW p6, NEW a1, NEW a2, NEW a3, NEW a4, NEW a5, NEW a6, p1 \in {Param, a1} /\ p2 \in {Param, a2} /\ p3 \in {Param, a3} /\ p4 \in {Param, a4} /\ p5 \in {Param, a5} /\ p6 \in {Param, a6}
  PROVE  /\ Covers(<<p1, p2, p3, p4, p5, p6>>, <<a1, a2, a3, a4, a5, a6>>)
         /\ Empty \notin {a1, a2, a3, a4, a5, a6} => Filled(<<a1, a2, a3, a4, a5, a6>>)
<1>1. PICK pattern, path : pattern = <<p1, p2, p3, p4, p5, p6>> /\ path = <<a1, a2, a3, a4, a5, a6>>
  OBVIOUS
<1>2. /\ Len(pattern) = 6 /\ Len(path) = 6 /\ DOMAIN path = 1..6 /\ 1..6 = {1, 2, 3, 4, 5, 6}
      /\ pattern[1] \in {Param, path[1]} /\ pattern[2] \in {Param, path[2]} /\ pattern[3] \in {Param, path[3]} /\ pattern[4] \in {Param, path[4]} /\ pattern[5] \in {Param, path[5]} /\ pattern[6] \in {Param, path[6]}
      /\ Empty \notin {a1, a2, a3, a4, a5, a6} => Empty \notin {path[1], path[2], path[3], path[4], path[5], path[6]}
  BY <1>1
<1>3. Takes(pattern, path) /\ (Empty \notin {a1, a2, a3, a4, a5, a6} => Filled(path))
  BY <1>2 DEF Takes, Filled
<1> QED
  BY <1>1, <1>2, <1>3 DEF Covers

LEMMA SevenSegments ==
  ASSUME NEW p1, NEW p2, NEW p3, NEW p4, NEW p5, NEW p6, NEW p7, NEW a1, NEW a2, NEW a3, NEW a4, NEW a5, NEW a6, NEW a7, p1 \in {Param, a1} /\ p2 \in {Param, a2} /\ p3 \in {Param, a3} /\ p4 \in {Param, a4} /\ p5 \in {Param, a5} /\ p6 \in {Param, a6} /\ p7 \in {Param, a7}
  PROVE  /\ Covers(<<p1, p2, p3, p4, p5, p6, p7>>, <<a1, a2, a3, a4, a5, a6, a7>>)
         /\ Empty \notin {a1, a2, a3, a4, a5, a6, a7} => Filled(<<a1, a2, a3, a4, a5, a6, a7>>)
<1>1. PICK pattern, path : pattern = <<p1, p2, p3, p4, p5, p6, p7>> /\ path = <<a1, a2, a3, a4, a5, a6, a7>>
  OBVIOUS
<1>2. /\ Len(pattern) = 7 /\ Len(path) = 7 /\ DOMAIN path = 1..7 /\ 1..7 = {1, 2, 3, 4, 5, 6, 7}
      /\ pattern[1] \in {Param, path[1]} /\ pattern[2] \in {Param, path[2]} /\ pattern[3] \in {Param, path[3]} /\ pattern[4] \in {Param, path[4]} /\ pattern[5] \in {Param, path[5]} /\ pattern[6] \in {Param, path[6]} /\ pattern[7] \in {Param, path[7]}
      /\ Empty \notin {a1, a2, a3, a4, a5, a6, a7} => Empty \notin {path[1], path[2], path[3], path[4], path[5], path[6], path[7]}
  BY <1>1
<1>3. Takes(pattern, path) /\ (Empty \notin {a1, a2, a3, a4, a5, a6, a7} => Filled(path))
  BY <1>2 DEF Takes, Filled
<1> QED
  BY <1>1, <1>2, <1>3 DEF Covers

LEMMA SameSequence ==
  ASSUME NEW S, NEW s \in Seq(S), NEW t \in Seq(S), Len(s) = Len(t), \A i \in 1..Len(s) : s[i] = t[i]
  PROVE  s = t
<1>1. s \in [1..Len(s) -> S] /\ t \in [1..Len(s) -> S]
  OBVIOUS
<1> QED
  BY <1>1

(* Longer paths are put together from shorter ones.                        *)
LEMMA AfterOne ==
  ASSUME NEW a, NEW b, NEW s, s = <<a>>
  PROVE  s \o <<b>> = <<a, b>>
<1>1. PICK t, u, x : x = s \o t /\ t = <<b>> /\ u = <<a, b>>
  OBVIOUS
<1>2. /\ s \in Seq({a, b}) /\ Len(s) = 1 /\ t \in Seq({a, b}) /\ Len(t) = 1
      /\ s[1] = u[1] /\ t[1] = u[2]
  BY <1>1
<1>3. x \in Seq({a, b}) /\ Len(x) = 2 /\ \A i \in 1..2 : x[i] = u[i]
  BY <1>1, <1>2
<1>4. u \in Seq({a, b}) /\ Len(u) = 2
  BY <1>1
<1>5. x = u
  BY <1>3, <1>4, SameSequence
<1>6. x = s \o <<b>> /\ u = <<a, b>>
  BY <1>1, Zenon
<1> QED
  BY <1>5, <1>6, Zenon

LEMMA AfterTwo ==
  ASSUME NEW a, NEW b, NEW c, NEW s, s = <<a, b>>
  PROVE  s \o <<c>> = <<a, b, c>>
<1>1. PICK t, u, x : x = s \o t /\ t = <<c>> /\ u = <<a, b, c>>
  OBVIOUS
<1>2. /\ s \in Seq({a, b, c}) /\ Len(s) = 2 /\ t \in Seq({a, b, c}) /\ Len(t) = 1
      /\ s[1] = u[1] /\ s[2] = u[2] /\ t[1] = u[3]
  BY <1>1
<1>3. x \in Seq({a, b, c}) /\ Len(x) = 3 /\ \A i \in 1..3 : x[i] = u[i]
  BY <1>1, <1>2
<1>4. u \in Seq({a, b, c}) /\ Len(u) = 3
  BY <1>1
<1>5. x = u
  BY <1>3, <1>4, SameSequence
<1>6. x = s \o <<c>> /\ u = <<a, b, c>>
  BY <1>1, Zenon
<1> QED
  BY <1>5, <1>6, Zenon

LEMMA AfterThree ==
  ASSUME NEW a, NEW b, NEW c, NEW d, NEW s, s = <<a, b, c>>
  PROVE  s \o <<d>> = <<a, b, c, d>>
<1>1. PICK t, u, x : x = s \o t /\ t = <<d>> /\ u = <<a, b, c, d>>
  OBVIOUS
<1>2. /\ s \in Seq({a, b, c, d}) /\ Len(s) = 3 /\ t \in Seq({a, b, c, d}) /\ Len(t) = 1
      /\ s[1] = u[1] /\ s[2] = u[2] /\ s[3] = u[3] /\ t[1] = u[4]
  BY <1>1
<1>3. x \in Seq({a, b, c, d}) /\ Len(x) = 4 /\ \A i \in 1..4 : x[i] = u[i]
  BY <1>1, <1>2
<1>4. u \in Seq({a, b, c, d}) /\ Len(u) = 4
  BY <1>1
<1>5. x = u
  BY <1>3, <1>4, SameSequence
<1>6. x = s \o <<d>> /\ u = <<a, b, c, d>>
  BY <1>1, Zenon
<1> QED
  BY <1>5, <1>6, Zenon

LEMMA AfterFour ==
  ASSUME NEW a, NEW b, NEW c, NEW d, NEW e, NEW s, s = <<a, b, c, d>>
  PROVE  s \o <<e>> = <<a, b, c, d, e>>
<1>1. PICK t, u, x : x = s \o t /\ t = <<e>> /\ u = <<a, b, c, d, e>>
  OBVIOUS
<1>2. /\ s \in Seq({a, b, c, d, e}) /\ Len(s) = 4 /\ t \in Seq({a, b, c, d, e}) /\ Len(t) = 1
      /\ s[1] = u[1] /\ s[2] = u[2] /\ s[3] = u[3] /\ s[4] = u[4] /\ t[1] = u[5]
  BY <1>1
<1>3. x \in Seq({a, b, c, d, e}) /\ Len(x) = 5 /\ \A i \in 1..5 : x[i] = u[i]
  BY <1>1, <1>2
<1>4. u \in Seq({a, b, c, d, e}) /\ Len(u) = 5
  BY <1>1
<1>5. x = u
  BY <1>3, <1>4, SameSequence
<1>6. x = s \o <<e>> /\ u = <<a, b, c, d, e>>
  BY <1>1, Zenon
<1> QED
  BY <1>5, <1>6, Zenon

LEMMA AfterFive ==
  ASSUME NEW a, NEW b, NEW c, NEW d, NEW e, NEW f
  PROVE  <<a, b, c, d, e>> \o <<f>> = <<a, b, c, d, e, f>>
<1>1. PICK s, t, u, x : x = s \o t /\ s = <<a, b, c, d, e>> /\ t = <<f>> /\ u = <<a, b, c, d, e, f>>
  OBVIOUS
<1>2. /\ s \in Seq({a, b, c, d, e, f}) /\ Len(s) = 5 /\ t \in Seq({a, b, c, d, e, f}) /\ Len(t) = 1
      /\ s[1] = u[1] /\ s[2] = u[2] /\ s[3] = u[3] /\ s[4] = u[4] /\ s[5] = u[5] /\ t[1] = u[6]
  BY <1>1
<1>3. x \in Seq({a, b, c, d, e, f}) /\ Len(x) = 6 /\ \A i \in 1..6 : x[i] = u[i]
  BY <1>1, <1>2
<1>4. u \in Seq({a, b, c, d, e, f}) /\ Len(u) = 6
  BY <1>1
<1>5. x = u
  BY <1>3, <1>4, SameSequence
<1>6. x = <<a, b, c, d, e>> \o <<f>> /\ u = <<a, b, c, d, e, f>>
  BY <1>1, Zenon
<1> QED
  BY <1>5, <1>6, Zenon

LEMMA AfterSix ==
  ASSUME NEW a, NEW b, NEW c, NEW d, NEW e, NEW f, NEW g
  PROVE  <<a, b, c, d, e, f>> \o <<g>> = <<a, b, c, d, e, f, g>>
<1>1. PICK s, t, u, x : x = s \o t /\ s = <<a, b, c, d, e, f>> /\ t = <<g>> /\ u = <<a, b, c, d, e, f, g>>
  OBVIOUS
<1>2. /\ s \in Seq({a, b, c, d, e, f, g}) /\ Len(s) = 6 /\ t \in Seq({a, b, c, d, e, f, g}) /\ Len(t) = 1
      /\ s[1] = u[1] /\ s[2] = u[2] /\ s[3] = u[3] /\ s[4] = u[4] /\ s[5] = u[5] /\ s[6] = u[6] /\ t[1] = u[7]
  BY <1>1
<1>3. x \in Seq({a, b, c, d, e, f, g}) /\ Len(x) = 7 /\ \A i \in 1..7 : x[i] = u[i]
  BY <1>1, <1>2
<1>4. u \in Seq({a, b, c, d, e, f, g}) /\ Len(u) = 7
  BY <1>1
<1>5. x = u
  BY <1>3, <1>4, SameSequence
<1>6. x = <<a, b, c, d, e, f>> \o <<g>> /\ u = <<a, b, c, d, e, f, g>>
  BY <1>1, Zenon
<1> QED
  BY <1>5, <1>6, Zenon

LEMMA InvitationPaths ==
  ASSUME NEW t, NEW i
  PROVE  /\ invitations(<<t>>) = <<"tenants", t, "invitations">>
         /\ invitations(<<t>>) \o <<i>> = <<"tenants", t, "invitations", i>>
<1>1. <<"tenants">> \o <<t>> = <<"tenants", t>>
  BY AfterOne, Zenon
<1>2. invitations(<<t>>) = <<"tenants", t, "invitations">>
  BY <1>1, AfterTwo, Zenon DEF invitations
<1> QED
  BY <1>2, AfterThree, Zenon

LEMMA GroupPaths ==
  ASSUME NEW t, NEW g, NEW u
  PROVE  /\ groups(<<t>>) = <<"tenants", t, "groups">> /\ groups(<<t>>) \o <<g>> = <<"tenants", t, "groups", g>>
         /\ members(<<t>>, <<g>>) = <<"tenants", t, "groups", g, "members">>
         /\ members(<<t>>, <<g>>) \o <<u>> = <<"tenants", t, "groups", g, "members", u>>
<1>1. <<"tenants">> \o <<t>> = <<"tenants", t>>
  BY AfterOne, Zenon
<1>2. groups(<<t>>) = <<"tenants", t, "groups">>
  BY <1>1, AfterTwo, Zenon DEF groups
<1>3. groups(<<t>>) \o <<g>> = <<"tenants", t, "groups", g>>
  BY <1>2, AfterThree, Zenon
<1>4. members(<<t>>, <<g>>) = <<"tenants", t, "groups", g, "members">>
  BY <1>3, AfterFour, ZenonT(60) DEF members
<1>5. members(<<t>>, <<g>>) \o <<u>> = <<"tenants", t, "groups", g, "members", u>>
  BY <1>4, AfterFive, Zenon
<1> QED
  BY <1>2, <1>3, <1>4, <1>5, Zenon

LEMMA RolePaths ==
  ASSUME NEW t, NEW i, NEW r
  PROVE  /\ administration(<<t>>) = <<"tenants", t, "access-administration">>
         /\ \A kind : administration(<<t>>) \o <<kind>> \o <<i>> \o <<"roles">> \o <<r>>
                       = <<"tenants", t, "access-administration", kind, i, "roles", r>>
<1>1. <<"tenants">> \o <<t>> = <<"tenants", t>>
  BY AfterOne, Zenon
<1>2. administration(<<t>>) = <<"tenants", t, "access-administration">>
  BY <1>1, AfterTwo, Zenon DEF administration
<1>3. ASSUME NEW kind
      PROVE  administration(<<t>>) \o <<kind>> \o <<i>> \o <<"roles">> \o <<r>>
             = <<"tenants", t, "access-administration", kind, i, "roles", r>>
  <2>1. administration(<<t>>) \o <<kind>> = <<"tenants", t, "access-administration", kind>>
    BY <1>2, AfterThree, Zenon
  <2>2. administration(<<t>>) \o <<kind>> \o <<i>> = <<"tenants", t, "access-administration", kind, i>>
    BY <2>1, AfterFour, ZenonT(60)
  <2>3. administration(<<t>>) \o <<kind>> \o <<i>> \o <<"roles">> = <<"tenants", t, "access-administration", kind, i, "roles">>
    BY <2>2, AfterFive, ZenonT(60)
  <2> QED
    BY <2>3, AfterSix, ZenonT(60)
<1> QED
  BY <1>2, <1>3

(* No segment of a path that is not an argument is empty.                  *)
LEMMA Literals ==
  Empty \notin {"health", "db", "changelog", "api", "me", "bimi", "logo.svg", "permissions", "access-requests", "mine", "pending",
                "tenants", "invitations", "groups", "members", "access-administration"}
BY DEF Empty

(* bimi, changelog, health, single-sign-on                                 *)
LEMMA OtherCallsFit ==
  /\ Fits(healthControllerCheck)
  /\ Fits(healthControllerCheckDatabase)
  /\ Fits(changelogControllerGetChangelog)
  /\ Fits(singleSignOnControllerMe)
  /\ Fits(bimiLogoControllerLogo)
<1>1. /\ Route("Health.check", "GET", <<"health">>, {}) \in Tables
      /\ Route("Health.checkDatabase", "GET", <<"health", "db">>, {}) \in Tables
      /\ Route("Changelog.getChangelog", "GET", <<"changelog">>, {}) \in Tables
      /\ Route("SingleSignOn.me", "GET", <<"api", "me">>, {}) \in Tables
      /\ Route("Bimi.logo", "GET", <<"bimi", "logo.svg">>, {}) \in Tables
  <2>1. /\ Route("Health.check", "GET", <<"health">>, {}) \in Entries(HealthRoutes)
        /\ Route("Health.checkDatabase", "GET", <<"health", "db">>, {}) \in Entries(HealthRoutes)
    BY DEF HealthRoutes, Entries
  <2>2. /\ Route("Changelog.getChangelog", "GET", <<"changelog">>, {}) \in Entries(ChangelogRoutes)
    BY DEF ChangelogRoutes, Entries
  <2>3. /\ Route("SingleSignOn.me", "GET", <<"api", "me">>, {}) \in Entries(SingleSignOnRoutes)
    BY DEF SingleSignOnRoutes, Entries
  <2>4. /\ Route("Bimi.logo", "GET", <<"bimi", "logo.svg">>, {}) \in Entries(BimiRoutes)
    BY DEF BimiRoutes, Entries
  <2> QED
    BY <2>1, <2>2, <2>3, <2>4 DEF Tables
<1>2. Fits(healthControllerCheck)
  <2>1. Covers(<<"health">>, <<"health">>) /\ (Blank \notin {} => Filled(<<"health">>))
    BY OneSegments, Literals DEF Blank
  <2> QED
    BY <1>1, <2>1, ReadFits DEF healthControllerCheck
<1>3. Fits(healthControllerCheckDatabase)
  <2>1. Covers(<<"health", "db">>, <<"health", "db">>) /\ (Blank \notin {} => Filled(<<"health", "db">>))
    BY TwoSegments, Literals DEF Blank
  <2> QED
    BY <1>1, <2>1, ReadFits DEF healthControllerCheckDatabase
<1>4. Fits(changelogControllerGetChangelog)
  <2>1. Covers(<<"changelog">>, <<"changelog">>) /\ (Blank \notin {} => Filled(<<"changelog">>))
    BY OneSegments, Literals DEF Blank
  <2> QED
    BY <1>1, <2>1, ReadFits DEF changelogControllerGetChangelog
<1>5. Fits(singleSignOnControllerMe)
  <2>1. Covers(<<"api", "me">>, <<"api", "me">>) /\ (Blank \notin {} => Filled(<<"api", "me">>))
    BY TwoSegments, Literals DEF Blank
  <2> QED
    BY <1>1, <2>1, ReadFits DEF singleSignOnControllerMe
<1>6. Fits(bimiLogoControllerLogo)
  <2>1. Covers(<<"bimi", "logo.svg">>, <<"bimi", "logo.svg">>) /\ (Blank \notin {} => Filled(<<"bimi", "logo.svg">>))
    BY TwoSegments, Literals DEF Blank
  <2> QED
    BY <1>1, <2>1, ReadFits DEF bimiLogoControllerLogo
<1> QED
  BY <1>2, <1>3, <1>4, <1>5, <1>6

(* permissions                                                             *)
LEMMA PermissionCallsFit ==
  ASSUME NEW i, NEW f
  PROVE  /\ Fits(permissionsControllerCheck)
         /\ Fits(permissionsControllerHealth)
         /\ Fits(accessRequestControllerCreate)
         /\ Fits(accessRequestControllerListMine(f))
         /\ Fits(accessRequestControllerListPending)
         /\ Fits(accessRequestControllerApprove(<<i>>))
         /\ Fits(accessRequestControllerDeny(<<i>>))
<1>1. /\ Route("Permissions.check", "POST", <<"permissions", "check">>, {}) \in Tables
      /\ Route("Permissions.health", "GET", <<"permissions", "health">>, {}) \in Tables
      /\ Route("AccessRequest.create", "POST", <<"permissions", "access-requests">>, {}) \in Tables
      /\ Route("AccessRequest.listMine", "GET", <<"permissions", "access-requests", "mine">>, {}) \in Tables
      /\ Route("AccessRequest.listPending", "GET", <<"permissions", "access-requests", "pending">>, {}) \in Tables
      /\ Route("AccessRequest.approve", "POST", <<"permissions", "access-requests", Param, "approve">>, {}) \in Tables
      /\ Route("AccessRequest.deny", "POST", <<"permissions", "access-requests", Param, "deny">>, {}) \in Tables
  <2>1. /\ Route("Permissions.check", "POST", <<"permissions", "check">>, {}) \in Entries(PermissionsRoutes)
        /\ Route("Permissions.health", "GET", <<"permissions", "health">>, {}) \in Entries(PermissionsRoutes)
    BY DEF PermissionsRoutes, Entries
  <2>2. /\ Route("AccessRequest.create", "POST", <<"permissions", "access-requests">>, {}) \in Entries(AccessRequestRoutes)
        /\ Route("AccessRequest.listMine", "GET", <<"permissions", "access-requests", "mine">>, {}) \in Entries(AccessRequestRoutes)
        /\ Route("AccessRequest.listPending", "GET", <<"permissions", "access-requests", "pending">>, {}) \in Entries(AccessRequestRoutes)
        /\ Route("AccessRequest.approve", "POST", <<"permissions", "access-requests", Param, "approve">>, {}) \in Entries(AccessRequestRoutes)
        /\ Route("AccessRequest.deny", "POST", <<"permissions", "access-requests", Param, "deny">>, {}) \in Entries(AccessRequestRoutes)
    BY DEF AccessRequestRoutes, Entries
  <2> QED
    BY <2>1, <2>2 DEF Tables
<1>2. Fits(permissionsControllerCheck)
  <2>1. Covers(<<"permissions", "check">>, <<"permissions", "check">>)
    BY TwoSegments
  <2> QED
    BY <1>1, <2>1, MutateFits DEF permissionsControllerCheck, SuccessOf, DecisionOps
<1>3. Fits(permissionsControllerHealth)
  <2>1. Covers(<<"permissions", "health">>, <<"permissions", "health">>) /\ (Blank \notin {} => Filled(<<"permissions", "health">>))
    BY TwoSegments, Literals DEF Blank
  <2> QED
    BY <1>1, <2>1, ReadFits DEF permissionsControllerHealth
<1>4. Fits(accessRequestControllerCreate)
  <2>1. Covers(<<"permissions", "access-requests">>, <<"permissions", "access-requests">>)
    BY TwoSegments
  <2> QED
    BY <1>1, <2>1, MutateFits DEF accessRequestControllerCreate, SuccessOf, DecisionOps
<1>5. Fits(accessRequestControllerListMine(f))
  <2>1. Covers(<<"permissions", "access-requests", "mine">>, <<"permissions", "access-requests", "mine">>) /\ (Blank \notin {} => Filled(<<"permissions", "access-requests", "mine">>))
    BY ThreeSegments, Literals DEF Blank
  <2> QED
    BY <1>1, <2>1, ReadFits DEF accessRequestControllerListMine
<1>6. Fits(accessRequestControllerListPending)
  <2>1. Covers(<<"permissions", "access-requests", "pending">>, <<"permissions", "access-requests", "pending">>) /\ (Blank \notin {} => Filled(<<"permissions", "access-requests", "pending">>))
    BY ThreeSegments, Literals DEF Blank
  <2> QED
    BY <1>1, <2>1, ReadFits DEF accessRequestControllerListPending
<1>7. Fits(accessRequestControllerApprove(<<i>>))
  <2>1. Covers(<<"permissions", "access-requests", Param, "approve">>, <<"permissions", "access-requests", i, "approve">>)
    BY FourSegments
  <2>2. <<"permissions", "access-requests">> \o <<i>> \o <<"approve">> = <<"permissions", "access-requests", i, "approve">>
    <3>1. <<"permissions", "access-requests">> \o <<i>> = <<"permissions", "access-requests", i>>
      BY AfterTwo
    <3> QED
      BY <3>1, AfterThree, Zenon
  <2> QED
    BY <1>1, <2>1, <2>2, MutateFits DEF accessRequestControllerApprove, SuccessOf, DecisionOps
<1>8. Fits(accessRequestControllerDeny(<<i>>))
  <2>1. Covers(<<"permissions", "access-requests", Param, "deny">>, <<"permissions", "access-requests", i, "deny">>)
    BY FourSegments
  <2>2. <<"permissions", "access-requests">> \o <<i>> \o <<"deny">> = <<"permissions", "access-requests", i, "deny">>
    <3>1. <<"permissions", "access-requests">> \o <<i>> = <<"permissions", "access-requests", i>>
      BY AfterTwo
    <3> QED
      BY <3>1, AfterThree, Zenon
  <2> QED
    BY <1>1, <2>1, <2>2, MutateFits DEF accessRequestControllerDeny, SuccessOf, DecisionOps
<1> QED
  BY <1>2, <1>3, <1>4, <1>5, <1>6, <1>7, <1>8

(* tenants                                                                 *)
LEMMA TenantCallsFit ==
  ASSUME NEW t, NEW f
  PROVE  /\ Fits(tenantControllerFindAll(f))
         /\ Fits(tenantControllerCreate)
         /\ Fits(tenantControllerCreateSelfService)
         /\ Fits(tenantControllerFindOne(<<t>>))
         /\ Fits(tenantControllerUpdate(<<t>>))
<1>1. /\ Route("Tenant.findAll", "GET", <<"tenants">>, {"support-agent"}) \in Tables
      /\ Route("Tenant.create", "POST", <<"tenants">>, {"support-agent", "tenant-admin"}) \in Tables
      /\ Route("Tenant.createSelfService", "POST", <<"tenants", "self-service">>, {}) \in Tables
      /\ Route("Tenant.findOne", "GET", <<"tenants", Param>>, {}) \in Tables
      /\ Route("Tenant.update", "PATCH", <<"tenants", Param>>, {}) \in Tables
  <2>1. /\ Route("Tenant.findAll", "GET", <<"tenants">>, {"support-agent"}) \in Entries(TenantRoutes)
        /\ Route("Tenant.create", "POST", <<"tenants">>, {"support-agent", "tenant-admin"}) \in Entries(TenantRoutes)
        /\ Route("Tenant.createSelfService", "POST", <<"tenants", "self-service">>, {}) \in Entries(TenantRoutes)
        /\ Route("Tenant.findOne", "GET", <<"tenants", Param>>, {}) \in Entries(TenantRoutes)
        /\ Route("Tenant.update", "PATCH", <<"tenants", Param>>, {}) \in Entries(TenantRoutes)
    BY DEF TenantRoutes, Entries
  <2> QED
    BY <2>1 DEF Tables
<1>2. Fits(tenantControllerFindAll(f))
  <2>1. Covers(<<"tenants">>, <<"tenants">>) /\ (Blank \notin {} => Filled(<<"tenants">>))
    BY OneSegments, Literals DEF Blank
  <2> QED
    BY <1>1, <2>1, ReadFits DEF tenantControllerFindAll
<1>3. Fits(tenantControllerCreate)
  <2>1. Covers(<<"tenants">>, <<"tenants">>)
    BY OneSegments
  <2> QED
    BY <1>1, <2>1, MutateFits DEF tenantControllerCreate, SuccessOf, DecisionOps
<1>4. Fits(tenantControllerCreateSelfService)
  <2>1. Covers(<<"tenants", "self-service">>, <<"tenants", "self-service">>)
    BY TwoSegments
  <2> QED
    BY <1>1, <2>1, MutateFits DEF tenantControllerCreateSelfService, SuccessOf, DecisionOps
<1>5. Fits(tenantControllerFindOne(<<t>>))
  <2>1. Covers(<<"tenants", Param>>, <<"tenants", t>>) /\ (Blank \notin {<<t>>} => Filled(<<"tenants", t>>))
    BY TwoSegments, Literals DEF Blank
  <2>2. <<"tenants">> \o <<t>> = <<"tenants", t>>
    BY AfterOne
  <2> QED
    BY <1>1, <2>1, <2>2, ReadFits DEF tenantControllerFindOne
<1>6. Fits(tenantControllerUpdate(<<t>>))
  <2>1. Covers(<<"tenants", Param>>, <<"tenants", t>>)
    BY TwoSegments
  <2>2. <<"tenants">> \o <<t>> = <<"tenants", t>>
    BY AfterOne
  <2> QED
    BY <1>1, <2>1, <2>2, MutateFits DEF tenantControllerUpdate, SuccessOf, DecisionOps
<1> QED
  BY <1>2, <1>3, <1>4, <1>5, <1>6

(* tenant-invitations                                                      *)
LEMMA InvitationCallsFit ==
  ASSUME NEW t, NEW i
  PROVE  /\ Fits(tenantInvitationControllerCreate(<<t>>))
         /\ Fits(tenantInvitationControllerFindAll(<<t>>))
         /\ Fits(tenantInvitationControllerRevoke(<<t>>, <<i>>))
<1>1. /\ Route("TenantInvitation.create", "POST", <<"tenants", Param, "invitations">>, {}) \in Tables
      /\ Route("TenantInvitation.findAll", "GET", <<"tenants", Param, "invitations">>, {}) \in Tables
      /\ Route("TenantInvitation.revoke", "DELETE", <<"tenants", Param, "invitations", Param>>, {}) \in Tables
  <2>1. /\ Route("TenantInvitation.create", "POST", <<"tenants", Param, "invitations">>, {}) \in Entries(TenantInvitationRoutes)
        /\ Route("TenantInvitation.findAll", "GET", <<"tenants", Param, "invitations">>, {}) \in Entries(TenantInvitationRoutes)
        /\ Route("TenantInvitation.revoke", "DELETE", <<"tenants", Param, "invitations", Param>>, {}) \in Entries(TenantInvitationRoutes)
    BY DEF TenantInvitationRoutes, Entries
  <2> QED
    BY <2>1 DEF Tables
<1>2. /\ invitations(<<t>>) = <<"tenants", t, "invitations">>
      /\ invitations(<<t>>) \o <<i>> = <<"tenants", t, "invitations", i>>
  BY InvitationPaths
<1>3. Fits(tenantInvitationControllerCreate(<<t>>))
  <2>1. Covers(<<"tenants", Param, "invitations">>, <<"tenants", t, "invitations">>)
    BY ThreeSegments
  <2> QED
    BY <1>1, <1>2, <2>1, MutateFits DEF tenantInvitationControllerCreate, SuccessOf, DecisionOps
<1>4. Fits(tenantInvitationControllerFindAll(<<t>>))
  <2>1. Covers(<<"tenants", Param, "invitations">>, <<"tenants", t, "invitations">>) /\ (Blank \notin {<<t>>} => Filled(<<"tenants", t, "invitations">>))
    BY ThreeSegments, Literals DEF Blank
  <2> QED
    BY <1>1, <1>2, <2>1, ReadFits DEF tenantInvitationControllerFindAll
<1>5. Fits(tenantInvitationControllerRevoke(<<t>>, <<i>>))
  <2>1. Covers(<<"tenants", Param, "invitations", Param>>, <<"tenants", t, "invitations", i>>)
    BY FourSegments
  <2> QED
    BY <1>1, <1>2, <2>1, MutateFits DEF tenantInvitationControllerRevoke, SuccessOf, DecisionOps
<1> QED
  BY <1>3, <1>4, <1>5

(* tenant-groups                                                           *)
LEMMA GroupCallsFit ==
  ASSUME NEW t, NEW g, NEW u
  PROVE  /\ Fits(tenantGroupControllerList(<<t>>))
         /\ Fits(tenantGroupControllerCreate(<<t>>))
         /\ Fits(tenantGroupControllerUpdate(<<t>>, <<g>>))
         /\ Fits(tenantGroupControllerRemove(<<t>>, <<g>>))
         /\ Fits(tenantGroupControllerListMembers(<<t>>, <<g>>))
         /\ Fits(tenantGroupControllerAddMember(<<t>>, <<g>>))
         /\ Fits(tenantGroupControllerRemoveMember(<<t>>, <<g>>, <<u>>))
<1>1. /\ Route("TenantGroup.list", "GET", <<"tenants", Param, "groups">>, {}) \in Tables
      /\ Route("TenantGroup.create", "POST", <<"tenants", Param, "groups">>, {}) \in Tables
      /\ Route("TenantGroup.update", "PATCH", <<"tenants", Param, "groups", Param>>, {}) \in Tables
      /\ Route("TenantGroup.remove", "DELETE", <<"tenants", Param, "groups", Param>>, {}) \in Tables
      /\ Route("TenantGroup.listMembers", "GET", <<"tenants", Param, "groups", Param, "members">>, {}) \in Tables
      /\ Route("TenantGroup.addMember", "POST", <<"tenants", Param, "groups", Param, "members">>, {}) \in Tables
      /\ Route("TenantGroup.removeMember", "DELETE", <<"tenants", Param, "groups", Param, "members", Param>>, {}) \in Tables
  <2>1. /\ Route("TenantGroup.list", "GET", <<"tenants", Param, "groups">>, {}) \in Entries(TenantGroupRoutes)
        /\ Route("TenantGroup.create", "POST", <<"tenants", Param, "groups">>, {}) \in Entries(TenantGroupRoutes)
        /\ Route("TenantGroup.update", "PATCH", <<"tenants", Param, "groups", Param>>, {}) \in Entries(TenantGroupRoutes)
        /\ Route("TenantGroup.remove", "DELETE", <<"tenants", Param, "groups", Param>>, {}) \in Entries(TenantGroupRoutes)
        /\ Route("TenantGroup.listMembers", "GET", <<"tenants", Param, "groups", Param, "members">>, {}) \in Entries(TenantGroupRoutes)
        /\ Route("TenantGroup.addMember", "POST", <<"tenants", Param, "groups", Param, "members">>, {}) \in Entries(TenantGroupRoutes)
        /\ Route("TenantGroup.removeMember", "DELETE", <<"tenants", Param, "groups", Param, "members", Param>>, {}) \in Entries(TenantGroupRoutes)
    BY DEF TenantGroupRoutes, Entries
  <2> QED
    BY <2>1 DEF Tables
<1>2. /\ groups(<<t>>) = <<"tenants", t, "groups">> /\ groups(<<t>>) \o <<g>> = <<"tenants", t, "groups", g>>
      /\ members(<<t>>, <<g>>) = <<"tenants", t, "groups", g, "members">>
      /\ members(<<t>>, <<g>>) \o <<u>> = <<"tenants", t, "groups", g, "members", u>>
  BY GroupPaths
<1>3. Fits(tenantGroupControllerList(<<t>>))
  <2>1. Covers(<<"tenants", Param, "groups">>, <<"tenants", t, "groups">>) /\ (Blank \notin {<<t>>} => Filled(<<"tenants", t, "groups">>))
    BY ThreeSegments, Literals DEF Blank
  <2> QED
    BY <1>1, <1>2, <2>1, ReadFits DEF tenantGroupControllerList
<1>4. Fits(tenantGroupControllerCreate(<<t>>))
  <2>1. Covers(<<"tenants", Param, "groups">>, <<"tenants", t, "groups">>)
    BY ThreeSegments
  <2> QED
    BY <1>1, <1>2, <2>1, MutateFits DEF tenantGroupControllerCreate, SuccessOf, DecisionOps
<1>5. Fits(tenantGroupControllerUpdate(<<t>>, <<g>>))
  <2>1. Covers(<<"tenants", Param, "groups", Param>>, <<"tenants", t, "groups", g>>)
    BY FourSegments
  <2> QED
    BY <1>1, <1>2, <2>1, MutateFits, ZenonT(60) DEF tenantGroupControllerUpdate, SuccessOf, DecisionOps
<1>6. Fits(tenantGroupControllerRemove(<<t>>, <<g>>))
  <2>1. Covers(<<"tenants", Param, "groups", Param>>, <<"tenants", t, "groups", g>>)
    BY FourSegments
  <2> QED
    BY <1>1, <1>2, <2>1, MutateFits, ZenonT(60) DEF tenantGroupControllerRemove, SuccessOf, DecisionOps
<1>7. Fits(tenantGroupControllerListMembers(<<t>>, <<g>>))
  <2>1. Covers(<<"tenants", Param, "groups", Param, "members">>, <<"tenants", t, "groups", g, "members">>) /\ (Blank \notin {<<t>>, <<g>>} => Filled(<<"tenants", t, "groups", g, "members">>))
    BY FiveSegments, Literals DEF Blank
  <2> QED
    BY <1>1, <1>2, <2>1, ReadFits DEF tenantGroupControllerListMembers
<1>8. Fits(tenantGroupControllerAddMember(<<t>>, <<g>>))
  <2>1. Covers(<<"tenants", Param, "groups", Param, "members">>, <<"tenants", t, "groups", g, "members">>)
    BY FiveSegments
  <2> QED
    BY <1>1, <1>2, <2>1, MutateFits DEF tenantGroupControllerAddMember, SuccessOf, DecisionOps
<1>9. Fits(tenantGroupControllerRemoveMember(<<t>>, <<g>>, <<u>>))
  <2>1. Covers(<<"tenants", Param, "groups", Param, "members", Param>>, <<"tenants", t, "groups", g, "members", u>>)
    BY SixSegments
  <2> QED
    BY <1>1, <1>2, <2>1, MutateFits, ZenonT(60) DEF tenantGroupControllerRemoveMember, SuccessOf, DecisionOps
<1> QED
  BY <1>3, <1>4, <1>5, <1>6, <1>7, <1>8, <1>9

(* tenant-access-administration                                            *)
LEMMA AdministrationCallsFit ==
  ASSUME NEW t, NEW i, NEW r, NEW f
  PROVE  /\ Fits(accessAdministrationControllerList(<<t>>, f))
         /\ Fits(accessAdministrationControllerAssignUser(<<t>>, <<i>>, <<r>>))
         /\ Fits(accessAdministrationControllerRevokeUser(<<t>>, <<i>>, <<r>>))
         /\ Fits(accessAdministrationControllerAssignGroup(<<t>>, <<i>>, <<r>>))
         /\ Fits(accessAdministrationControllerRevokeGroup(<<t>>, <<i>>, <<r>>))
<1>1. /\ Route("AccessAdministration.list", "GET", <<"tenants", Param, "access-administration">>, {}) \in Tables
      /\ Route("AccessAdministration.assignUser", "PUT", <<"tenants", Param, "access-administration", "users", Param, "roles", Param>>, {}) \in Tables
      /\ Route("AccessAdministration.revokeUser", "DELETE", <<"tenants", Param, "access-administration", "users", Param, "roles", Param>>, {}) \in Tables
      /\ Route("AccessAdministration.assignGroup", "PUT", <<"tenants", Param, "access-administration", "groups", Param, "roles", Param>>, {}) \in Tables
      /\ Route("AccessAdministration.revokeGroup", "DELETE", <<"tenants", Param, "access-administration", "groups", Param, "roles", Param>>, {}) \in Tables
  <2>1. /\ Route("AccessAdministration.list", "GET", <<"tenants", Param, "access-administration">>, {}) \in Entries(AccessAdministrationRoutes)
        /\ Route("AccessAdministration.assignUser", "PUT", <<"tenants", Param, "access-administration", "users", Param, "roles", Param>>, {}) \in Entries(AccessAdministrationRoutes)
        /\ Route("AccessAdministration.revokeUser", "DELETE", <<"tenants", Param, "access-administration", "users", Param, "roles", Param>>, {}) \in Entries(AccessAdministrationRoutes)
        /\ Route("AccessAdministration.assignGroup", "PUT", <<"tenants", Param, "access-administration", "groups", Param, "roles", Param>>, {}) \in Entries(AccessAdministrationRoutes)
        /\ Route("AccessAdministration.revokeGroup", "DELETE", <<"tenants", Param, "access-administration", "groups", Param, "roles", Param>>, {}) \in Entries(AccessAdministrationRoutes)
    BY DEF AccessAdministrationRoutes, Entries, RoleRoute
  <2> QED
    BY <2>1 DEF Tables
<1>2. /\ administration(<<t>>) = <<"tenants", t, "access-administration">>
      /\ \A kind : administration(<<t>>) \o <<kind>> \o <<i>> \o <<"roles">> \o <<r>>
                    = <<"tenants", t, "access-administration", kind, i, "roles", r>>
  BY RolePaths
<1>3. Fits(accessAdministrationControllerList(<<t>>, f))
  <2>1. Covers(<<"tenants", Param, "access-administration">>, <<"tenants", t, "access-administration">>) /\ (Blank \notin {<<t>>} => Filled(<<"tenants", t, "access-administration">>))
    BY ThreeSegments, Literals DEF Blank
  <2> QED
    BY <1>1, <1>2, <2>1, ReadFits DEF accessAdministrationControllerList
<1>4. Fits(accessAdministrationControllerAssignUser(<<t>>, <<i>>, <<r>>))
  <2>1. Covers(<<"tenants", Param, "access-administration", "users", Param, "roles", Param>>, <<"tenants", t, "access-administration", "users", i, "roles", r>>)
    BY SevenSegments
  <2> QED
    BY <1>1, <1>2, <2>1, MutateFits, ZenonT(60) DEF accessAdministrationControllerAssignUser, SuccessOf, DecisionOps
<1>5. Fits(accessAdministrationControllerRevokeUser(<<t>>, <<i>>, <<r>>))
  <2>1. Covers(<<"tenants", Param, "access-administration", "users", Param, "roles", Param>>, <<"tenants", t, "access-administration", "users", i, "roles", r>>)
    BY SevenSegments
  <2> QED
    BY <1>1, <1>2, <2>1, MutateFits, ZenonT(60) DEF accessAdministrationControllerRevokeUser, SuccessOf, DecisionOps
<1>6. Fits(accessAdministrationControllerAssignGroup(<<t>>, <<i>>, <<r>>))
  <2>1. Covers(<<"tenants", Param, "access-administration", "groups", Param, "roles", Param>>, <<"tenants", t, "access-administration", "groups", i, "roles", r>>)
    BY SevenSegments
  <2> QED
    BY <1>1, <1>2, <2>1, MutateFits, ZenonT(60) DEF accessAdministrationControllerAssignGroup, SuccessOf, DecisionOps
<1>7. Fits(accessAdministrationControllerRevokeGroup(<<t>>, <<i>>, <<r>>))
  <2>1. Covers(<<"tenants", Param, "access-administration", "groups", Param, "roles", Param>>, <<"tenants", t, "access-administration", "groups", i, "roles", r>>)
    BY SevenSegments
  <2> QED
    BY <1>1, <1>2, <2>1, MutateFits, ZenonT(60) DEF accessAdministrationControllerRevokeGroup, SuccessOf, DecisionOps
<1> QED
  BY <1>3, <1>4, <1>5, <1>6, <1>7

(* A call fits whatever single segments its identifiers are.               *)
One(S) == {<<s>> : s \in S}

LEMMA CallsFit ==
  ASSUME NEW S, NEW tenants \in SUBSET One(S), NEW items \in SUBSET One(S), NEW roleIds \in SUBSET One(S)
  PROVE  \A call \in CallsWith(tenants, items, roleIds) : Fits(call)
<1>1. \A call \in PlainCalls \union ListCalls : Fits(call)
  <2>1. /\ Fits(permissionsControllerCheck) /\ Fits(permissionsControllerHealth) /\ Fits(accessRequestControllerCreate)
        /\ Fits(accessRequestControllerListPending) /\ \A f \in Filters : Fits(accessRequestControllerListMine(f))
    BY PermissionCallsFit, Zenon
  <2>2. /\ Fits(tenantControllerCreate) /\ Fits(tenantControllerCreateSelfService)
        /\ \A f \in Filters : Fits(tenantControllerFindAll(f))
    BY TenantCallsFit, Zenon
  <2> QED
    BY <2>1, <2>2, OtherCallsFit DEF PlainCalls, ListCalls
<1>o. /\ \A t \in tenants : \E s \in S : t = <<s>>
      /\ \A i \in items : \E s \in S : i = <<s>>
      /\ \A r \in roleIds : \E s \in S : r = <<s>>
  BY DEF One
<1>2. \A call \in DecisionCalls(items) : Fits(call)
  BY <1>o, PermissionCallsFit DEF DecisionCalls
<1>3. \A call \in TenantCalls(tenants) : Fits(call)
  BY <1>o, TenantCallsFit, InvitationCallsFit, GroupCallsFit DEF TenantCalls
<1>4. \A call \in ItemCalls(tenants, items) : Fits(call)
  BY <1>o, InvitationCallsFit, GroupCallsFit DEF ItemCalls
<1>5. \A call \in AccessCalls(tenants) \union RoleCalls(tenants, items, roleIds) : Fits(call)
  BY <1>o, AdministrationCallsFit DEF AccessCalls, RoleCalls
<1>6. \A call \in MemberCalls(tenants, items) : Fits(call)
  BY <1>o, GroupCallsFit DEF MemberCalls
<1> QED
  BY <1>1, <1>2, <1>3, <1>4, <1>5, <1>6 DEF CallsWith

LEMMA WholeCallsFit == \A call \in WholeCalls : Fits(call)
<1>1. ASSUME NEW ids, ids \subseteq Seq(Segment) PROVE Whole(ids) \in SUBSET One(Segment)
  <2>1. ASSUME NEW id \in Seq(Segment), Len(id) = 1 PROVE id[1] \in Segment /\ id = <<id[1]>>
    BY <2>1
  <2> QED
    BY <1>1, <2>1 DEF Whole, One
<1>2. Tenants \subseteq Seq(Segment) /\ Items \subseteq Seq(Segment) /\ RoleIds \subseteq Seq(Segment)
  BY IdentifierAssumption
<1> QED
  BY <1>1, <1>2, CallsFit DEF WholeCalls

-----------------------------------------------------------------------------
(* The inductive invariant                                                 *)

Public(call) == isPublic(RouteOf(call), call.path)
Caller == IF SessionUser # None THEN SessionUser ELSE BearerUser

(* What the answer to a read is about, told by its path and the sign-in.   *)
TargetOf(call) ==
    IF Len(call.path) > 1 /\ call.path[1] = "tenants" /\ RouteOf(call).op # "Tenant.createSelfService"
    THEN call.path[2] ELSE None
Told(call) ==
    About([op |-> RouteOf(call).op, call |-> call, user |-> IF Public(call) THEN None ELSE Caller], TargetOf(call))

(* An answer comes from the route of its call, or there was none.          *)
Routed(q) ==
    IF q.op = None THEN q.status = 404 => Candidates(q.call) = {}
    ELSE /\ Candidates(q.call) # {} /\ q.op = RouteOf(q.call).op
         /\ q.status < 300 => q.status = SuccessOf(q.op, q.call.method)

(* A request knows the route it took and the caller, unless its path is    *)
(* public; at the handler it has passed both guards; and it is answered    *)
(* with no more than the caller is entitled to.                            *)
Good(q) ==
    /\ q.at \in {"sent", "persist", "guards", "handler"} => Candidates(q.call) # {} /\ q.op = RouteOf(q.call).op
    /\ q.at = "sent" => q.user = None
    /\ q.at = "persist" => q.user = Caller /\ q.user # None /\ ~Public(q.call)
    /\ q.at \in {"guards", "handler"} =>
         IF Public(q.call) THEN q.user = None ELSE q.user = Caller /\ q.user # None
    /\ q.at = "handler" => ~RolesRefuse(q) /\ ~PermissionsRefuse(q)
    /\ q.at \notin {"idle", "settled"} => q.call.enabled
    /\ q.at = "answered" =>
         /\ Routed(q)
         /\ \A tenant \in q.served : Entitlement([op |-> q.op, call |-> q.call, user |-> q.user, tenant |-> tenant])
         /\ q.call.key # <<>> /\ q.status = q.call.success =>
              Candidates(q.call) # {} /\ q.about = Told(q.call) /\ q.about \in Operation \X Subject

(* Every request is counted once at most since the throttler's window.     *)
Counted == {r \in Requests : req[r].at \notin {"idle", "token"}}
HitsInv == hits <= Cardinality(Counted)

AnswersInv ==
    \A a \in answers : \E call \in Calls :
        call.key # <<>> /\ Candidates(call) # {} /\ a = [key |-> call.key, about |-> Told(call)]

PipelineInv == TypeOK /\ HitsInv /\ AnswersInv /\ \A r \in Requests : Good(req[r])
-----------------------------------------------------------------------------
(* The route of a call                                                     *)

LEMMA LeastIndex ==
  ASSUME NEW S \in SUBSET Nat, S # {}
  PROVE  \E n \in S : \A m \in S : n <= m
<1>1. PICK n \in S : \A m \in S : ~(<<m, n>> \in OpToRel(<, Nat))
  BY NatLessThanWellFounded, WFMin
<1>2. ASSUME NEW m \in S PROVE n <= m
  <2>1. m < n => <<m, n>> \in OpToRel(<, Nat)
    BY DEF OpToRel
  <2>2. ~(m < n)
    BY <1>1, <2>1, Zenon
  <2>3. m \in Nat /\ n \in Nat
    OBVIOUS
  <2> QED
    BY <2>2, <2>3
<1> QED
  BY <1>2

(* Trimming leaves the segments in front as they are.                      *)
LEMMA TrimIs ==
  ASSUME NEW path \in Seq(Part)
  PROVE  /\ Len(Trim(path)) \in Nat /\ Len(Trim(path)) <= Len(path)
         /\ \/ Trim(path) = path
            \/ Len(path) \in DOMAIN path /\ path[Len(path)] = Empty /\ Len(Trim(path)) = Len(path) - 1
         /\ \A i \in 1..Len(Trim(path)) : i \in 1..Len(path) /\ Trim(path)[i] = path[i]
         /\ Trim(path) \in Seq(Part)
<1>1. CASE path # <<>> /\ path[Len(path)] = Empty
  <2>0. Len(path) \in Nat \ {0}
    BY <1>1
  <2>1. Trim(path) = SubSeq(path, 1, Len(path) - 1)
    BY <1>1 DEF Trim
  <2>2. ASSUME NEW n \in Nat, n < Len(path)
        PROVE  /\ Len(SubSeq(path, 1, n)) = n /\ \A i \in 1..n : SubSeq(path, 1, n)[i] = path[i]
               /\ SubSeq(path, 1, n) \in Seq(Part)
    BY <2>2
  <2> DEFINE n == Len(path) - 1
  <2>3. n \in Nat /\ n < Len(path) /\ Len(path) \in Nat
    BY <2>0
  <2> HIDE DEF n
  <2>4. Len(Trim(path)) = n /\ Trim(path) \in Seq(Part) /\ \A i \in 1..n : Trim(path)[i] = path[i]
    BY <2>1, <2>2, <2>3 DEF n
  <2>5. n <= Len(path) /\ \A i \in 1..n : i \in 1..Len(path)
    BY <2>3
  <2>6. Len(path) \in DOMAIN path /\ n = Len(path) - 1
    BY <2>0 DEF n
  <2> QED
    BY <1>1, <2>3, <2>4, <2>5, <2>6
<1>2. CASE ~(path # <<>> /\ path[Len(path)] = Empty)
  BY <1>2 DEF Trim
<1> QED
  BY <1>1, <1>2

LEMMA RouteOfIs ==
  ASSUME NEW call \in Calls, Candidates(call) # {}
  PROVE  RouteOf(call) \in Tables /\ Matches(RouteOf(call), call.method, Trim(call.path))
<1>1. Candidates(call) \in SUBSET Nat
  BY RoutesAre DEF Candidates
<1>2. PICK i \in Candidates(call) : \A j \in Candidates(call) : i <= j
  BY <1>1, LeastIndex
<1> DEFINE n == CHOOSE k \in Candidates(call) : \A j \in Candidates(call) : k <= j
<1>3. n \in Candidates(call) /\ RouteOf(call) = Routes[n]
  BY <1>2 DEF RouteOf
<1> QED
  BY <1>3, RoutesAre DEF Candidates, Entries

(* A call that is made takes the route it was generated from, and none     *)
(* when an identifier is missing, if no identifier holds a slash.          *)
LEMMA CallTakesItsRoute ==
  ASSUME NEW call \in Calls, call.enabled, call \in WholeCalls
  PROVE  IF Candidates(call) = {} THEN call.key = <<>> /\ \E i \in DOMAIN call.path : call.path[i] = Empty
         ELSE RouteOf(call).op = call.op /\ SuccessOf(RouteOf(call).op, call.method) = call.success
<1> DEFINE path == call.path
<1>1. path \in Seq(Part) /\ Fits(call)
  BY CallsSound, WholeCallsFit DEF SoundCall
<1>2. PICK w \in Tables : w.op = call.op /\ w.method = call.method /\ Len(path) = Len(w.pattern) /\ Takes(w.pattern, path)
  BY <1>1 DEF Fits, Covers
<1>3. call.method = "GET" \/ call.key # <<>> => call.method = "GET" /\ Filled(path)
  BY <1>1 DEF Fits
<1>4. ASSUME Filled(path) PROVE Trim(path) = path /\ Candidates(call) # {}
  <2>1. Trim(path) = path
    BY <1>1, <1>4, TrimIs DEF Filled
  <2>2. PICK i \in DOMAIN Routes : Routes[i] = w
    BY <1>2, RoutesAre DEF Entries
  <2>3. Matches(w, call.method, path)
    BY <1>1, <1>2, <1>4 DEF Matches, Takes, Filled
  <2> QED
    BY <2>1, <2>2, <2>3 DEF Candidates
<1>5. CASE Candidates(call) = {}
  BY <1>3, <1>4, <1>5 DEF Filled
<1>6. CASE Candidates(call) # {}
  <2> DEFINE v == RouteOf(call)
  <2>1. v \in Tables /\ Matches(v, call.method, Trim(path))
    BY <1>6, RouteOfIs
  <2> HIDE DEF v
  <2>2. Len(v.pattern) = Len(Trim(path)) /\ Takes(v.pattern, path) /\ v.method = call.method
    BY <1>1, <2>1, TrimIs DEF Matches, Takes
  <2>3. v.op = call.op
    <3>1. CASE Trim(path) = path
      BY <1>2, <2>1, <2>2, <3>1, OneRoute
    <3>2. CASE Len(path) \in DOMAIN path /\ path[Len(path)] = Empty /\ Len(Trim(path)) = Len(path) - 1
      <4>1. call.method # "GET"
        BY <1>3, <3>2 DEF Filled
      <4>2. w.pattern[Len(w.pattern)] \in {Param, Empty}
        BY <1>1, <1>2, <3>2 DEF Takes
      <4> QED
        BY <1>2, <2>1, <2>2, <3>2, <4>1, <4>2, NoShorterRoute
    <3> QED
      BY <1>1, <3>1, <3>2, TrimIs
  <2> QED
    BY <1>1, <1>6, <2>3 DEF Fits, v
<1> QED
  BY <1>5, <1>6

-----------------------------------------------------------------------------
(* Every route has a call                                                  *)

(* The calls on one resource and on one role, found in their sets.         *)
LEMMA ItemCallsHold ==
  ASSUME NEW tenants, NEW items, NEW t \in tenants, NEW i \in items
  PROVE  {tenantInvitationControllerRevoke(t, i), tenantGroupControllerUpdate(t, i),
          tenantGroupControllerRemove(t, i), tenantGroupControllerListMembers(t, i),
          tenantGroupControllerAddMember(t, i)} \subseteq ItemCalls(tenants, items)
<1>1. \A S : S = {tenantInvitationControllerRevoke(t, i), tenantGroupControllerUpdate(t, i),
                  tenantGroupControllerRemove(t, i), tenantGroupControllerListMembers(t, i),
                  tenantGroupControllerAddMember(t, i)} => S \subseteq ItemCalls(tenants, items)
  BY DEF ItemCalls
<1> QED
  BY <1>1

LEMMA RoleCallsHold ==
  ASSUME NEW tenants, NEW items, NEW roleIds, NEW t \in tenants, NEW i \in items, NEW r \in roleIds
  PROVE  {accessAdministrationControllerAssignUser(t, i, r),
          accessAdministrationControllerRevokeUser(t, i, r),
          accessAdministrationControllerAssignGroup(t, i, r),
          accessAdministrationControllerRevokeGroup(t, i, r)} \subseteq RoleCalls(tenants, items, roleIds)
<1>1. \A S : S = {accessAdministrationControllerAssignUser(t, i, r),
                  accessAdministrationControllerRevokeUser(t, i, r),
                  accessAdministrationControllerAssignGroup(t, i, r),
                  accessAdministrationControllerRevokeGroup(t, i, r)} =>
              S \subseteq RoleCalls(tenants, items, roleIds)
  BY DEF RoleCalls
<1> QED
  BY <1>1

(* The segments of a path of each length, and what a pattern asks of them. *)
LEMMA SpreadOne ==
  ASSUME NEW path \in Seq(Part), NEW p1, NEW route, route.pattern = <<p1>>, Matches(route, route.method, path)
  PROVE  /\ path = <<path[1]>>
         /\ p1 \in {Param, path[1]}
<1>1. PICK pattern : pattern = <<p1>> /\ Len(pattern) = Len(path) /\ \A i \in 1..Len(path) : pattern[i] \in {Param, path[i]}
  BY DEF Matches
<1>2. Len(path) = 1 /\ pattern[1] = p1
  BY <1>1
<1>3. path = <<path[1]>>
  <2>1. PICK t : t = <<path[1]>>
    OBVIOUS
  <2>2. t \in Seq(Part) /\ Len(t) = Len(path) /\ \A i \in 1..Len(path) : path[i] = t[i]
    BY <1>2, <2>1
  <2>3. path = t
    BY <2>2, SameSequence, Zenon
  <2> QED
    BY <2>1, <2>3
<1>4. \A i \in 1..1 : pattern[i] \in {Param, path[i]}
  BY <1>1, <1>2
<1> QED
  BY <1>2, <1>3, <1>4

LEMMA SpreadTwo ==
  ASSUME NEW path \in Seq(Part), NEW p1, NEW p2, NEW route, route.pattern = <<p1, p2>>, Matches(route, route.method, path)
  PROVE  /\ path = <<path[1], path[2]>>
         /\ p1 \in {Param, path[1]} /\ p2 \in {Param, path[2]}
<1>1. PICK pattern : pattern = <<p1, p2>> /\ Len(pattern) = Len(path) /\ \A i \in 1..Len(path) : pattern[i] \in {Param, path[i]}
  BY DEF Matches
<1>2. Len(path) = 2 /\ pattern[1] = p1 /\ pattern[2] = p2
  BY <1>1
<1>3. path = <<path[1], path[2]>>
  <2>1. PICK t : t = <<path[1], path[2]>>
    OBVIOUS
  <2>2. t \in Seq(Part) /\ Len(t) = Len(path) /\ \A i \in 1..Len(path) : path[i] = t[i]
    <3>1. path[1] \in Part /\ path[2] \in Part
      <4>1. \A i \in 1..Len(path) : path[i] \in Part
        OBVIOUS
      <4> QED
        BY <1>2, <4>1
    <3>2. t \in Seq(Part) /\ Len(t) = 2
      BY <2>1, <3>1
    <3>3. path[1] = t[1] /\ path[2] = t[2]
      BY <2>1
    <3> QED
      BY <1>2, <3>2, <3>3
  <2>3. path = t
    BY <2>2, SameSequence, Zenon
  <2> QED
    BY <2>1, <2>3
<1>4. \A i \in 1..2 : pattern[i] \in {Param, path[i]}
  BY <1>1, <1>2
<1> QED
  BY <1>2, <1>3, <1>4

LEMMA SpreadThree ==
  ASSUME NEW path \in Seq(Part), NEW p1, NEW p2, NEW p3, NEW route, route.pattern = <<p1, p2, p3>>, Matches(route, route.method, path)
  PROVE  /\ path = <<path[1], path[2], path[3]>>
         /\ p1 \in {Param, path[1]} /\ p2 \in {Param, path[2]} /\ p3 \in {Param, path[3]}
<1>1. PICK pattern : pattern = <<p1, p2, p3>> /\ Len(pattern) = Len(path) /\ \A i \in 1..Len(path) : pattern[i] \in {Param, path[i]}
  BY DEF Matches
<1>2. Len(path) = 3 /\ pattern[1] = p1 /\ pattern[2] = p2 /\ pattern[3] = p3
  BY <1>1
<1>3. path = <<path[1], path[2], path[3]>>
  <2>1. PICK t : t = <<path[1], path[2], path[3]>>
    OBVIOUS
  <2>2. t \in Seq(Part) /\ Len(t) = Len(path) /\ \A i \in 1..Len(path) : path[i] = t[i]
    <3>1. path[1] \in Part /\ path[2] \in Part /\ path[3] \in Part
      <4>1. \A i \in 1..Len(path) : path[i] \in Part
        OBVIOUS
      <4> QED
        BY <1>2, <4>1
    <3>2. t \in Seq(Part) /\ Len(t) = 3
      BY <2>1, <3>1
    <3>3. path[1] = t[1] /\ path[2] = t[2] /\ path[3] = t[3]
      BY <2>1
    <3> QED
      BY <1>2, <3>2, <3>3
  <2>3. path = t
    BY <2>2, SameSequence, Zenon
  <2> QED
    BY <2>1, <2>3
<1>4. \A i \in 1..3 : pattern[i] \in {Param, path[i]}
  BY <1>1, <1>2
<1> QED
  BY <1>2, <1>3, <1>4

LEMMA SpreadFour ==
  ASSUME NEW path \in Seq(Part), NEW p1, NEW p2, NEW p3, NEW p4, NEW route, route.pattern = <<p1, p2, p3, p4>>, Matches(route, route.method, path)
  PROVE  /\ path = <<path[1], path[2], path[3], path[4]>>
         /\ p1 \in {Param, path[1]} /\ p2 \in {Param, path[2]} /\ p3 \in {Param, path[3]} /\ p4 \in {Param, path[4]}
<1>1. PICK pattern : pattern = <<p1, p2, p3, p4>> /\ Len(pattern) = Len(path) /\ \A i \in 1..Len(path) : pattern[i] \in {Param, path[i]}
  BY DEF Matches
<1>2. Len(path) = 4 /\ pattern[1] = p1 /\ pattern[2] = p2 /\ pattern[3] = p3 /\ pattern[4] = p4
  BY <1>1
<1>3. path = <<path[1], path[2], path[3], path[4]>>
  <2>1. PICK t : t = <<path[1], path[2], path[3], path[4]>>
    OBVIOUS
  <2>2. t \in Seq(Part) /\ Len(t) = Len(path) /\ \A i \in 1..Len(path) : path[i] = t[i]
    <3>1. path[1] \in Part /\ path[2] \in Part /\ path[3] \in Part /\ path[4] \in Part
      <4>1. \A i \in 1..Len(path) : path[i] \in Part
        OBVIOUS
      <4> QED
        BY <1>2, <4>1
    <3>2. t \in Seq(Part) /\ Len(t) = 4
      BY <2>1, <3>1
    <3>3. path[1] = t[1] /\ path[2] = t[2] /\ path[3] = t[3] /\ path[4] = t[4]
      BY <2>1
    <3> QED
      BY <1>2, <3>2, <3>3
  <2>3. path = t
    BY <2>2, SameSequence, Zenon
  <2> QED
    BY <2>1, <2>3
<1>4. \A i \in 1..4 : pattern[i] \in {Param, path[i]}
  BY <1>1, <1>2
<1> QED
  BY <1>2, <1>3, <1>4

LEMMA SpreadFive ==
  ASSUME NEW path \in Seq(Part), NEW p1, NEW p2, NEW p3, NEW p4, NEW p5, NEW route, route.pattern = <<p1, p2, p3, p4, p5>>, Matches(route, route.method, path)
  PROVE  /\ path = <<path[1], path[2], path[3], path[4], path[5]>>
         /\ p1 \in {Param, path[1]} /\ p2 \in {Param, path[2]} /\ p3 \in {Param, path[3]} /\ p4 \in {Param, path[4]} /\ p5 \in {Param, path[5]}
<1>1. PICK pattern : pattern = <<p1, p2, p3, p4, p5>> /\ Len(pattern) = Len(path) /\ \A i \in 1..Len(path) : pattern[i] \in {Param, path[i]}
  BY DEF Matches
<1>2. Len(path) = 5 /\ pattern[1] = p1 /\ pattern[2] = p2 /\ pattern[3] = p3 /\ pattern[4] = p4 /\ pattern[5] = p5
  BY <1>1
<1>3. path = <<path[1], path[2], path[3], path[4], path[5]>>
  <2>1. PICK t : t = <<path[1], path[2], path[3], path[4], path[5]>>
    OBVIOUS
  <2>2. t \in Seq(Part) /\ Len(t) = Len(path) /\ \A i \in 1..Len(path) : path[i] = t[i]
    <3>1. path[1] \in Part /\ path[2] \in Part /\ path[3] \in Part /\ path[4] \in Part /\ path[5] \in Part
      <4>1. \A i \in 1..Len(path) : path[i] \in Part
        OBVIOUS
      <4> QED
        BY <1>2, <4>1
    <3>2. t \in Seq(Part) /\ Len(t) = 5
      BY <2>1, <3>1
    <3>3. path[1] = t[1] /\ path[2] = t[2] /\ path[3] = t[3] /\ path[4] = t[4] /\ path[5] = t[5]
      BY <2>1
    <3> QED
      BY <1>2, <3>2, <3>3
  <2>3. path = t
    BY <2>2, SameSequence, Zenon
  <2> QED
    BY <2>1, <2>3
<1>4. \A i \in 1..5 : pattern[i] \in {Param, path[i]}
  BY <1>1, <1>2
<1> QED
  BY <1>2, <1>3, <1>4

LEMMA SpreadSix ==
  ASSUME NEW path \in Seq(Part), NEW p1, NEW p2, NEW p3, NEW p4, NEW p5, NEW p6, NEW route, route.pattern = <<p1, p2, p3, p4, p5, p6>>, Matches(route, route.method, path)
  PROVE  /\ path = <<path[1], path[2], path[3], path[4], path[5], path[6]>>
         /\ p1 \in {Param, path[1]} /\ p2 \in {Param, path[2]} /\ p3 \in {Param, path[3]} /\ p4 \in {Param, path[4]} /\ p5 \in {Param, path[5]} /\ p6 \in {Param, path[6]}
<1>1. PICK pattern : pattern = <<p1, p2, p3, p4, p5, p6>> /\ Len(pattern) = Len(path) /\ \A i \in 1..Len(path) : pattern[i] \in {Param, path[i]}
  BY DEF Matches
<1>2. Len(path) = 6 /\ pattern[1] = p1 /\ pattern[2] = p2 /\ pattern[3] = p3 /\ pattern[4] = p4 /\ pattern[5] = p5 /\ pattern[6] = p6
  BY <1>1
<1>3. path = <<path[1], path[2], path[3], path[4], path[5], path[6]>>
  <2>1. PICK t : t = <<path[1], path[2], path[3], path[4], path[5], path[6]>>
    OBVIOUS
  <2>2. t \in Seq(Part) /\ Len(t) = Len(path) /\ \A i \in 1..Len(path) : path[i] = t[i]
    <3>1. path[1] \in Part /\ path[2] \in Part /\ path[3] \in Part /\ path[4] \in Part /\ path[5] \in Part /\ path[6] \in Part
      <4>1. \A i \in 1..Len(path) : path[i] \in Part
        OBVIOUS
      <4> QED
        BY <1>2, <4>1
    <3>2. t \in Seq(Part) /\ Len(t) = 6
      BY <2>1, <3>1
    <3>3. path[1] = t[1] /\ path[2] = t[2] /\ path[3] = t[3] /\ path[4] = t[4] /\ path[5] = t[5] /\ path[6] = t[6]
      BY <2>1
    <3> QED
      BY <1>2, <3>2, <3>3
  <2>3. path = t
    BY <2>2, SameSequence, Zenon
  <2> QED
    BY <2>1, <2>3
<1>4. \A i \in 1..6 : pattern[i] \in {Param, path[i]}
  BY <1>1, <1>2
<1> QED
  BY <1>2, <1>3, <1>4

LEMMA SpreadSeven ==
  ASSUME NEW path \in Seq(Part), NEW p1, NEW p2, NEW p3, NEW p4, NEW p5, NEW p6, NEW p7, NEW route, route.pattern = <<p1, p2, p3, p4, p5, p6, p7>>, Matches(route, route.method, path)
  PROVE  /\ path = <<path[1], path[2], path[3], path[4], path[5], path[6], path[7]>>
         /\ p1 \in {Param, path[1]} /\ p2 \in {Param, path[2]} /\ p3 \in {Param, path[3]} /\ p4 \in {Param, path[4]} /\ p5 \in {Param, path[5]} /\ p6 \in {Param, path[6]} /\ p7 \in {Param, path[7]}
<1>1. PICK pattern : pattern = <<p1, p2, p3, p4, p5, p6, p7>> /\ Len(pattern) = Len(path) /\ \A i \in 1..Len(path) : pattern[i] \in {Param, path[i]}
  BY DEF Matches
<1>2. Len(path) = 7 /\ pattern[1] = p1 /\ pattern[2] = p2 /\ pattern[3] = p3 /\ pattern[4] = p4 /\ pattern[5] = p5 /\ pattern[6] = p6 /\ pattern[7] = p7
  BY <1>1
<1>3. path = <<path[1], path[2], path[3], path[4], path[5], path[6], path[7]>>
  <2>1. PICK t : t = <<path[1], path[2], path[3], path[4], path[5], path[6], path[7]>>
    OBVIOUS
  <2>2. t \in Seq(Part) /\ Len(t) = Len(path) /\ \A i \in 1..Len(path) : path[i] = t[i]
    <3>1. path[1] \in Part /\ path[2] \in Part /\ path[3] \in Part /\ path[4] \in Part /\ path[5] \in Part /\ path[6] \in Part /\ path[7] \in Part
      <4>1. \A i \in 1..Len(path) : path[i] \in Part
        OBVIOUS
      <4> QED
        BY <1>2, <4>1
    <3>2. t \in Seq(Part) /\ Len(t) = 7
      BY <2>1, <3>1
    <3>3. path[1] = t[1] /\ path[2] = t[2] /\ path[3] = t[3] /\ path[4] = t[4] /\ path[5] = t[5] /\ path[6] = t[6] /\ path[7] = t[7]
      BY <2>1
    <3> QED
      BY <1>2, <3>2, <3>3
  <2>3. path = t
    BY <2>2, SameSequence, Zenon
  <2> QED
    BY <2>1, <2>3
<1>4. \A i \in 1..7 : pattern[i] \in {Param, path[i]}
  BY <1>1, <1>2
<1> QED
  BY <1>2, <1>3, <1>4

(* A call with the segments of a path for identifiers that takes it there. *)
Sends(c, route, path) ==
    /\ c \in CallsWith(Pieces(path), Pieces(path), Pieces(path))
    /\ c.op = route.op /\ c.method = route.method /\ c.path = path

LEMMA OtherRoutesAnswered ==
  ASSUME NEW route \in Entries(HealthRoutes) \union Entries(ChangelogRoutes) \union Entries(SingleSignOnRoutes) \union Entries(BimiRoutes), NEW path \in Seq(Part), Matches(route, route.method, path)
  PROVE  \E c : Sends(c, route, path)
<1>i. \A i \in DOMAIN path : <<path[i]>> \in Pieces(path)
  BY DEF Pieces
<1>f. NoFilter \in Filters
  BY IdentifierAssumption
<1>1. CASE route = Route("Health.check", "GET", <<"health">>, {})
  <2>1. route.op = "Health.check" /\ route.method = "GET" /\ route.pattern = <<"health">>
    BY <1>1 DEF Route
  <2>2. path = <<"health">>
    BY <2>1, SpreadOne DEF Param
  <2>4. healthControllerCheck \in CallsWith(Pieces(path), Pieces(path), Pieces(path))
    <3>1. healthControllerCheck \in PlainCalls
      BY Zenon DEF PlainCalls
    <3> QED
      BY <3>1 DEF CallsWith
  <2>6. Sends(healthControllerCheck, route, path)
    BY <2>1, <2>2, <2>4 DEF Sends, Read, healthControllerCheck
  <2> QED
    BY <2>6
<1>2. CASE route = Route("Health.checkDatabase", "GET", <<"health", "db">>, {})
  <2>1. route.op = "Health.checkDatabase" /\ route.method = "GET" /\ route.pattern = <<"health", "db">>
    BY <1>2 DEF Route
  <2>2. path = <<"health", "db">>
    BY <2>1, SpreadTwo DEF Param
  <2>4. healthControllerCheckDatabase \in CallsWith(Pieces(path), Pieces(path), Pieces(path))
    <3>1. healthControllerCheckDatabase \in PlainCalls
      BY Zenon DEF PlainCalls
    <3> QED
      BY <3>1 DEF CallsWith
  <2>6. Sends(healthControllerCheckDatabase, route, path)
    BY <2>1, <2>2, <2>4 DEF Sends, Read, healthControllerCheckDatabase
  <2> QED
    BY <2>6
<1>3. CASE route = Route("Changelog.getChangelog", "GET", <<"changelog">>, {})
  <2>1. route.op = "Changelog.getChangelog" /\ route.method = "GET" /\ route.pattern = <<"changelog">>
    BY <1>3 DEF Route
  <2>2. path = <<"changelog">>
    BY <2>1, SpreadOne DEF Param
  <2>4. changelogControllerGetChangelog \in CallsWith(Pieces(path), Pieces(path), Pieces(path))
    <3>1. changelogControllerGetChangelog \in PlainCalls
      BY Zenon DEF PlainCalls
    <3> QED
      BY <3>1 DEF CallsWith
  <2>6. Sends(changelogControllerGetChangelog, route, path)
    BY <2>1, <2>2, <2>4 DEF Sends, Read, changelogControllerGetChangelog
  <2> QED
    BY <2>6
<1>4. CASE route = Route("SingleSignOn.me", "GET", <<"api", "me">>, {})
  <2>1. route.op = "SingleSignOn.me" /\ route.method = "GET" /\ route.pattern = <<"api", "me">>
    BY <1>4 DEF Route
  <2>2. path = <<"api", "me">>
    BY <2>1, SpreadTwo DEF Param
  <2>4. singleSignOnControllerMe \in CallsWith(Pieces(path), Pieces(path), Pieces(path))
    <3>1. singleSignOnControllerMe \in PlainCalls
      BY Zenon DEF PlainCalls
    <3> QED
      BY <3>1 DEF CallsWith
  <2>6. Sends(singleSignOnControllerMe, route, path)
    BY <2>1, <2>2, <2>4 DEF Sends, Read, singleSignOnControllerMe
  <2> QED
    BY <2>6
<1>5. CASE route = Route("Bimi.logo", "GET", <<"bimi", "logo.svg">>, {})
  <2>1. route.op = "Bimi.logo" /\ route.method = "GET" /\ route.pattern = <<"bimi", "logo.svg">>
    BY <1>5 DEF Route
  <2>2. path = <<"bimi", "logo.svg">>
    BY <2>1, SpreadTwo DEF Param
  <2>4. bimiLogoControllerLogo \in CallsWith(Pieces(path), Pieces(path), Pieces(path))
    <3>1. bimiLogoControllerLogo \in PlainCalls
      BY Zenon DEF PlainCalls
    <3> QED
      BY <3>1 DEF CallsWith
  <2>6. Sends(bimiLogoControllerLogo, route, path)
    BY <2>1, <2>2, <2>4 DEF Sends, Read, bimiLogoControllerLogo
  <2> QED
    BY <2>6
<1> QED
  BY <1>1, <1>2, <1>3, <1>4, <1>5 DEF Entries, HealthRoutes, ChangelogRoutes, SingleSignOnRoutes, BimiRoutes

LEMMA TenantRoutesAnswered ==
  ASSUME NEW route \in Entries(TenantRoutes), NEW path \in Seq(Part), Matches(route, route.method, path)
  PROVE  \E c : Sends(c, route, path)
<1>i. \A i \in DOMAIN path : <<path[i]>> \in Pieces(path)
  BY DEF Pieces
<1>f. NoFilter \in Filters
  BY IdentifierAssumption
<1>1. CASE route = Route("Tenant.findAll", "GET", <<"tenants">>, {"support-agent"})
  <2>1. route.op = "Tenant.findAll" /\ route.method = "GET" /\ route.pattern = <<"tenants">>
    BY <1>1 DEF Route
  <2>2. path = <<"tenants">>
    BY <2>1, SpreadOne DEF Param
  <2>4. tenantControllerFindAll(NoFilter) \in CallsWith(Pieces(path), Pieces(path), Pieces(path))
    <3>1. tenantControllerFindAll(NoFilter) \in ListCalls
      BY <1>f DEF ListCalls
    <3> QED
      BY <3>1 DEF CallsWith
  <2>6. Sends(tenantControllerFindAll(NoFilter), route, path)
    BY <2>1, <2>2, <2>4 DEF Sends, Read, tenantControllerFindAll
  <2> QED
    BY <2>6
<1>2. CASE route = Route("Tenant.create", "POST", <<"tenants">>, {"support-agent", "tenant-admin"})
  <2>1. route.op = "Tenant.create" /\ route.method = "POST" /\ route.pattern = <<"tenants">>
    BY <1>2 DEF Route
  <2>2. path = <<"tenants">>
    BY <2>1, SpreadOne DEF Param
  <2>4. tenantControllerCreate \in CallsWith(Pieces(path), Pieces(path), Pieces(path))
    <3>1. tenantControllerCreate \in PlainCalls
      BY Zenon DEF PlainCalls
    <3> QED
      BY <3>1 DEF CallsWith
  <2>6. Sends(tenantControllerCreate, route, path)
    BY <2>1, <2>2, <2>4 DEF Sends, Mutate, tenantControllerCreate
  <2> QED
    BY <2>6
<1>3. CASE route = Route("Tenant.createSelfService", "POST", <<"tenants", "self-service">>, {})
  <2>1. route.op = "Tenant.createSelfService" /\ route.method = "POST" /\ route.pattern = <<"tenants", "self-service">>
    BY <1>3 DEF Route
  <2>2. path = <<"tenants", "self-service">>
    BY <2>1, SpreadTwo DEF Param
  <2>4. tenantControllerCreateSelfService \in CallsWith(Pieces(path), Pieces(path), Pieces(path))
    <3>1. tenantControllerCreateSelfService \in PlainCalls
      BY Zenon DEF PlainCalls
    <3> QED
      BY <3>1 DEF CallsWith
  <2>6. Sends(tenantControllerCreateSelfService, route, path)
    BY <2>1, <2>2, <2>4 DEF Sends, Mutate, tenantControllerCreateSelfService
  <2> QED
    BY <2>6
<1>4. CASE route = Route("Tenant.findOne", "GET", <<"tenants", Param>>, {})
  <2>1. route.op = "Tenant.findOne" /\ route.method = "GET" /\ route.pattern = <<"tenants", Param>>
    BY <1>4 DEF Route
  <2>2. path = <<"tenants", path[2]>>
    BY <2>1, SpreadTwo DEF Param
  <2>3. <<path[2]>> \in Pieces(path)
    BY <1>i, <2>2
  <2>4. tenantControllerFindOne(<<path[2]>>) \in CallsWith(Pieces(path), Pieces(path), Pieces(path))
    <3>1. tenantControllerFindOne(<<path[2]>>) \in TenantCalls(Pieces(path))
      BY <2>3 DEF TenantCalls
    <3> QED
      BY <3>1 DEF CallsWith
  <2>5. <<"tenants">> \o <<path[2]>> = <<"tenants", path[2]>>
    BY AfterOne
  <2>6. Sends(tenantControllerFindOne(<<path[2]>>), route, path)
    BY <2>1, <2>2, <2>4, <2>5 DEF Sends, Read, tenantControllerFindOne
  <2> QED
    BY <2>6
<1>5. CASE route = Route("Tenant.update", "PATCH", <<"tenants", Param>>, {})
  <2>1. route.op = "Tenant.update" /\ route.method = "PATCH" /\ route.pattern = <<"tenants", Param>>
    BY <1>5 DEF Route
  <2>2. path = <<"tenants", path[2]>>
    BY <2>1, SpreadTwo DEF Param
  <2>3. <<path[2]>> \in Pieces(path)
    BY <1>i, <2>2
  <2>4. tenantControllerUpdate(<<path[2]>>) \in CallsWith(Pieces(path), Pieces(path), Pieces(path))
    <3>1. tenantControllerUpdate(<<path[2]>>) \in TenantCalls(Pieces(path))
      BY <2>3 DEF TenantCalls
    <3> QED
      BY <3>1 DEF CallsWith
  <2>5. <<"tenants">> \o <<path[2]>> = <<"tenants", path[2]>>
    BY AfterOne
  <2>6. Sends(tenantControllerUpdate(<<path[2]>>), route, path)
    BY <2>1, <2>2, <2>4, <2>5 DEF Sends, Mutate, tenantControllerUpdate
  <2> QED
    BY <2>6
<1> QED
  BY <1>1, <1>2, <1>3, <1>4, <1>5 DEF Entries, TenantRoutes

LEMMA InvitationRoutesAnswered ==
  ASSUME NEW route \in Entries(TenantInvitationRoutes), NEW path \in Seq(Part), Matches(route, route.method, path)
  PROVE  \E c : Sends(c, route, path)
<1>i. \A i \in DOMAIN path : <<path[i]>> \in Pieces(path)
  BY DEF Pieces
<1>f. NoFilter \in Filters
  BY IdentifierAssumption
<1>1. CASE route = Route("TenantInvitation.create", "POST", <<"tenants", Param, "invitations">>, {})
  <2>1. route.op = "TenantInvitation.create" /\ route.method = "POST" /\ route.pattern = <<"tenants", Param, "invitations">>
    BY <1>1 DEF Route
  <2>2. path = <<"tenants", path[2], "invitations">>
    BY <2>1, SpreadThree DEF Param
  <2>3. <<path[2]>> \in Pieces(path)
    BY <1>i, <2>2
  <2>4. tenantInvitationControllerCreate(<<path[2]>>) \in CallsWith(Pieces(path), Pieces(path), Pieces(path))
    <3>1. tenantInvitationControllerCreate(<<path[2]>>) \in TenantCalls(Pieces(path))
      BY <2>3 DEF TenantCalls
    <3> QED
      BY <3>1 DEF CallsWith
  <2>5. invitations(<<path[2]>>) = <<"tenants", path[2], "invitations">>
    BY InvitationPaths
  <2>6. Sends(tenantInvitationControllerCreate(<<path[2]>>), route, path)
    BY <2>1, <2>2, <2>4, <2>5 DEF Sends, Mutate, tenantInvitationControllerCreate
  <2> QED
    BY <2>6
<1>2. CASE route = Route("TenantInvitation.findAll", "GET", <<"tenants", Param, "invitations">>, {})
  <2>1. route.op = "TenantInvitation.findAll" /\ route.method = "GET" /\ route.pattern = <<"tenants", Param, "invitations">>
    BY <1>2 DEF Route
  <2>2. path = <<"tenants", path[2], "invitations">>
    BY <2>1, SpreadThree DEF Param
  <2>3. <<path[2]>> \in Pieces(path)
    BY <1>i, <2>2
  <2>4. tenantInvitationControllerFindAll(<<path[2]>>) \in CallsWith(Pieces(path), Pieces(path), Pieces(path))
    <3>1. tenantInvitationControllerFindAll(<<path[2]>>) \in TenantCalls(Pieces(path))
      BY <2>3 DEF TenantCalls
    <3> QED
      BY <3>1 DEF CallsWith
  <2>5. invitations(<<path[2]>>) = <<"tenants", path[2], "invitations">>
    BY InvitationPaths
  <2>6. Sends(tenantInvitationControllerFindAll(<<path[2]>>), route, path)
    BY <2>1, <2>2, <2>4, <2>5 DEF Sends, Read, tenantInvitationControllerFindAll
  <2> QED
    BY <2>6
<1>3. CASE route = Route("TenantInvitation.revoke", "DELETE", <<"tenants", Param, "invitations", Param>>, {})
  <2>1. route.op = "TenantInvitation.revoke" /\ route.method = "DELETE" /\ route.pattern = <<"tenants", Param, "invitations", Param>>
    BY <1>3 DEF Route
  <2>2. path = <<"tenants", path[2], "invitations", path[4]>>
    BY <2>1, SpreadFour DEF Param
  <2>3. <<path[2]>> \in Pieces(path) /\ <<path[4]>> \in Pieces(path)
    BY <1>i, <2>2
  <2>4. tenantInvitationControllerRevoke(<<path[2]>>, <<path[4]>>) \in CallsWith(Pieces(path), Pieces(path), Pieces(path))
    <3>1. tenantInvitationControllerRevoke(<<path[2]>>, <<path[4]>>) \in ItemCalls(Pieces(path), Pieces(path))
      BY <2>3, ItemCallsHold
    <3> QED
      BY <3>1 DEF CallsWith
  <2>5. invitations(<<path[2]>>) \o <<path[4]>> = <<"tenants", path[2], "invitations", path[4]>>
    BY InvitationPaths
  <2>6. Sends(tenantInvitationControllerRevoke(<<path[2]>>, <<path[4]>>), route, path)
    BY <2>1, <2>2, <2>4, <2>5 DEF Sends, Mutate, tenantInvitationControllerRevoke
  <2> QED
    BY <2>6
<1> QED
  BY <1>1, <1>2, <1>3 DEF Entries, TenantInvitationRoutes

LEMMA GroupRoutesAnswered ==
  ASSUME NEW route \in Entries(TenantGroupRoutes), NEW path \in Seq(Part), Matches(route, route.method, path)
  PROVE  \E c : Sends(c, route, path)
<1>i. \A i \in DOMAIN path : <<path[i]>> \in Pieces(path)
  BY DEF Pieces
<1>f. NoFilter \in Filters
  BY IdentifierAssumption
<1>1. CASE route = Route("TenantGroup.list", "GET", <<"tenants", Param, "groups">>, {})
  <2>1. route.op = "TenantGroup.list" /\ route.method = "GET" /\ route.pattern = <<"tenants", Param, "groups">>
    BY <1>1 DEF Route
  <2>2. path = <<"tenants", path[2], "groups">>
    BY <2>1, SpreadThree DEF Param
  <2>3. <<path[2]>> \in Pieces(path)
    BY <1>i, <2>2
  <2>4. tenantGroupControllerList(<<path[2]>>) \in CallsWith(Pieces(path), Pieces(path), Pieces(path))
    <3>1. tenantGroupControllerList(<<path[2]>>) \in TenantCalls(Pieces(path))
      BY <2>3 DEF TenantCalls
    <3> QED
      BY <3>1 DEF CallsWith
  <2>5. groups(<<path[2]>>) = <<"tenants", path[2], "groups">>
    BY GroupPaths
  <2>6. Sends(tenantGroupControllerList(<<path[2]>>), route, path)
    BY <2>1, <2>2, <2>4, <2>5 DEF Sends, Read, tenantGroupControllerList
  <2> QED
    BY <2>6
<1>2. CASE route = Route("TenantGroup.create", "POST", <<"tenants", Param, "groups">>, {})
  <2>1. route.op = "TenantGroup.create" /\ route.method = "POST" /\ route.pattern = <<"tenants", Param, "groups">>
    BY <1>2 DEF Route
  <2>2. path = <<"tenants", path[2], "groups">>
    BY <2>1, SpreadThree DEF Param
  <2>3. <<path[2]>> \in Pieces(path)
    BY <1>i, <2>2
  <2>4. tenantGroupControllerCreate(<<path[2]>>) \in CallsWith(Pieces(path), Pieces(path), Pieces(path))
    <3>1. tenantGroupControllerCreate(<<path[2]>>) \in TenantCalls(Pieces(path))
      BY <2>3 DEF TenantCalls
    <3> QED
      BY <3>1 DEF CallsWith
  <2>5. groups(<<path[2]>>) = <<"tenants", path[2], "groups">>
    BY GroupPaths
  <2>6. Sends(tenantGroupControllerCreate(<<path[2]>>), route, path)
    BY <2>1, <2>2, <2>4, <2>5 DEF Sends, Mutate, tenantGroupControllerCreate
  <2> QED
    BY <2>6
<1>3. CASE route = Route("TenantGroup.update", "PATCH", <<"tenants", Param, "groups", Param>>, {})
  <2>1. route.op = "TenantGroup.update" /\ route.method = "PATCH" /\ route.pattern = <<"tenants", Param, "groups", Param>>
    BY <1>3 DEF Route
  <2>2. path = <<"tenants", path[2], "groups", path[4]>>
    BY <2>1, SpreadFour DEF Param
  <2>3. <<path[2]>> \in Pieces(path) /\ <<path[4]>> \in Pieces(path)
    BY <1>i, <2>2
  <2>4. tenantGroupControllerUpdate(<<path[2]>>, <<path[4]>>) \in CallsWith(Pieces(path), Pieces(path), Pieces(path))
    <3>1. tenantGroupControllerUpdate(<<path[2]>>, <<path[4]>>) \in ItemCalls(Pieces(path), Pieces(path))
      BY <2>3, ItemCallsHold
    <3> QED
      BY <3>1 DEF CallsWith
  <2>5. groups(<<path[2]>>) \o <<path[4]>> = <<"tenants", path[2], "groups", path[4]>>
    BY GroupPaths
  <2>6. Sends(tenantGroupControllerUpdate(<<path[2]>>, <<path[4]>>), route, path)
    BY <2>1, <2>2, <2>4, <2>5 DEF Sends, Mutate, tenantGroupControllerUpdate
  <2> QED
    BY <2>6
<1>4. CASE route = Route("TenantGroup.remove", "DELETE", <<"tenants", Param, "groups", Param>>, {})
  <2>1. route.op = "TenantGroup.remove" /\ route.method = "DELETE" /\ route.pattern = <<"tenants", Param, "groups", Param>>
    BY <1>4 DEF Route
  <2>2. path = <<"tenants", path[2], "groups", path[4]>>
    BY <2>1, SpreadFour DEF Param
  <2>3. <<path[2]>> \in Pieces(path) /\ <<path[4]>> \in Pieces(path)
    BY <1>i, <2>2
  <2>4. tenantGroupControllerRemove(<<path[2]>>, <<path[4]>>) \in CallsWith(Pieces(path), Pieces(path), Pieces(path))
    <3>1. tenantGroupControllerRemove(<<path[2]>>, <<path[4]>>) \in ItemCalls(Pieces(path), Pieces(path))
      BY <2>3, ItemCallsHold
    <3> QED
      BY <3>1 DEF CallsWith
  <2>5. groups(<<path[2]>>) \o <<path[4]>> = <<"tenants", path[2], "groups", path[4]>>
    BY GroupPaths
  <2>6. Sends(tenantGroupControllerRemove(<<path[2]>>, <<path[4]>>), route, path)
    BY <2>1, <2>2, <2>4, <2>5 DEF Sends, Mutate, tenantGroupControllerRemove
  <2> QED
    BY <2>6
<1>5. CASE route = Route("TenantGroup.listMembers", "GET", <<"tenants", Param, "groups", Param, "members">>, {})
  <2>1. route.op = "TenantGroup.listMembers" /\ route.method = "GET" /\ route.pattern = <<"tenants", Param, "groups", Param, "members">>
    BY <1>5 DEF Route
  <2>2. path = <<"tenants", path[2], "groups", path[4], "members">>
    BY <2>1, SpreadFive DEF Param
  <2>3. <<path[2]>> \in Pieces(path) /\ <<path[4]>> \in Pieces(path)
    BY <1>i, <2>2
  <2>4. tenantGroupControllerListMembers(<<path[2]>>, <<path[4]>>) \in CallsWith(Pieces(path), Pieces(path), Pieces(path))
    <3>1. tenantGroupControllerListMembers(<<path[2]>>, <<path[4]>>) \in ItemCalls(Pieces(path), Pieces(path))
      BY <2>3, ItemCallsHold
    <3> QED
      BY <3>1 DEF CallsWith
  <2>5. members(<<path[2]>>, <<path[4]>>) = <<"tenants", path[2], "groups", path[4], "members">>
    BY GroupPaths
  <2>6. Sends(tenantGroupControllerListMembers(<<path[2]>>, <<path[4]>>), route, path)
    BY <2>1, <2>2, <2>4, <2>5 DEF Sends, Read, tenantGroupControllerListMembers
  <2> QED
    BY <2>6
<1>6. CASE route = Route("TenantGroup.addMember", "POST", <<"tenants", Param, "groups", Param, "members">>, {})
  <2>1. route.op = "TenantGroup.addMember" /\ route.method = "POST" /\ route.pattern = <<"tenants", Param, "groups", Param, "members">>
    BY <1>6 DEF Route
  <2>2. path = <<"tenants", path[2], "groups", path[4], "members">>
    BY <2>1, SpreadFive DEF Param
  <2>3. <<path[2]>> \in Pieces(path) /\ <<path[4]>> \in Pieces(path)
    BY <1>i, <2>2
  <2>4. tenantGroupControllerAddMember(<<path[2]>>, <<path[4]>>) \in CallsWith(Pieces(path), Pieces(path), Pieces(path))
    <3>1. tenantGroupControllerAddMember(<<path[2]>>, <<path[4]>>) \in ItemCalls(Pieces(path), Pieces(path))
      BY <2>3, ItemCallsHold
    <3> QED
      BY <3>1 DEF CallsWith
  <2>5. members(<<path[2]>>, <<path[4]>>) = <<"tenants", path[2], "groups", path[4], "members">>
    BY GroupPaths
  <2>6. Sends(tenantGroupControllerAddMember(<<path[2]>>, <<path[4]>>), route, path)
    BY <2>1, <2>2, <2>4, <2>5 DEF Sends, Mutate, tenantGroupControllerAddMember
  <2> QED
    BY <2>6
<1>7. CASE route = Route("TenantGroup.removeMember", "DELETE", <<"tenants", Param, "groups", Param, "members", Param>>, {})
  <2>1. route.op = "TenantGroup.removeMember" /\ route.method = "DELETE" /\ route.pattern = <<"tenants", Param, "groups", Param, "members", Param>>
    BY <1>7 DEF Route
  <2>2. path = <<"tenants", path[2], "groups", path[4], "members", path[6]>>
    BY <2>1, SpreadSix DEF Param
  <2>3. <<path[2]>> \in Pieces(path) /\ <<path[4]>> \in Pieces(path) /\ <<path[6]>> \in Pieces(path)
    BY <1>i, <2>2
  <2>4. tenantGroupControllerRemoveMember(<<path[2]>>, <<path[4]>>, <<path[6]>>) \in CallsWith(Pieces(path), Pieces(path), Pieces(path))
    <3>1. tenantGroupControllerRemoveMember(<<path[2]>>, <<path[4]>>, <<path[6]>>) \in MemberCalls(Pieces(path), Pieces(path))
      BY <2>3 DEF MemberCalls
    <3> QED
      BY <3>1 DEF CallsWith
  <2>5. members(<<path[2]>>, <<path[4]>>) \o <<path[6]>> = <<"tenants", path[2], "groups", path[4], "members", path[6]>>
    BY GroupPaths
  <2>6. Sends(tenantGroupControllerRemoveMember(<<path[2]>>, <<path[4]>>, <<path[6]>>), route, path)
    BY <2>1, <2>2, <2>4, <2>5 DEF Sends, Mutate, tenantGroupControllerRemoveMember
  <2> QED
    BY <2>6
<1> QED
  BY <1>1, <1>2, <1>3, <1>4, <1>5, <1>6, <1>7 DEF Entries, TenantGroupRoutes

LEMMA PermissionRoutesAnswered ==
  ASSUME NEW route \in Entries(PermissionsRoutes) \union Entries(AccessRequestRoutes), NEW path \in Seq(Part), Matches(route, route.method, path)
  PROVE  \E c : Sends(c, route, path)
<1>i. \A i \in DOMAIN path : <<path[i]>> \in Pieces(path)
  BY DEF Pieces
<1>f. NoFilter \in Filters
  BY IdentifierAssumption
<1>1. CASE route = Route("Permissions.check", "POST", <<"permissions", "check">>, {})
  <2>1. route.op = "Permissions.check" /\ route.method = "POST" /\ route.pattern = <<"permissions", "check">>
    BY <1>1 DEF Route
  <2>2. path = <<"permissions", "check">>
    BY <2>1, SpreadTwo DEF Param
  <2>4. permissionsControllerCheck \in CallsWith(Pieces(path), Pieces(path), Pieces(path))
    <3>1. permissionsControllerCheck \in PlainCalls
      BY Zenon DEF PlainCalls
    <3> QED
      BY <3>1 DEF CallsWith
  <2>6. Sends(permissionsControllerCheck, route, path)
    BY <2>1, <2>2, <2>4 DEF Sends, Mutate, permissionsControllerCheck
  <2> QED
    BY <2>6
<1>2. CASE route = Route("Permissions.health", "GET", <<"permissions", "health">>, {})
  <2>1. route.op = "Permissions.health" /\ route.method = "GET" /\ route.pattern = <<"permissions", "health">>
    BY <1>2 DEF Route
  <2>2. path = <<"permissions", "health">>
    BY <2>1, SpreadTwo DEF Param
  <2>4. permissionsControllerHealth \in CallsWith(Pieces(path), Pieces(path), Pieces(path))
    <3>1. permissionsControllerHealth \in PlainCalls
      BY Zenon DEF PlainCalls
    <3> QED
      BY <3>1 DEF CallsWith
  <2>6. Sends(permissionsControllerHealth, route, path)
    BY <2>1, <2>2, <2>4 DEF Sends, Read, permissionsControllerHealth
  <2> QED
    BY <2>6
<1>3. CASE route = Route("AccessRequest.create", "POST", <<"permissions", "access-requests">>, {})
  <2>1. route.op = "AccessRequest.create" /\ route.method = "POST" /\ route.pattern = <<"permissions", "access-requests">>
    BY <1>3 DEF Route
  <2>2. path = <<"permissions", "access-requests">>
    BY <2>1, SpreadTwo DEF Param
  <2>4. accessRequestControllerCreate \in CallsWith(Pieces(path), Pieces(path), Pieces(path))
    <3>1. accessRequestControllerCreate \in PlainCalls
      BY Zenon DEF PlainCalls
    <3> QED
      BY <3>1 DEF CallsWith
  <2>6. Sends(accessRequestControllerCreate, route, path)
    BY <2>1, <2>2, <2>4 DEF Sends, Mutate, accessRequestControllerCreate
  <2> QED
    BY <2>6
<1>4. CASE route = Route("AccessRequest.listMine", "GET", <<"permissions", "access-requests", "mine">>, {})
  <2>1. route.op = "AccessRequest.listMine" /\ route.method = "GET" /\ route.pattern = <<"permissions", "access-requests", "mine">>
    BY <1>4 DEF Route
  <2>2. path = <<"permissions", "access-requests", "mine">>
    BY <2>1, SpreadThree DEF Param
  <2>4. accessRequestControllerListMine(NoFilter) \in CallsWith(Pieces(path), Pieces(path), Pieces(path))
    <3>1. accessRequestControllerListMine(NoFilter) \in ListCalls
      BY <1>f DEF ListCalls
    <3> QED
      BY <3>1 DEF CallsWith
  <2>6. Sends(accessRequestControllerListMine(NoFilter), route, path)
    BY <2>1, <2>2, <2>4 DEF Sends, Read, accessRequestControllerListMine
  <2> QED
    BY <2>6
<1>5. CASE route = Route("AccessRequest.listPending", "GET", <<"permissions", "access-requests", "pending">>, {})
  <2>1. route.op = "AccessRequest.listPending" /\ route.method = "GET" /\ route.pattern = <<"permissions", "access-requests", "pending">>
    BY <1>5 DEF Route
  <2>2. path = <<"permissions", "access-requests", "pending">>
    BY <2>1, SpreadThree DEF Param
  <2>4. accessRequestControllerListPending \in CallsWith(Pieces(path), Pieces(path), Pieces(path))
    <3>1. accessRequestControllerListPending \in PlainCalls
      BY Zenon DEF PlainCalls
    <3> QED
      BY <3>1 DEF CallsWith
  <2>6. Sends(accessRequestControllerListPending, route, path)
    BY <2>1, <2>2, <2>4 DEF Sends, Read, accessRequestControllerListPending
  <2> QED
    BY <2>6
<1>6. CASE route = Route("AccessRequest.approve", "POST", <<"permissions", "access-requests", Param, "approve">>, {})
  <2>1. route.op = "AccessRequest.approve" /\ route.method = "POST" /\ route.pattern = <<"permissions", "access-requests", Param, "approve">>
    BY <1>6 DEF Route
  <2>2. path = <<"permissions", "access-requests", path[3], "approve">>
    BY <2>1, SpreadFour DEF Param
  <2>3. <<path[3]>> \in Pieces(path)
    BY <1>i, <2>2
  <2>4. accessRequestControllerApprove(<<path[3]>>) \in CallsWith(Pieces(path), Pieces(path), Pieces(path))
    <3>1. accessRequestControllerApprove(<<path[3]>>) \in DecisionCalls(Pieces(path))
      BY <2>3 DEF DecisionCalls
    <3> QED
      BY <3>1 DEF CallsWith
  <2>5. <<"permissions", "access-requests">> \o <<path[3]>> \o <<"approve">> = <<"permissions", "access-requests", path[3], "approve">>
    <3>1. <<"permissions", "access-requests">> \o <<path[3]>> = <<"permissions", "access-requests", path[3]>>
      BY AfterTwo
    <3> QED
      BY <3>1, AfterThree, Zenon
  <2>6. Sends(accessRequestControllerApprove(<<path[3]>>), route, path)
    BY <2>1, <2>2, <2>4, <2>5 DEF Sends, Mutate, accessRequestControllerApprove
  <2> QED
    BY <2>6
<1>7. CASE route = Route("AccessRequest.deny", "POST", <<"permissions", "access-requests", Param, "deny">>, {})
  <2>1. route.op = "AccessRequest.deny" /\ route.method = "POST" /\ route.pattern = <<"permissions", "access-requests", Param, "deny">>
    BY <1>7 DEF Route
  <2>2. path = <<"permissions", "access-requests", path[3], "deny">>
    BY <2>1, SpreadFour DEF Param
  <2>3. <<path[3]>> \in Pieces(path)
    BY <1>i, <2>2
  <2>4. accessRequestControllerDeny(<<path[3]>>) \in CallsWith(Pieces(path), Pieces(path), Pieces(path))
    <3>1. accessRequestControllerDeny(<<path[3]>>) \in DecisionCalls(Pieces(path))
      BY <2>3 DEF DecisionCalls
    <3> QED
      BY <3>1 DEF CallsWith
  <2>5. <<"permissions", "access-requests">> \o <<path[3]>> \o <<"deny">> = <<"permissions", "access-requests", path[3], "deny">>
    <3>1. <<"permissions", "access-requests">> \o <<path[3]>> = <<"permissions", "access-requests", path[3]>>
      BY AfterTwo
    <3> QED
      BY <3>1, AfterThree, Zenon
  <2>6. Sends(accessRequestControllerDeny(<<path[3]>>), route, path)
    BY <2>1, <2>2, <2>4, <2>5 DEF Sends, Mutate, accessRequestControllerDeny
  <2> QED
    BY <2>6
<1> QED
  BY <1>1, <1>2, <1>3, <1>4, <1>5, <1>6, <1>7 DEF Entries, PermissionsRoutes, AccessRequestRoutes

LEMMA AdministrationRoutesAnswered ==
  ASSUME NEW route \in Entries(AccessAdministrationRoutes), NEW path \in Seq(Part), Matches(route, route.method, path)
  PROVE  \E c : Sends(c, route, path)
<1>i. \A i \in DOMAIN path : <<path[i]>> \in Pieces(path)
  BY DEF Pieces
<1>f. NoFilter \in Filters
  BY IdentifierAssumption
<1>1. CASE route = Route("AccessAdministration.list", "GET", <<"tenants", Param, "access-administration">>, {})
  <2>1. route.op = "AccessAdministration.list" /\ route.method = "GET" /\ route.pattern = <<"tenants", Param, "access-administration">>
    BY <1>1 DEF Route
  <2>2. path = <<"tenants", path[2], "access-administration">>
    BY <2>1, SpreadThree DEF Param
  <2>3. <<path[2]>> \in Pieces(path)
    BY <1>i, <2>2
  <2>4. accessAdministrationControllerList(<<path[2]>>, NoFilter) \in CallsWith(Pieces(path), Pieces(path), Pieces(path))
    <3>1. accessAdministrationControllerList(<<path[2]>>, NoFilter) \in AccessCalls(Pieces(path))
      BY <2>3, <1>f DEF AccessCalls
    <3> QED
      BY <3>1 DEF CallsWith
  <2>5. administration(<<path[2]>>) = <<"tenants", path[2], "access-administration">>
    BY RolePaths
  <2>6. Sends(accessAdministrationControllerList(<<path[2]>>, NoFilter), route, path)
    BY <2>1, <2>2, <2>4, <2>5 DEF Sends, Read, accessAdministrationControllerList
  <2> QED
    BY <2>6
<1>2. CASE route = Route("AccessAdministration.assignUser", "PUT", <<"tenants", Param, "access-administration", "users", Param, "roles", Param>>, {})
  <2>1. route.op = "AccessAdministration.assignUser" /\ route.method = "PUT" /\ route.pattern = <<"tenants", Param, "access-administration", "users", Param, "roles", Param>>
    BY <1>2 DEF Route
  <2>2. path = <<"tenants", path[2], "access-administration", "users", path[5], "roles", path[7]>>
    BY <2>1, SpreadSeven DEF Param
  <2>3. <<path[2]>> \in Pieces(path) /\ <<path[5]>> \in Pieces(path) /\ <<path[7]>> \in Pieces(path)
    BY <1>i, <2>2
  <2>4. accessAdministrationControllerAssignUser(<<path[2]>>, <<path[5]>>, <<path[7]>>) \in CallsWith(Pieces(path), Pieces(path), Pieces(path))
    <3>1. accessAdministrationControllerAssignUser(<<path[2]>>, <<path[5]>>, <<path[7]>>) \in RoleCalls(Pieces(path), Pieces(path), Pieces(path))
      BY <2>3, RoleCallsHold
    <3> QED
      BY <3>1 DEF CallsWith
  <2>5. administration(<<path[2]>>) \o <<"users">> \o <<path[5]>> \o <<"roles">> \o <<path[7]>> = <<"tenants", path[2], "access-administration", "users", path[5], "roles", path[7]>>
    BY RolePaths
  <2>6. Sends(accessAdministrationControllerAssignUser(<<path[2]>>, <<path[5]>>, <<path[7]>>), route, path)
    BY <2>1, <2>2, <2>4, <2>5 DEF Sends, Mutate, accessAdministrationControllerAssignUser
  <2> QED
    BY <2>6
<1>3. CASE route = Route("AccessAdministration.revokeUser", "DELETE", <<"tenants", Param, "access-administration", "users", Param, "roles", Param>>, {})
  <2>1. route.op = "AccessAdministration.revokeUser" /\ route.method = "DELETE" /\ route.pattern = <<"tenants", Param, "access-administration", "users", Param, "roles", Param>>
    BY <1>3 DEF Route
  <2>2. path = <<"tenants", path[2], "access-administration", "users", path[5], "roles", path[7]>>
    BY <2>1, SpreadSeven DEF Param
  <2>3. <<path[2]>> \in Pieces(path) /\ <<path[5]>> \in Pieces(path) /\ <<path[7]>> \in Pieces(path)
    BY <1>i, <2>2
  <2>4. accessAdministrationControllerRevokeUser(<<path[2]>>, <<path[5]>>, <<path[7]>>) \in CallsWith(Pieces(path), Pieces(path), Pieces(path))
    <3>1. accessAdministrationControllerRevokeUser(<<path[2]>>, <<path[5]>>, <<path[7]>>) \in RoleCalls(Pieces(path), Pieces(path), Pieces(path))
      BY <2>3, RoleCallsHold
    <3> QED
      BY <3>1 DEF CallsWith
  <2>5. administration(<<path[2]>>) \o <<"users">> \o <<path[5]>> \o <<"roles">> \o <<path[7]>> = <<"tenants", path[2], "access-administration", "users", path[5], "roles", path[7]>>
    BY RolePaths
  <2>6. Sends(accessAdministrationControllerRevokeUser(<<path[2]>>, <<path[5]>>, <<path[7]>>), route, path)
    BY <2>1, <2>2, <2>4, <2>5 DEF Sends, Mutate, accessAdministrationControllerRevokeUser
  <2> QED
    BY <2>6
<1>4. CASE route = Route("AccessAdministration.assignGroup", "PUT", <<"tenants", Param, "access-administration", "groups", Param, "roles", Param>>, {})
  <2>1. route.op = "AccessAdministration.assignGroup" /\ route.method = "PUT" /\ route.pattern = <<"tenants", Param, "access-administration", "groups", Param, "roles", Param>>
    BY <1>4 DEF Route
  <2>2. path = <<"tenants", path[2], "access-administration", "groups", path[5], "roles", path[7]>>
    BY <2>1, SpreadSeven DEF Param
  <2>3. <<path[2]>> \in Pieces(path) /\ <<path[5]>> \in Pieces(path) /\ <<path[7]>> \in Pieces(path)
    BY <1>i, <2>2
  <2>4. accessAdministrationControllerAssignGroup(<<path[2]>>, <<path[5]>>, <<path[7]>>) \in CallsWith(Pieces(path), Pieces(path), Pieces(path))
    <3>1. accessAdministrationControllerAssignGroup(<<path[2]>>, <<path[5]>>, <<path[7]>>) \in RoleCalls(Pieces(path), Pieces(path), Pieces(path))
      BY <2>3, RoleCallsHold
    <3> QED
      BY <3>1 DEF CallsWith
  <2>5. administration(<<path[2]>>) \o <<"groups">> \o <<path[5]>> \o <<"roles">> \o <<path[7]>> = <<"tenants", path[2], "access-administration", "groups", path[5], "roles", path[7]>>
    BY RolePaths
  <2>6. Sends(accessAdministrationControllerAssignGroup(<<path[2]>>, <<path[5]>>, <<path[7]>>), route, path)
    BY <2>1, <2>2, <2>4, <2>5 DEF Sends, Mutate, accessAdministrationControllerAssignGroup
  <2> QED
    BY <2>6
<1>5. CASE route = Route("AccessAdministration.revokeGroup", "DELETE", <<"tenants", Param, "access-administration", "groups", Param, "roles", Param>>, {})
  <2>1. route.op = "AccessAdministration.revokeGroup" /\ route.method = "DELETE" /\ route.pattern = <<"tenants", Param, "access-administration", "groups", Param, "roles", Param>>
    BY <1>5 DEF Route
  <2>2. path = <<"tenants", path[2], "access-administration", "groups", path[5], "roles", path[7]>>
    BY <2>1, SpreadSeven DEF Param
  <2>3. <<path[2]>> \in Pieces(path) /\ <<path[5]>> \in Pieces(path) /\ <<path[7]>> \in Pieces(path)
    BY <1>i, <2>2
  <2>4. accessAdministrationControllerRevokeGroup(<<path[2]>>, <<path[5]>>, <<path[7]>>) \in CallsWith(Pieces(path), Pieces(path), Pieces(path))
    <3>1. accessAdministrationControllerRevokeGroup(<<path[2]>>, <<path[5]>>, <<path[7]>>) \in RoleCalls(Pieces(path), Pieces(path), Pieces(path))
      BY <2>3, RoleCallsHold
    <3> QED
      BY <3>1 DEF CallsWith
  <2>5. administration(<<path[2]>>) \o <<"groups">> \o <<path[5]>> \o <<"roles">> \o <<path[7]>> = <<"tenants", path[2], "access-administration", "groups", path[5], "roles", path[7]>>
    BY RolePaths
  <2>6. Sends(accessAdministrationControllerRevokeGroup(<<path[2]>>, <<path[5]>>, <<path[7]>>), route, path)
    BY <2>1, <2>2, <2>4, <2>5 DEF Sends, Mutate, accessAdministrationControllerRevokeGroup
  <2> QED
    BY <2>6
<1> QED
  BY <1>1, <1>2, <1>3, <1>4, <1>5 DEF Entries, AccessAdministrationRoutes, RoleRoute

(* What a request is answered by, some call with plain identifiers sends.  *)
LEMMA RouteHasItsCall ==
  ASSUME NEW call \in Calls, Candidates(call) # {}
  PROVE  \E c \in Spelling(call.method, Trim(call.path)) :
           c.op = RouteOf(call).op /\ SuccessOf(RouteOf(call).op, call.method) = c.success
<1> DEFINE path == Trim(call.path)
           route == RouteOf(call)
<1>1. route \in Tables /\ Matches(route, call.method, path) /\ route.method = call.method
  BY RouteOfIs DEF Matches
<1>2. path \in Seq(Part)
  BY CallsSound, TrimIs DEF SoundCall
<1> HIDE DEF path, route
<1>3. PICK c : Sends(c, route, path)
  BY <1>1, <1>2, TableIs, OtherRoutesAnswered, TenantRoutesAnswered, InvitationRoutesAnswered, GroupRoutesAnswered,
     PermissionRoutesAnswered, AdministrationRoutesAnswered
<1>4. Pieces(path) \in SUBSET One({path[i] : i \in DOMAIN path})
  BY DEF Pieces, One
<1>5. Fits(c)
  BY <1>3, <1>4, CallsFit DEF Sends
<1> QED
  BY <1>1, <1>3, <1>5 DEF Sends, Spelling, Fits, path, route

(* A route that is guarded is not public, one bound to a tenant has it in  *)
(* its path, and what is read leads neither to a decision nor a command.   *)
LEMMA RoutedFacts ==
  ASSUME NEW call \in Calls, Candidates(call) # {}
  PROVE  /\ RouteOf(call).op \in Operation
         /\ RouteOf(call).op \in Guarded => ~Public(call)
         /\ RouteOf(call).op \in Bound => Len(call.path) > 1 /\ call.path[1] = "tenants"
         /\ call.key # <<>> => RouteOf(call).op \notin Filed \union CommandOps
         /\ RouteOf(call).op \in CommandOps => call.method # "POST"
<1> DEFINE route == RouteOf(call)
<1>1. route \in Tables /\ Matches(route, call.method, Trim(call.path)) /\ Sound(route)
  BY RouteOfIs, RoutesSound
<1>2. SoundCall(call)
  BY CallsSound
<1>3. /\ Len(call.path) \in Nat /\ Len(route.pattern) \in Nat \ {0} /\ Len(route.pattern) <= Len(call.path)
      /\ \A i \in 1..Len(route.pattern) : route.pattern[i] \in {Param, call.path[i]}
  BY <1>1, <1>2, TrimIs DEF Matches, SoundCall, Sound
<1>4. route.op \in Operation
  BY <1>1, RoutesAre DEF Operation, Entries
<1>5. call.path[1] = route.pattern[1]
  BY <1>1, <1>3 DEF Sound
<1>6. route.op \in Bound => Len(call.path) > 1 /\ call.path[1] = "tenants"
  BY <1>1, <1>3, <1>5 DEF Sound
<1>7. /\ call.key # <<>> => route.op \notin Filed \union CommandOps
      /\ route.op \in CommandOps => call.method # "POST"
  BY <1>1, <1>2 DEF Sound, SoundCall, Matches
<1>8. ASSUME route.op \in Guarded PROVE ~isPublic(route, call.path)
  <2>1. route.op \notin {"Health.check", "Health.checkDatabase", "Bimi.logo"}
    BY <1>8 DEF Guarded, Filed, Bound, GroupOps, InvitationOps, CommandOps, DecisionOps
  <2>2. CASE call.path[1] \in {"tenants", "permissions"}
    BY <2>1, <2>2 DEF isPublic, isPublicPath
  <2>3. CASE Len(route.pattern) = 2 /\ route.pattern[1] = "api" /\ route.pattern[2] = "me"
    <3>1. call.path[1] = "api" /\ call.path[2] = "me"
      BY <1>3, <1>5, <2>3 DEF Param
    <3> QED
      BY <2>1, <3>1 DEF isPublic, isPublicPath
  <2> QED
    BY <1>1, <1>5, <1>8, <2>2, <2>3 DEF Sound
<1> QED
  BY <1>4, <1>6, <1>7, <1>8 DEF Public
-----------------------------------------------------------------------------
(* What the guards and the services let through                            *)

LEMMA FirstOfTwo ==
  ASSUME NEW a, NEW b, First(<<a, b>>) = 200
  PROVE  a = 200 /\ b = 200
<1> DEFINE s == <<a, b>>
           Fails(i) == s[i] # 200 /\ \A j \in 1..(i-1) : s[j] = 200
<1>1. DOMAIN s = 1..2 /\ s[1] = a /\ s[2] = b
  OBVIOUS
<1>2. SUFFICES ASSUME ~(a = 200 /\ b = 200) PROVE FALSE
  OBVIOUS
<1>3. \E i \in DOMAIN s : Fails(i)
  <2>1. CASE a # 200
    BY <1>1, <2>1
  <2>2. CASE a = 200
    BY <1>1, <1>2, <2>2
  <2> QED
    BY <2>1, <2>2
<1>4. Fails(CHOOSE i \in DOMAIN s : Fails(i))
  BY <1>3
<1>5. First(s) = s[CHOOSE i \in DOMAIN s : Fails(i)]
  BY <1>3 DEF First
<1> QED
  BY <1>4, <1>5

LEMMA FirstOfThree ==
  ASSUME NEW a, NEW b, NEW c, First(<<a, b, c>>) = 200
  PROVE  a = 200 /\ b = 200 /\ c = 200
<1> DEFINE s == <<a, b, c>>
           Fails(i) == s[i] # 200 /\ \A j \in 1..(i-1) : s[j] = 200
<1>1. DOMAIN s = 1..3 /\ s[1] = a /\ s[2] = b /\ s[3] = c
  OBVIOUS
<1>2. SUFFICES ASSUME ~(a = 200 /\ b = 200 /\ c = 200) PROVE FALSE
  OBVIOUS
<1>3. \E i \in DOMAIN s : Fails(i)
  <2>1. CASE a # 200
    BY <1>1, <2>1
  <2>2. CASE a = 200 /\ b # 200
    BY <1>1, <2>2
  <2>3. CASE a = 200 /\ b = 200
    BY <1>1, <1>2, <2>3
  <2> QED
    BY <2>1, <2>2, <2>3
<1>4. Fails(CHOOSE i \in DOMAIN s : Fails(i))
  BY <1>3
<1>5. First(s) = s[CHOOSE i \in DOMAIN s : Fails(i)]
  BY <1>3 DEF First
<1> QED
  BY <1>4, <1>5

(* Which checks decide, by operation.                                      *)
LEMMA VerdictPasses ==
  ASSUME NEW q, NEW ctx, NEW target, Verdict(q, ctx, target) = 200
  PROVE  /\ q.op \in {"Tenant.findOne", "Tenant.update"} => assertTenantAccess(ctx, target) = 200
         /\ q.op = "Tenant.update" => assertCanUpdate(target, q.user) = 200
         /\ q.op \in GroupOps => assertCanManage(target, q.user) = 200
         /\ q.op \in InvitationOps => assertCanManageInvitations(target, q.user) = 200
         /\ q.op \in {"AccessAdministration.list"} \union CommandOps =>
              assertTenant(ctx, target, q.user) = 200 /\ assertAdmin(target, q.user) = 200
         /\ q.op \in CommandOps => assertOwnerRole(target, q.call.path[7], q.user) = 200
         /\ q.op = "AccessRequest.create" => resolveCreateTenantId(target, q.user) = 200
         /\ q.op \in DecisionOps => isEligibleApprover(target, q.user) = 200
<1> DEFINE Single == {"Tenant.findOne", "Tenant.update", "AccessAdministration.list", "AccessRequest.create", "AccessRequest.listPending"}
<1>1. \A op \in GroupOps : op \notin Single
  BY DEF GroupOps
<1>2. \A op \in InvitationOps : op \notin Single \union GroupOps
  BY DEF InvitationOps, GroupOps
<1>3. \A op \in CommandOps : op \notin Single \union GroupOps \union InvitationOps
  BY DEF CommandOps, InvitationOps, GroupOps
<1>4. \A op \in DecisionOps : op \notin Single \union GroupOps \union InvitationOps \union CommandOps
  BY DEF DecisionOps, CommandOps, InvitationOps, GroupOps
<1>5. ASSUME q.op = "Tenant.update" PROVE assertTenantAccess(ctx, target) = 200 /\ assertCanUpdate(target, q.user) = 200
  <2>1. First(<<assertTenantAccess(ctx, target), assertCanUpdate(target, q.user)>>) = 200
    BY <1>1, <1>2, <1>3, <1>4, <1>5 DEF Verdict
  <2> QED
    BY <2>1, FirstOfTwo
<1>6. ASSUME q.op = "AccessAdministration.list" PROVE assertTenant(ctx, target, q.user) = 200 /\ assertAdmin(target, q.user) = 200
  <2>1. First(<<assertTenant(ctx, target, q.user), assertAdmin(target, q.user)>>) = 200
    BY <1>1, <1>2, <1>3, <1>4, <1>6 DEF Verdict
  <2> QED
    BY <2>1, FirstOfTwo
<1>7. ASSUME q.op \in CommandOps
      PROVE  /\ assertTenant(ctx, target, q.user) = 200 /\ assertAdmin(target, q.user) = 200
             /\ assertOwnerRole(target, q.call.path[7], q.user) = 200
  <2>1. First(<<assertTenant(ctx, target, q.user), assertAdmin(target, q.user),
                assertOwnerRole(target, q.call.path[7], q.user)>>) = 200
    BY <1>1, <1>2, <1>3, <1>4, <1>7 DEF Verdict
  <2> QED
    BY <2>1, FirstOfThree
<1>8. q.op = "Tenant.findOne" => assertTenantAccess(ctx, target) = 200
  BY <1>1, <1>2, <1>3, <1>4 DEF Verdict
<1>9. q.op \in GroupOps => assertCanManage(target, q.user) = 200
  BY <1>1, <1>2, <1>3, <1>4 DEF Verdict
<1>10. q.op \in InvitationOps => assertCanManageInvitations(target, q.user) = 200
  BY <1>1, <1>2, <1>3, <1>4 DEF Verdict
<1>11. q.op = "AccessRequest.create" => resolveCreateTenantId(target, q.user) = 200
  BY <1>1, <1>2, <1>3, <1>4 DEF Verdict
<1>12. q.op \in DecisionOps => isEligibleApprover(target, q.user) = 200
  BY <1>1, <1>2, <1>3, <1>4 DEF Verdict
<1> QED
  BY <1>5, <1>6, <1>7, <1>8, <1>9, <1>10, <1>11, <1>12

(* The middleware, the guards and the service's own checks together let    *)
(* nothing through that the caller is not entitled to.                     *)
LEMMA ChecksEntitle ==
  ASSUME NEW q, q.call \in Calls, Candidates(q.call) # {}, q.op = RouteOf(q.call).op,
         ~Public(q.call) => q.user # None,
         ~RolesRefuse(q), ~PermissionsRefuse(q), world.configured \in BOOLEAN,
         NEW target \in Targets(q), Verdict(q, ClaimTenancy(q), target) = 200
  PROVE  Entitlement([op |-> q.op, call |-> q.call, user |-> q.user, tenant |-> target])
<1> DEFINE c == [op |-> q.op, call |-> q.call, user |-> q.user, tenant |-> target]
<1>1. /\ RouteOf(q.call) \in Tables /\ Sound(RouteOf(q.call))
      /\ q.op \in Guarded => q.user # None
      /\ q.op \in Bound => Len(q.call.path) > 1 /\ q.call.path[1] = "tenants"
  BY RouteOfIs, RoutesSound, RoutedFacts
<1>2. q.op \in Bound => q.op \in Guarded /\ target = q.call.path[2]
  <2>1. \A op \in Bound : op \notin {"AccessRequest.create", "Tenant.createSelfService"} \union DecisionOps
    BY DEF Bound, GroupOps, InvitationOps, CommandOps, DecisionOps
  <2> QED
    BY <1>1, <2>1 DEF Targets, Guarded
<1>3. c.op = q.op /\ c.call = q.call /\ c.user = q.user /\ c.tenant = target
  OBVIOUS
<1> HIDE DEF c
<1>4. ASSUME q.op \in Bound, assertTenantAccess(ClaimTenancy(q), target) = 200 PROVE BoundToClaim(c)
  BY <1>1, <1>2, <1>3, <1>4 DEF assertTenantAccess, ClaimTenancy, BoundToClaim
<1>5. ASSUME assertTenant(ClaimTenancy(q), target, q.user) = 200 PROVE BoundToClaim(c)
  BY <1>3, <1>5 DEF assertTenant, BoundToClaim
<1>6. ASSUME assertAdmin(target, q.user) = 200 PROVE Check(c.user, "admin", c.tenant)
  BY <1>3, <1>6 DEF assertAdmin
<1>7. ASSUME q.op \in Bound, Manifest(q.op) # None PROVE Permitted(c)
  BY <1>2, <1>3, <1>7 DEF PermissionsRefuse, Permitted
<1>n. None \notin {"read", "update"}
  BY PipelineAssumption
<1>8. c.op = "Tenant.findAll" => "support-agent" \in c.user.roles
  <2>1. c.op = "Tenant.findAll" => q.user.roles \intersect {"support-agent"} # {}
    BY <1>1, <1>3 DEF RolesRefuse, Sound
  <2> QED
    BY <1>3, <2>1
<1>9. c.op = "Tenant.create" => c.user.roles \intersect {"support-agent", "tenant-admin"} # {}
  BY <1>1, <1>3 DEF RolesRefuse, Sound
<1>10. c.op = "Tenant.findOne" => BoundToClaim(c)
  BY <1>3, <1>4, VerdictPasses DEF Bound
<1>11. c.op = "Tenant.update" => BoundToClaim(c) /\ Manages(c) /\ Permitted(c)
  <2> SUFFICES ASSUME q.op = "Tenant.update" PROVE BoundToClaim(c) /\ Manages(c) /\ Permitted(c)
    BY <1>3
  <2>1. assertTenantAccess(ClaimTenancy(q), target) = 200 /\ assertCanUpdate(target, q.user) = 200
    BY VerdictPasses
  <2>2. Manages(c)
    BY <1>3, <2>1 DEF assertCanUpdate, Manages
  <2> QED
    BY <1>4, <1>7, <1>n, <2>1, <2>2 DEF Bound, Manifest
<1>12. c.op \in GroupOps => Manages(c) /\ Permitted(c)
  <2> SUFFICES ASSUME q.op \in GroupOps PROVE Manages(c) /\ Permitted(c)
    BY <1>3
  <2>1. assertCanManage(target, q.user) = 200
    BY VerdictPasses
  <2>2. Manages(c)
    BY <1>3, <2>1 DEF assertCanManage, Manages
  <2> QED
    BY <1>7, <1>n, <2>2 DEF Bound, Manifest, GroupOps
<1>13. c.op \in InvitationOps => Manages(c) \/ "support-agent" \in c.user.roles
  <2> SUFFICES ASSUME q.op \in InvitationOps PROVE Manages(c) \/ "support-agent" \in c.user.roles
    BY <1>3
  <2>1. assertCanManageInvitations(target, q.user) = 200
    BY VerdictPasses
  <2> QED
    BY <1>3, <2>1 DEF assertCanManageInvitations, Manages
<1>14. c.op = "AccessAdministration.list" => BoundToClaim(c) /\ Check(c.user, "admin", c.tenant)
  BY <1>3, <1>5, <1>6, VerdictPasses
<1>15. c.op \in CommandOps => /\ BoundToClaim(c) /\ Check(c.user, "admin", c.tenant)
                              /\ c.call.path[7] = "owner" => ActsAsOwner(c.user, c.tenant)
  <2> SUFFICES ASSUME q.op \in CommandOps
               PROVE  /\ BoundToClaim(c) /\ Check(c.user, "admin", c.tenant)
                      /\ c.call.path[7] = "owner" => ActsAsOwner(c.user, c.tenant)
    BY <1>3
  <2>1. /\ assertTenant(ClaimTenancy(q), target, q.user) = 200 /\ assertAdmin(target, q.user) = 200
        /\ assertOwnerRole(target, q.call.path[7], q.user) = 200
    BY VerdictPasses
  <2> QED
    BY <1>3, <1>5, <1>6, <2>1 DEF assertOwnerRole
<1>16. c.op = "AccessRequest.create" => c.tenant = c.user.tenantId \/ IsMember(c.user, c.tenant)
  <2> SUFFICES ASSUME q.op = "AccessRequest.create" PROVE c.tenant = c.user.tenantId \/ IsMember(c.user, c.tenant)
    BY <1>3
  <2>1. resolveCreateTenantId(target, q.user) = 200
    BY VerdictPasses
  <2>2. target # None \/ target = q.user.tenantId
    BY PipelineAssumption DEF Targets
  <2> QED
    BY <1>3, <2>1, <2>2 DEF resolveCreateTenantId
<1>17. c.op \in DecisionOps => /\ c.tenant = c.user.tenantId
                               /\ Check(c.user, "admin", c.tenant) \/ c.user.oid \in world.managers
  <2> SUFFICES ASSUME q.op \in DecisionOps
               PROVE  c.tenant = c.user.tenantId /\ (Check(c.user, "admin", c.tenant) \/ c.user.oid \in world.managers)
    BY <1>3
  <2>1. isEligibleApprover(target, q.user) = 200
    BY VerdictPasses
  <2> QED
    BY <1>3, <2>1 DEF isEligibleApprover
<1> QED
  BY <1>8, <1>9, <1>10, <1>11, <1>12, <1>13, <1>14, <1>15, <1>16, <1>17 DEF Entitlement, c
-----------------------------------------------------------------------------
(* Types of what a request carries                                         *)

LEMMA Identified ==
  ASSUME NEW u \in Identities, u # None
  PROVE  /\ u.oid # None /\ u.email # None
         /\ u.tenantId \in Claimed /\ u.tenantId \in Target /\ u.oid \in Subject
<1>1. ASSUME NEW c, mapEntraClaims(c) # None PROVE mapEntraClaims(c).oid # None /\ mapEntraClaims(c).email # None
  BY <1>1 DEF mapEntraClaims, Identity
<1>2. u.oid # None /\ u.email # None
  BY <1>1 DEF Identities, mapAuthJsUser
<1>3. u.tenantId \in Claimed
  BY DEF Claimed
<1> QED
  BY <1>2, <1>3 DEF Target, Subject

LEMMA CallerIs ==
  ASSUME world \in Worlds
  PROVE  Caller \in Identities /\ SessionUser \in Identities
BY DEF Caller, SessionUser, BearerUser, Identities

LEMMA RequestFields ==
  ASSUME NEW q \in Request
  PROVE  /\ q.at \in {"idle", "settled", "token", "sent", "persist", "guards", "handler", "answered"}
         /\ q.at = "token" => q \in Waiting
         /\ q.at \in {"sent", "persist", "guards", "handler"} => q \in Flight
         /\ q.at = "answered" => q \in Answered
BY DEF Request, Waiting, Flight, Answered

LEMMA FlightGoesOn ==
  ASSUME NEW q \in Flight, NEW at \in {"sent", "persist", "guards", "handler"}, NEW user \in Identities \union {None}
  PROVE  LET next == [q EXCEPT !.at = at, !.user = user] IN
         /\ next \in Flight /\ next \in Request
         /\ next.at = at /\ next.user = user /\ next.call = q.call /\ next.op = q.op
BY DEF Flight, Request

LEMMA TargetsTyped ==
  ASSUME NEW q, q.call \in Calls, Candidates(q.call) # {}, q.op = RouteOf(q.call).op,
         q.user \in Identities \union {None}, ~Public(q.call) => q.user # None
  PROVE  Targets(q) \subseteq Target
<1>1. q.op = "AccessRequest.create" => q.user.tenantId \in Target
  <2>1. "AccessRequest.create" \in Guarded
    BY DEF Guarded, Filed
  <2> QED
    BY <2>1, RoutedFacts, Identified
<1>2. Len(q.call.path) > 1 => q.call.path[2] \in Target
  <2>1. q.call.path \in Seq(Part)
    BY CallsSound DEF SoundCall
  <2>2. Len(q.call.path) > 1 => 2 \in DOMAIN q.call.path
    BY <2>1
  <2> QED
    BY <2>2 DEF Target
<1>3. Active \subseteq Target /\ None \in Target
  BY DEF Target
<1> QED
  BY <1>1, <1>2, <1>3 DEF Targets

LEMMA AboutTyped ==
  ASSUME NEW q, q.call \in Calls, Candidates(q.call) # {}, q.op = RouteOf(q.call).op,
         q.user \in Identities \union {None}, ~Public(q.call) => q.user # None, NEW target \in Target
  PROVE  About(q, target) \in Operation \X Subject
<1>1. q.op \in Operation
  BY RoutedFacts
<1>2. ASSUME q.op \in {"AccessRequest.listPending", "AccessRequest.listMine", "SingleSignOn.me"} PROVE q.user \in Identities /\ q.user # None
  <2>1. q.op \in Guarded
    BY <1>2 DEF Guarded
  <2> QED
    BY <2>1, RoutedFacts
<1>3. Target \subseteq Subject
  BY DEF Subject
<1> QED
  BY <1>1, <1>2, <1>3, Identified DEF About

(* What is read is about its path and its caller, not about a header.      *)
LEMMA ToldIs ==
  ASSUME NEW q, q.call \in Calls, Candidates(q.call) # {}, q.op = RouteOf(q.call).op,
         IF Public(q.call) THEN q.user = None ELSE q.user = Caller,
         q.call.key # <<>>, NEW target \in Targets(q)
  PROVE  About(q, target) = Told(q.call)
<1>1. q.op \notin Filed
  BY RoutedFacts
<1>2. target = TargetOf(q.call)
  BY <1>1 DEF Targets, TargetOf, Filed
<1> DEFINE p == [op |-> RouteOf(q.call).op, call |-> q.call, user |-> IF Public(q.call) THEN None ELSE Caller]
<1>3. p.op = q.op /\ p.user = q.user /\ Told(q.call) = About(p, target)
  BY <1>2 DEF Told
<1> HIDE DEF p
<1> QED
  BY <1>3 DEF About
-----------------------------------------------------------------------------
(* Steps of a request                                                      *)

(* Who is signed in and what is stored about them does not change.         *)
LEMMA WorldStays ==
  ASSUME world' = world
  PROVE  /\ \A q : Good(q) => Good(q)'
         /\ \A call : Told(call)' = Told(call)
<1>1. Caller' = Caller
  BY DEF Caller, SessionUser, BearerUser
<1>2. \A call : Told(call)' = Told(call)
  BY <1>1 DEF Told
<1>3. \A q : PermissionsRefuse(q)' = PermissionsRefuse(q)
  BY DEF PermissionsRefuse, Check
<1>4. \A c : Entitlement(c)' = Entitlement(c)
  BY DEF Entitlement, BoundToClaim, Manages, Permitted, Check, IsOwner, IsMember, ActsAsOwner, checkTenantRole
<1> QED
  BY <1>1, <1>2, <1>3, <1>4 DEF Good

(* The requests in flight when one that was, or was not, counted goes on.  *)
LEMMA CountedFinite ==
  ASSUME NEW S \in SUBSET Requests
  PROVE  IsFiniteSet(S) /\ Cardinality(S) \in Nat /\ Cardinality(S) <= Cardinality(Requests) /\ Cardinality(Requests) \in Nat
<1>1. IsFiniteSet(Requests)
  BY PipelineAssumption
<1> QED
  BY <1>1, FS_Subset, FS_CardinalityType

LEMMA RequestMoves ==
  ASSUME PipelineInv, UNCHANGED world, NEW r \in Requests, NEW next \in Request,
         req' = [req EXCEPT ![r] = next],
         next.at \notin {"idle", "settled"} => next.call \in Offered[r],
         Good(next),
         config' \in Active \union {None}, \A oid \in DOMAIN users' : users'[oid] # None,
         UNCHANGED answers,
         \/ UNCHANGED hits /\ (req[r].at \notin {"idle", "token"} => next.at \notin {"idle", "token"})
         \/ hits' = hits + 1 /\ req[r].at \in {"idle", "token"} /\ next.at \notin {"idle", "token"}
  PROVE  PipelineInv'
<1>1. /\ world \in Worlds /\ hits \in Nat /\ req \in [Requests -> Request] /\ HitsInv
      /\ answers \in SUBSET [key : {call.key : call \in Calls}, about : Operation \X Subject]
      /\ \A q \in Requests : Good(req[q]) /\ (req[q].at \notin {"idle", "settled"} => req[q].call \in Offered[q])
  BY DEF PipelineInv, TypeOK
<1>2. req' \in [Requests -> Request] /\ req'[r] = next /\ \A q \in Requests \ {r} : req'[q] = req[q]
  BY <1>1
<1>3. \A q \in Requests : Good(req[q])'
  <2>1. Good(next)'
    BY WorldStays
  <2>2. ASSUME NEW q \in Requests PROVE Good(req[q])'
    <3>1. CASE q = r
      BY <1>2, <2>1, <3>1 DEF Good
    <3>2. CASE q # r
      <4>1. PICK old : old = req[q]
        OBVIOUS
      <4>2. Good(old)' /\ req'[q] = old
        BY <1>1, <1>2, <3>2, <4>1, WorldStays
      <4> QED
        BY <4>2 DEF Good
    <3> QED
      BY <3>1, <3>2
  <2> QED
    BY <2>2
<1>4. \A q \in Requests : req'[q].at \notin {"idle", "settled"} => req'[q].call \in Offered[q]
  BY <1>1, <1>2
<1>5. AnswersInv'
  BY WorldStays DEF PipelineInv, AnswersInv
<1>6. HitsInv' /\ hits' \in 0..Cardinality(Requests)
  <2>1. Counted \in SUBSET Requests /\ Counted' \in SUBSET Requests
    BY DEF Counted
  <2>2. IsFiniteSet(Counted) /\ Cardinality(Counted') \in Nat /\ Cardinality(Counted') <= Cardinality(Requests) /\ Cardinality(Requests) \in Nat
    BY <2>1, CountedFinite
  <2>3. HitsInv'
    <3>1. CASE UNCHANGED hits /\ (req[r].at \notin {"idle", "token"} => next.at \notin {"idle", "token"})
      <4>1. Counted \subseteq Counted'
        BY <1>2, <3>1 DEF Counted
      <4>2. IsFiniteSet(Counted')
        BY <2>1, CountedFinite
      <4>3. Cardinality(Counted) <= Cardinality(Counted')
        BY <4>1, <4>2, FS_Subset
      <4>4. Cardinality(Counted) \in Nat
        BY <2>1, CountedFinite
      <4> QED
        BY <1>1, <2>2, <3>1, <4>3, <4>4 DEF HitsInv
    <3>2. CASE hits' = hits + 1 /\ req[r].at \in {"idle", "token"} /\ next.at \notin {"idle", "token"}
      <4>1. Counted' = Counted \union {r} /\ r \notin Counted
        BY <1>2, <3>2 DEF Counted
      <4>2. Cardinality(Counted') = Cardinality(Counted) + 1
        BY <2>2, <4>1, FS_AddElement
      <4>3. Cardinality(Counted) \in Nat
        BY <2>1, CountedFinite
      <4> QED
        BY <1>1, <3>2, <4>2, <4>3 DEF HitsInv
    <3> QED
      BY <3>1, <3>2
  <2> QED
    BY <1>1, <2>2, <2>3 DEF HitsInv
<1>7. TypeOK'
  BY <1>1, <1>2, <1>4, <1>6 DEF TypeOK
<1> QED
  BY <1>3, <1>5, <1>6, <1>7 DEF PipelineInv

(* A request is answered, with no more than its caller is entitled to.     *)
LEMMA AnswerStep ==
  ASSUME PipelineInv, UNCHANGED <<world, config, answers>>, NEW r \in Requests,
         req[r].at \in {"token", "sent", "persist", "guards", "handler"},
         NEW next \in Answered, req' = [req EXCEPT ![r] = next], next.call = req[r].call, Routed(next),
         \A tenant \in next.served : Entitlement([op |-> next.op, call |-> next.call, user |-> next.user, tenant |-> tenant]),
         next.call.key # <<>> /\ next.status = 200 =>
           Candidates(next.call) # {} /\ next.about = Told(next.call) /\ next.about \in Operation \X Subject,
         \A oid \in DOMAIN users' : users'[oid] # None,
         UNCHANGED hits \/ (hits' = hits + 1 /\ req[r].at = "token")
  PROVE  PipelineInv'
<1>1. /\ req[r].call \in Offered[r] /\ req[r].call \in Calls /\ config \in Active \union {None}
      /\ req[r].call.enabled
  BY PipelineAssumption DEF PipelineInv, TypeOK, Good
<1>2. next \in Request /\ next.at = "answered"
  BY DEF Request, Answered
<1>3. Good(next)
  BY <1>1, <1>2, CallsSound DEF Good, SoundCall
<1> QED
  BY <1>1, <1>2, <1>3, RequestMoves

(* A refusal serves nothing and is no success of anything that is cached.  *)
LEMMA NothingServed ==
  ASSUME PipelineInv, UNCHANGED <<world, config, answers, users>>, NEW r \in Requests,
         req[r].at \in {"token", "sent", "persist", "guards", "handler"},
         NEW op \in Operation \union {None}, NEW user \in Identities \union {None}, NEW status \in 400..599,
         IF op = None THEN status = 404 => Candidates(req[r].call) = {}
         ELSE Candidates(req[r].call) # {} /\ op = RouteOf(req[r].call).op,
         Answer(r, op, user, status, None, {}),
         UNCHANGED hits \/ (hits' = hits + 1 /\ req[r].at = "token")
  PROVE  PipelineInv'
<1> DEFINE next == [at |-> "answered", call |-> req[r].call, op |-> op, user |-> user,
                    status |-> status, about |-> None, served |-> {}]
<1>1. /\ req[r].call \in Calls /\ \A oid \in DOMAIN users' : users'[oid] # None
  BY PipelineAssumption DEF PipelineInv, TypeOK
<1>2. req' = [req EXCEPT ![r] = next]
  BY DEF Answer
<1>3. next \in Answered /\ next.call = req[r].call /\ next.served = {} /\ next.status # 200 /\ Routed(next)
  BY <1>1 DEF Answered, Routed
<1> HIDE DEF next
<1>4. UNCHANGED <<world, config, answers>>
  OBVIOUS
<1> QED
  BY <1>1, <1>2, <1>3, <1>4, AnswerStep

LEMMA RefuseStep ==
  ASSUME PipelineInv, UNCHANGED <<world, config, hits, answers, users>>, NEW r \in Requests,
         req[r].at \in {"sent", "persist", "guards", "handler"},
         NEW status \in 400..599, Refuse(r, status)
  PROVE  PipelineInv'
<1>1. req[r] \in Flight
  BY RequestFields DEF PipelineInv, TypeOK
<1>2. req[r].op \in Operation /\ req[r].user \in Identities \union {None}
  BY <1>1 DEF Flight
<1>3. Candidates(req[r].call) # {} /\ req[r].op = RouteOf(req[r].call).op
  BY DEF PipelineInv, Good
<1>4. req[r].op # None /\ req[r].op \in Operation \union {None}
  BY <1>2, NoneIsNoOperation
<1> QED
  BY <1>2, <1>3, <1>4, NothingServed, ZenonT(60) DEF Refuse

LEMMA CustomFetchStep ==
  ASSUME PipelineInv, NEW r \in Requests, NEW call \in Offered[r], CustomFetch(r, call)
  PROVE  PipelineInv'
<1> DEFINE next == [at |-> "token", call |-> call, header |-> config]
<1>1. req' = [req EXCEPT ![r] = next] /\ req[r].at = "idle" /\ call.enabled /\ UNCHANGED <<world, config, users, hits, answers>>
  BY DEF CustomFetch
<1>2. call \in Calls /\ config \in Active \union {None} /\ \A oid \in DOMAIN users : users[oid] # None
  BY PipelineAssumption DEF PipelineInv, TypeOK
<1>3. next \in Request /\ next.at = "token" /\ next.call = call
  BY <1>2 DEF Request, Waiting
<1> HIDE DEF next
<1>4. Good(next)
  BY <1>1, <1>3 DEF Good
<1> QED
  BY <1>1, <1>2, <1>3, <1>4, RequestMoves

LEMMA ArriveStep ==
  ASSUME PipelineInv, NEW r \in Requests, Arrive(r)
  PROVE  PipelineInv'
<1>1. /\ req[r].at = "token" /\ UNCHANGED <<world, config, users, answers>>
      /\ req[r] \in Waiting /\ req[r].call \in Offered[r] /\ req[r].call.enabled /\ world \in Worlds
      /\ config \in Active \union {None} /\ \A oid \in DOMAIN users : users[oid] # None
  BY RequestFields DEF Arrive, PipelineInv, TypeOK, Good
<1>2. req[r].call \in Calls /\ req[r].header \in Active \union {None}
  BY <1>1 DEF Waiting
<1>3. ASSUME NEW status \in 400..599, status = 404 => Candidates(req[r].call) = {},
             Answer(r, None, None, status, None, {}), UNCHANGED hits \/ hits' = hits + 1
      PROVE  PipelineInv'
  <2>1. None \in Operation \union {None} /\ None \in Identities \union {None}
    OBVIOUS
  <2> QED
    BY <1>1, <1>3, <2>1, NothingServed, ZenonT(60)
<1>4. CASE Candidates(req[r].call) # {} /\ hits' = hits + 1 /\ ~(hits >= Limit)
  <2> DEFINE next == [at |-> "sent", call |-> req[r].call, user |-> None,
                      op |-> RouteOf(req[r].call).op, ctx |-> Tenancy(r), header |-> req[r].header]
  <2>1. req' = [req EXCEPT ![r] = next]
    BY <1>4 DEF Arrive
  <2>2. Tenancy(r) \in Active \union Claimed \union {None}
    BY <1>1, <1>2, CallerIs, Identified DEF Tenancy
  <2>3. RouteOf(req[r].call).op \in Operation
    BY <1>2, <1>4, RoutedFacts
  <2>4. next \in Request
    BY <1>2, <2>2, <2>3 DEF Request, Flight
  <2>5. next.at = "sent" /\ next.call = req[r].call /\ next.op = RouteOf(req[r].call).op /\ next.user = None
    OBVIOUS
  <2> HIDE DEF next
  <2>6. Good(next)
    BY <1>1, <1>4, <2>5 DEF Good
  <2> QED
    BY <1>1, <1>4, <2>1, <2>4, <2>5, <2>6, RequestMoves
<1> QED
  BY <1>3, <1>4 DEF Arrive

(* A request on its way goes one step further.                             *)
LEMMA FlightStep ==
  ASSUME PipelineInv, UNCHANGED <<world, config, hits, answers>>, NEW r \in Requests,
         req[r].at \in {"sent", "persist", "guards", "handler"},
         NEW next \in Flight, req' = [req EXCEPT ![r] = next], next.call = req[r].call,
         Good(next), \A oid \in DOMAIN users' : users'[oid] # None
  PROVE  PipelineInv'
<1>1. req[r].call \in Offered[r] /\ config' \in Active \union {None}
  BY DEF PipelineInv, TypeOK
<1>2. next \in Request /\ next.at \notin {"idle", "token"}
  BY DEF Request, Flight
<1> QED
  BY <1>1, <1>2, RequestMoves

LEMMA InFlight ==
  ASSUME PipelineInv, NEW r \in Requests, req[r].at \in {"sent", "persist", "guards", "handler"}
  PROVE  /\ req[r] \in Flight /\ req \in [Requests -> Request] /\ Good(req[r])
         /\ req[r].call \in Calls /\ Candidates(req[r].call) # {} /\ req[r].op = RouteOf(req[r].call).op
         /\ req[r].user \in Identities \union {None} /\ world \in Worlds /\ req[r].call.enabled
         /\ \A oid \in DOMAIN users : users[oid] # None
<1>1. /\ req \in [Requests -> Request] /\ Good(req[r]) /\ world \in Worlds
      /\ \A oid \in DOMAIN users : users[oid] # None
  BY DEF PipelineInv, TypeOK
<1>2. req[r] \in Flight
  BY <1>1, RequestFields
<1> QED
  BY <1>1, <1>2 DEF Good, Flight

LEMMA AuthenticateStep ==
  ASSUME PipelineInv, NEW r \in Requests, Authenticate(r)
  PROVE  PipelineInv'
<1>1. req[r].at = "sent" /\ UNCHANGED <<world, config, users, hits, answers>>
  BY DEF Authenticate
<1> DEFINE q == req[r]
<1>2. /\ q \in Flight /\ q.call \in Calls /\ q.call.enabled /\ Candidates(q.call) # {} /\ q.op = RouteOf(q.call).op
      /\ q.user \in Identities \union {None} /\ world \in Worlds /\ \A oid \in DOMAIN users' : users'[oid] # None
  BY <1>1, InFlight
<1>3. Caller \in Identities
  BY <1>2, CallerIs
<1>4. CASE ~Public(q.call) /\ Caller = None
  <2>1. Refuse(r, 401)
    BY <1>4 DEF Authenticate, Caller, Public
  <2> QED
    BY <1>1, <2>1, RefuseStep
<1>5. CASE ~Public(q.call) /\ Caller # None
  <2> DEFINE next == [q EXCEPT !.at = "persist", !.user = Caller]
  <2>1. req' = [req EXCEPT ![r] = next]
    BY <1>5 DEF Authenticate, Caller, Public
  <2>2. next \in Flight /\ next.at = "persist" /\ next.user = Caller /\ next.call = q.call /\ next.op = q.op
    BY <1>2, <1>3 DEF Flight
  <2> HIDE DEF next
  <2>3. Good(next)
    BY <1>2, <1>5, <2>2 DEF Good
  <2> QED
    BY <1>1, <1>2, <2>1, <2>2, <2>3, FlightStep
<1>6. CASE Public(q.call)
  <2> DEFINE next == [q EXCEPT !.at = "guards"]
  <2>1. req' = [req EXCEPT ![r] = next]
    BY <1>6 DEF Authenticate, Public
  <2>2. next \in Flight /\ next.at = "guards" /\ next.user = q.user /\ next.call = q.call /\ next.op = q.op
    BY <1>2 DEF Flight
  <2> HIDE DEF next
  <2>3. Good(next)
    BY <1>1, <1>2, <1>6, <2>2, InFlight DEF Good
  <2> QED
    BY <1>1, <1>2, <2>1, <2>2, <2>3, FlightStep
<1> QED
  BY <1>4, <1>5, <1>6
LEMMA PersistStep ==
  ASSUME PipelineInv, NEW r \in Requests, Persist(r)
  PROVE  PipelineInv'
<1> DEFINE q == req[r]
           u == q.user
<1>1. q.at = "persist" /\ UNCHANGED <<world, config, hits, answers>>
  BY DEF Persist
<1>2. /\ q \in Flight /\ q.call \in Calls /\ q.call.enabled /\ Candidates(q.call) # {} /\ q.op = RouteOf(q.call).op
      /\ u \in Identities \union {None} /\ \A oid \in DOMAIN users : users[oid] # None
      /\ u = Caller /\ u # None /\ ~Public(q.call)
  BY <1>1, InFlight DEF Good
<1>3. CASE \E oid \in DOMAIN users \ {u.oid} : users[oid] = u.email
  <2>1. Refuse(r, 500) /\ UNCHANGED users
    BY <1>3 DEF Persist
  <2> QED
    BY <1>1, <2>1, RefuseStep
<1>4. CASE ~ \E oid \in DOMAIN users \ {u.oid} : users[oid] = u.email
  <2> DEFINE next == [q EXCEPT !.at = "guards"]
  <2>1. /\ req' = [req EXCEPT ![r] = next]
        /\ users' = [oid \in DOMAIN users \union {u.oid} |-> IF oid = u.oid THEN u.email ELSE users[oid]]
    BY <1>4 DEF Persist
  <2>2. next \in Flight /\ next.at = "guards" /\ next.user = u /\ next.call = q.call /\ next.op = q.op
    BY <1>2 DEF Flight
  <2> HIDE DEF next
  <2>3. Good(next)
    BY <1>2, <2>2 DEF Good
  <2>4. \A oid \in DOMAIN users' : users'[oid] # None
    BY <1>2, <2>1, Identified
  <2> QED
    BY <1>1, <1>2, <2>1, <2>2, <2>3, <2>4, FlightStep
<1> QED
  BY <1>3, <1>4

LEMMA GuardStep ==
  ASSUME PipelineInv, NEW r \in Requests, Guard(r)
  PROVE  PipelineInv'
<1> DEFINE q == req[r]
<1>1. q.at = "guards" /\ UNCHANGED <<world, config, users, hits, answers>>
  BY DEF Guard
<1>2. /\ q \in Flight /\ q.call \in Calls /\ q.call.enabled /\ Candidates(q.call) # {} /\ q.op = RouteOf(q.call).op
      /\ \A oid \in DOMAIN users' : users'[oid] # None
      /\ IF Public(q.call) THEN q.user = None ELSE q.user = Caller /\ q.user # None
  BY <1>1, InFlight DEF Good
<1>3. CASE RolesRefuse(q) \/ PermissionsRefuse(q)
  <2>1. Refuse(r, 403)
    BY <1>3 DEF Guard
  <2> QED
    BY <1>1, <2>1, RefuseStep
<1>4. CASE ~(RolesRefuse(q) \/ PermissionsRefuse(q))
  <2> DEFINE next == [q EXCEPT !.at = "handler"]
  <2>1. req' = [req EXCEPT ![r] = next]
    BY <1>4 DEF Guard
  <2>2. next \in Flight /\ next.at = "handler" /\ next.user = q.user /\ next.call = q.call /\ next.op = q.op
    BY <1>2 DEF Flight
  <2> HIDE DEF next
  <2>3. ~RolesRefuse(next) /\ ~PermissionsRefuse(next)
    BY <1>4, <2>2 DEF RolesRefuse, PermissionsRefuse
  <2>4. Good(next)
    BY <1>2, <2>2, <2>3 DEF Good
  <2> QED
    BY <1>1, <1>2, <2>1, <2>2, <2>4, FlightStep
<1> QED
  BY <1>3, <1>4

LEMMA ReplayStep ==
  ASSUME PipelineInv, NEW r \in Requests, Replay(r)
  PROVE  PipelineInv'
<1> DEFINE q == req[r]
           next == [at |-> "answered", call |-> q.call, op |-> q.op, user |-> q.user,
                    status |-> 200, about |-> About(q, q.call.path[2]), served |-> {}]
<1>1. /\ q.at = "handler" /\ q.op \in CommandOps /\ req' = [req EXCEPT ![r] = next]
      /\ UNCHANGED <<world, config, users, hits, answers>>
  BY DEF Replay, Answer
<1>2. /\ q \in Flight /\ q.call \in Calls /\ q.call.enabled /\ Candidates(q.call) # {} /\ q.op = RouteOf(q.call).op
      /\ q.user \in Identities \union {None} /\ \A oid \in DOMAIN users' : users'[oid] # None
      /\ ~Public(q.call) => q.user # None
  BY <1>1, InFlight DEF Good
<1>3. q.op \in Operation /\ q.call.key = <<>> /\ q.call.method # "POST"
  BY <1>1, <1>2, RoutedFacts
<1>4. q.call.path[2] \in Target
  <2>1. q.op \in Bound /\ q.op \notin {"AccessRequest.create", "Tenant.createSelfService"} \union DecisionOps
    BY <1>1 DEF Bound, CommandOps, DecisionOps
  <2>2. Targets(q) = {q.call.path[2]}
    BY <1>2, <2>1, RoutedFacts DEF Targets
  <2> QED
    BY <1>2, <2>2, TargetsTyped
<1>5. About(q, q.call.path[2]) \in Operation \X Subject
  BY <1>2, <1>4, AboutTyped
<1>6. next \in Answered /\ next.call = q.call /\ next.op = q.op /\ next.status = 200 /\ next.served = {}
  BY <1>2, <1>3, <1>5 DEF Answered
<1> HIDE DEF next
<1>7. Routed(next)
  <2>1. q.op \notin {"TenantGroup.remove", "TenantGroup.removeMember", "TenantInvitation.revoke"}
    BY <1>1 DEF CommandOps
  <2>2. SuccessOf(q.op, q.call.method) = 200
    BY <1>3, <2>1 DEF SuccessOf
  <2> QED
    BY <1>2, <1>3, <1>6, <2>2, NoneIsNoOperation DEF Routed
<1>8. next.call.key = <<>> /\ \A tenant \in next.served : FALSE
  BY <1>3, <1>6
<1> QED
  BY <1>1, <1>2, <1>6, <1>7, <1>8, AnswerStep

LEMMA VerdictIs ==
  ASSUME NEW q, NEW ctx, NEW target
  PROVE  Verdict(q, ctx, target) \in {200} \union 400..599
<1> DEFINE Status == {200, 400, 401, 403}
<1>1. /\ assertTenantAccess(ctx, target) \in Status /\ assertCanUpdate(target, q.user) \in Status
      /\ assertCanManage(target, q.user) \in Status /\ assertCanManageInvitations(target, q.user) \in Status
      /\ assertTenant(ctx, target, q.user) \in Status /\ assertAdmin(target, q.user) \in Status
      /\ assertOwnerRole(target, q.call.path[7], q.user) \in Status
      /\ resolveCreateTenantId(target, q.user) \in Status /\ isEligibleApprover(target, q.user) \in Status
  BY DEF assertTenantAccess, assertCanUpdate, assertCanManage, assertCanManageInvitations, assertTenant, assertAdmin,
         assertOwnerRole, resolveCreateTenantId, isEligibleApprover
<1>2. ASSUME NEW s, \A i \in DOMAIN s : s[i] \in Status, DOMAIN s \in {1..2, 1..3} PROVE First(s) \in Status
  <2> DEFINE Fails(i) == s[i] # 200 /\ \A j \in 1..(i-1) : s[j] = 200
  <2>1. CASE \E i \in DOMAIN s : s[i] # 200
    <3>1. \E i \in DOMAIN s : Fails(i)
      <4>1. CASE s[1] # 200
        BY <1>2, <4>1
      <4>2. CASE s[1] = 200 /\ s[2] # 200
        BY <1>2, <4>2
      <4>3. CASE s[1] = 200 /\ s[2] = 200
        BY <1>2, <2>1, <4>3
      <4> QED
        BY <4>1, <4>2, <4>3
    <3>2. (CHOOSE i \in DOMAIN s : Fails(i)) \in DOMAIN s
      BY <3>1
    <3>3. First(s) = s[CHOOSE i \in DOMAIN s : Fails(i)]
      BY <2>1 DEF First
    <3> QED
      BY <1>2, <3>2, <3>3
  <2>2. CASE ~ \E i \in DOMAIN s : s[i] # 200
    BY <2>2 DEF First
  <2> QED
    BY <2>1, <2>2
<1> HIDE DEF Status
<1>3. \A a, b \in Status : First(<<a, b>>) \in Status
  BY <1>2
<1>4. \A a, b, c \in Status : First(<<a, b, c>>) \in Status
  BY <1>2
<1>5. 200 \in Status /\ 400 \in Status /\ \A s \in Status : s \in {200} \union 400..599
  BY DEF Status
<1>6. Verdict(q, ctx, target) \in Status
  <2>1. /\ First(<<assertTenantAccess(ctx, target), assertCanUpdate(target, q.user)>>) \in Status
        /\ First(<<assertTenant(ctx, target, q.user), assertAdmin(target, q.user)>>) \in Status
        /\ First(<<assertTenant(ctx, target, q.user), assertAdmin(target, q.user),
                   assertOwnerRole(target, q.call.path[7], q.user)>>) \in Status
    BY <1>1, <1>3, <1>4
  <2> QED
    BY <1>1, <1>5, <2>1 DEF Verdict
<1>7. ASSUME NEW v \in Status PROVE v \in {200} \union 400..599
  BY <1>7 DEF Status
<1> QED
  BY <1>6, <1>7

LEMMA StatusesAre ==
  /\ \A op : DataErrors(op) \subseteq 400..599
  /\ \A op, method : SuccessOf(op, method) \in 200..299
BY DEF DataErrors, SuccessOf

LEMMA SuccessTyped ==
  ASSUME NEW call \in Calls, NEW op \in Operation, NEW user \in Identities \union {None},
         NEW about \in Operation \X Subject, NEW target \in Target
  PROVE  [at |-> "answered", call |-> call, op |-> op, user |-> user, status |-> SuccessOf(op, call.method),
          about |-> about, served |-> {target}] \in Answered
<1>1. SuccessOf(op, call.method) \in 200..599
  BY StatusesAre
<1> QED
  BY <1>1 DEF Answered

LEMMA HandleStep ==
  ASSUME PipelineInv, NEW r \in Requests, Handle(r)
  PROVE  PipelineInv'
<1> DEFINE q == req[r]
<1>1. q.at = "handler" /\ UNCHANGED <<world, config, users, hits, answers>>
  BY DEF Handle
<1>2. PICK target \in Targets(q) :
        \/ /\ Verdict(q, ClaimTenancy(q), target) = 200
           /\ Answer(r, q.op, q.user, SuccessOf(q.op, q.call.method), About(q, target), {target})
        \/ \E status \in IF Verdict(q, ClaimTenancy(q), target) = 200 THEN DataErrors(q.op)
                         ELSE {Verdict(q, ClaimTenancy(q), target)} : Refuse(r, status)
  BY DEF Handle
<1>3. /\ q \in Flight /\ q.call \in Calls /\ q.call.enabled /\ Candidates(q.call) # {} /\ q.op = RouteOf(q.call).op
      /\ q.user \in Identities \union {None} /\ \A oid \in DOMAIN users' : users'[oid] # None
      /\ IF Public(q.call) THEN q.user = None ELSE q.user = Caller /\ q.user # None
      /\ ~RolesRefuse(q) /\ ~PermissionsRefuse(q) /\ world \in Worlds
  BY <1>1, InFlight DEF Good
<1>4. ASSUME NEW status \in IF Verdict(q, ClaimTenancy(q), target) = 200 THEN DataErrors(q.op)
                            ELSE {Verdict(q, ClaimTenancy(q), target)},
             Refuse(r, status)
      PROVE  PipelineInv'
  <2>1. status \in 400..599
    BY VerdictIs, StatusesAre
  <2> QED
    BY <1>1, <1>4, <2>1, RefuseStep
<1>5. ASSUME Verdict(q, ClaimTenancy(q), target) = 200,
             Answer(r, q.op, q.user, SuccessOf(q.op, q.call.method), About(q, target), {target})
      PROVE  PipelineInv'
  <2> DEFINE next == [at |-> "answered", call |-> q.call, op |-> q.op, user |-> q.user,
                      status |-> SuccessOf(q.op, q.call.method), about |-> About(q, target), served |-> {target}]
  <2>1. req' = [req EXCEPT ![r] = next]
    BY <1>5 DEF Answer
  <2>2. target \in Target
    BY <1>3, TargetsTyped
  <2>3. About(q, target) \in Operation \X Subject /\ q.op \in Operation
    BY <1>3, <2>2, AboutTyped, RoutedFacts
  <2>4. /\ next \in Answered /\ next.call = q.call /\ next.op = q.op /\ next.user = q.user
        /\ next.served = {target} /\ next.about = About(q, target) /\ next.status = SuccessOf(q.op, q.call.method)
    <3>1. next \in Answered
      BY <1>3, <2>2, <2>3, SuccessTyped
    <3> QED
      BY <3>1, Zenon
  <2> HIDE DEF next
  <2>5. Entitlement([op |-> q.op, call |-> q.call, user |-> q.user, tenant |-> target])
    <3>1. world.configured \in BOOLEAN
      BY <1>3, PipelineAssumption
    <3> QED
      BY <1>3, <1>5, <3>1, ChecksEntitle
  <2>6. q.call.key # <<>> => About(q, target) = Told(q.call)
    BY <1>3, ToldIs
  <2>7. Routed(next)
    BY <1>3, <2>3, <2>4, NoneIsNoOperation DEF Routed
  <2> QED
    BY <1>1, <1>3, <2>1, <2>3, <2>4, <2>5, <2>6, <2>7, AnswerStep, ZenonT(60)
<1> QED
  BY <1>2, <1>4, <1>5
(* An answer leaves the server, and what succeeded goes into the cache.    *)
LEMMA ReceiveStep ==
  ASSUME PipelineInv, NEW r \in Requests, Receive(r)
  PROVE  PipelineInv'
<1> DEFINE q == req[r]
           next == [at |-> "settled"]
           Cached == q.status = q.call.success /\ q.call.key # <<>>
           entry == [key |-> q.call.key, about |-> q.about]
           Answers == [key : {call.key : call \in Calls}, about : Operation \X Subject]
<1>1. /\ q.at = "answered" /\ req' = [req EXCEPT ![r] = next] /\ UNCHANGED <<world, config, users, hits>>
      /\ answers' = IF Cached THEN answers \union {entry} ELSE answers
  BY DEF Receive
<1>2. /\ world \in Worlds /\ config \in Active \union {None} /\ hits \in 0..Cardinality(Requests)
      /\ req \in [Requests -> Request] /\ answers \in SUBSET Answers
      /\ \A p \in Requests : req[p].at \notin {"idle", "settled"} => req[p].call \in Offered[p]
      /\ \A oid \in DOMAIN users : users[oid] # None
      /\ HitsInv /\ AnswersInv /\ \A p \in Requests : Good(req[p])
  BY DEF PipelineInv, TypeOK
<1>3. q \in Answered /\ q.call \in Calls
  BY <1>1, <1>2, RequestFields DEF Answered
<1>4. next \in Request /\ next.at = "settled"
  BY DEF Request
<1> HIDE DEF next
<1>5. req' \in [Requests -> Request] /\ req'[r] = next /\ \A p \in Requests \ {r} : req'[p] = req[p]
  BY <1>1, <1>2, <1>4
<1>6. ASSUME Cached PROVE Candidates(q.call) # {} /\ q.about = Told(q.call) /\ q.about \in Operation \X Subject
  BY <1>1, <1>2, <1>6 DEF Good
<1>7. ASSUME Cached PROVE entry \in Answers
  BY <1>3, <1>6, <1>7
<1>8. answers' \in SUBSET Answers
  BY <1>1, <1>2, <1>7
<1>9. AnswersInv'
  <2>1. \A call : Told(call)' = Told(call)
    BY <1>1, WorldStays
  <2>2. ASSUME NEW a \in answers'
        PROVE  \E call \in Calls : call.key # <<>> /\ Candidates(call) # {} /\ a = [key |-> call.key, about |-> Told(call)]
    <3>1. CASE a \in answers
      BY <1>2, <3>1 DEF AnswersInv
    <3>2. CASE a \notin answers
      BY <1>1, <1>3, <1>6, <3>2
    <3> QED
      BY <3>1, <3>2
  <2> QED
    BY <2>1, <2>2 DEF AnswersInv
<1>10. \A p \in Requests : Good(req[p])'
  <2>1. ASSUME NEW p \in Requests PROVE Good(req[p])'
    <3>1. PICK old : old = IF p = r THEN next ELSE req[p]
      OBVIOUS
    <3>2. Good(next)
      BY <1>4 DEF Good
    <3>3. Good(old)' /\ req'[p] = old
      BY <1>1, <1>2, <1>5, <3>1, <3>2, WorldStays
    <3> QED
      BY <3>3 DEF Good
  <2> QED
    BY <2>1
<1>11. HitsInv'
  <2>1. Counted' = Counted
    BY <1>1, <1>4, <1>5 DEF Counted
  <2> QED
    BY <1>1, <1>2, <2>1 DEF HitsInv
<1>12. TypeOK'
  BY <1>1, <1>2, <1>4, <1>5, <1>8 DEF TypeOK
<1> QED
  BY <1>9, <1>10, <1>11, <1>12 DEF PipelineInv

(* Steps that leave the requests and the answers alone.                    *)
LEMMA OthersStep ==
  ASSUME PipelineInv, UNCHANGED <<world, users, req, answers>>, config' \in Active \union {None},
         hits' \in {0, hits}
  PROVE  PipelineInv'
<1>1. /\ world \in Worlds /\ hits \in 0..Cardinality(Requests) /\ req \in [Requests -> Request]
      /\ answers \in SUBSET [key : {call.key : call \in Calls}, about : Operation \X Subject]
      /\ \A p \in Requests : req[p].at \notin {"idle", "settled"} => req[p].call \in Offered[p]
      /\ \A oid \in DOMAIN users : users[oid] # None
      /\ HitsInv /\ AnswersInv /\ \A p \in Requests : Good(req[p])
  BY DEF PipelineInv, TypeOK
<1>2. \A p \in Requests : Good(req[p])'
  <2>1. ASSUME NEW p \in Requests PROVE Good(req[p])'
    <3>1. PICK old : old = req[p]
      OBVIOUS
    <3>2. Good(old)' /\ req'[p] = old
      BY <1>1, <3>1, WorldStays
    <3> QED
      BY <3>2 DEF Good
  <2> QED
    BY <2>1
<1>3. AnswersInv'
  BY <1>1, WorldStays DEF AnswersInv
<1>4. HitsInv' /\ hits' \in 0..Cardinality(Requests)
  <2>1. Counted' = Counted /\ Counted \in SUBSET Requests
    BY DEF Counted
  <2>2. Cardinality(Counted) \in Nat /\ Cardinality(Requests) \in Nat
    BY <2>1, CountedFinite
  <2> QED
    BY <1>1, <2>1, <2>2 DEF HitsInv
<1>5. TypeOK'
  BY <1>1, <1>4 DEF TypeOK
<1> QED
  BY <1>2, <1>3, <1>4, <1>5 DEF PipelineInv

-----------------------------------------------------------------------------
(* What holds of every behaviour                                           *)

LEMMA PipelineStarts == Init => PipelineInv
<1> SUFFICES ASSUME Init PROVE PipelineInv
  OBVIOUS
<1>1. Idle.at = "idle" /\ Idle \in Request
  BY DEF Idle, Request
<1>2. \A r \in Requests : req[r] = Idle
  BY DEF Init
<1>3. Cardinality(Counted) = 0 /\ Cardinality(Requests) \in Nat
  <2>1. Counted = {}
    BY <1>1, <1>2 DEF Counted
  <2> QED
    BY <2>1, FS_EmptySet, CountedFinite
<1>4. TypeOK
  BY <1>1, <1>2, <1>3, PipelineAssumption DEF Init, TypeOK
<1>5. HitsInv /\ AnswersInv
  BY <1>3 DEF Init, HitsInv, AnswersInv
<1>6. \A r \in Requests : Good(req[r])
  <2>1. Good(Idle)
    BY <1>1 DEF Good
  <2> QED
    BY <1>2, <2>1
<1> QED
  BY <1>4, <1>5, <1>6 DEF PipelineInv

LEMMA PipelineStep == PipelineInv /\ [Next]_vars => PipelineInv'
<1> SUFFICES ASSUME PipelineInv, [Next]_vars PROVE PipelineInv'
  OBVIOUS
<1>1. CASE UNCHANGED vars
  BY <1>1, OthersStep DEF vars, PipelineInv, TypeOK
<1>2. ASSUME NEW t \in Active \union {None}, setApiClientTenantId(t) PROVE PipelineInv'
  BY <1>2, OthersStep DEF setApiClientTenantId
<1>3. CASE NewWindow
  BY <1>3, OthersStep DEF NewWindow, PipelineInv, TypeOK
<1>4. ASSUME NEW r \in Requests,
             \/ \E call \in Offered[r] : CustomFetch(r, call)
             \/ Arrive(r) \/ Authenticate(r) \/ Persist(r) \/ Guard(r) \/ Replay(r) \/ Handle(r) \/ Receive(r)
      PROVE  PipelineInv'
  BY <1>4, CustomFetchStep, ArriveStep, AuthenticateStep, PersistStep, GuardStep, ReplayStep, HandleStep, ReceiveStep
<1>5. CASE Done
  BY <1>1, <1>5 DEF Done
<1> QED
  BY <1>1, <1>2, <1>3, <1>4, <1>5 DEF Next

THEOREM PipelineInvariant == Spec => []PipelineInv
<1>1. Init => PipelineInv
  BY PipelineStarts
<1>2. PipelineInv /\ [Next]_vars => PipelineInv'
  BY PipelineStep
<1> QED
  BY <1>1, <1>2, PTL DEF Spec

(* Every request, answer and counter stays of its type: a request in       *)
(* flight carries a known caller and one of the tenants the client or the  *)
(* sign-in names (client.ts, tenancy.middleware.ts, the guards).           *)
THEOREM PipelineTypeCorrect == Spec => []TypeOK
<1>1. PipelineInv => TypeOK
  BY DEF PipelineInv
<1> QED
  BY <1>1, PipelineInvariant, PTL

(* What a handler read or changed its caller was entitled to: the role of  *)
(* the route, an owner's membership, the right in OpenFGA, and where the   *)
(* route is bound to a tenancy, no other tenant than the claim names       *)
(* (roles.guard.ts, permissions.guard.ts and the assertions of services).  *)
THEOREM HandlersServeTheEntitled == Spec => []OnlyEntitled
<1>1. PipelineInv => OnlyEntitled
  <2> SUFFICES ASSUME PipelineInv, NEW r \in Requests, req[r].at = "answered", NEW tenant \in req[r].served
               PROVE  Entitlement([op |-> req[r].op, call |-> req[r].call, user |-> req[r].user, tenant |-> tenant])
    BY DEF OnlyEntitled
  <2> QED
    BY DEF PipelineInv, Good
<1> QED
  BY <1>1, PipelineInvariant, PTL

(* Two calls filed under one key take one path, by one method, and so the  *)
(* same route, whatever else their functions pass on.                      *)
LEMMA OneKeyOneAnswer ==
  ASSUME NEW a \in Calls, NEW b \in Calls, a.key # <<>>, a.key = b.key
  PROVE  Told(a) = Told(b)
<1>1. a.path = b.path /\ a.method = b.method
  BY CallsSound DEF SoundCall
<1>2. Candidates(a) = Candidates(b)
  BY <1>1 DEF Candidates
<1>3. RouteOf(a) = RouteOf(b)
  BY <1>2 DEF RouteOf
<1>4. Public(a) = Public(b) /\ TargetOf(a) = TargetOf(b)
  BY <1>1, <1>3 DEF Public, TargetOf
<1> DEFINE Of(call) == [op |-> RouteOf(call).op, call |-> call, user |-> IF Public(call) THEN None ELSE Caller]
<1>5. Of(a).op = Of(b).op /\ Of(a).user = Of(b).user
  BY <1>3, <1>4
<1>6. Told(a) = About(Of(a), TargetOf(a)) /\ Told(b) = About(Of(b), TargetOf(b))
  BY DEF Told
<1> HIDE DEF Of
<1> QED
  BY <1>4, <1>5, <1>6 DEF About

(* Answers the cache was given under one key are about the same rows,      *)
(* whatever tenant the client was configured for when each was fetched     *)
(* (the query keys of the generated client, TenancyMiddleware).            *)
THEOREM CacheTellsTheKey == Spec => []CachedForItsKey
<1>1. PipelineInv => CachedForItsKey
  <2> SUFFICES ASSUME PipelineInv, NEW a \in answers, NEW b \in answers, a.key = b.key PROVE a.about = b.about
    BY DEF CachedForItsKey
  <2>1. PICK c \in Calls : c.key # <<>> /\ a = [key |-> c.key, about |-> Told(c)]
    BY DEF PipelineInv, AnswersInv
  <2>2. PICK d \in Calls : d.key # <<>> /\ b = [key |-> d.key, about |-> Told(d)]
    BY DEF PipelineInv, AnswersInv
  <2> QED
    BY <2>1, <2>2, OneKeyOneAnswer
<1> QED
  BY <1>1, PipelineInvariant, PTL

(* A call whose identifiers hold no slash reaches the handler it was       *)
(* generated for and succeeds with the status its type declares; any other *)
(* that a handler answers sent what a call of that handler with plain      *)
(* identifiers sends, and got its answer (the generated endpoints of       *)
(* packages/api-client, the controllers).                                  *)
THEOREM CallsReachTheirHandlers == Spec => []ReachesItsHandler
<1>1. PipelineInv => ReachesItsHandler
  <2> SUFFICES ASSUME PipelineInv, NEW r \in Requests, req[r].at = "answered"
               PROVE  LET call == req[r].call
                          AnsweredAs(c) == req[r].op = c.op /\ (req[r].status < 300 => req[r].status = c.success)
                          Missing == call.key = <<>> /\ \E i \in DOMAIN call.path : call.path[i] = Empty
                      IN  IF req[r].op = None THEN call \in WholeCalls /\ req[r].status = 404 => Missing
                          ELSE IF call \in WholeCalls THEN AnsweredAs(call)
                          ELSE \E c \in Spelling(call.method, Trim(call.path)) : AnsweredAs(c)
    BY DEF ReachesItsHandler
  <2> DEFINE call == req[r].call
  <2>1. call \in Calls /\ call.enabled /\ Routed(req[r])
    BY PipelineAssumption DEF PipelineInv, TypeOK, Good
  <2> HIDE DEF call
  <2>2. ASSUME call \in WholeCalls
        PROVE  IF Candidates(call) = {} THEN call.key = <<>> /\ \E i \in DOMAIN call.path : call.path[i] = Empty
               ELSE RouteOf(call).op = call.op /\ SuccessOf(RouteOf(call).op, call.method) = call.success
    BY <2>1, <2>2, CallTakesItsRoute
  <2>3. ASSUME req[r].op # None
        PROVE  /\ Candidates(call) # {} /\ req[r].op = RouteOf(call).op
               /\ req[r].status < 300 => req[r].status = SuccessOf(RouteOf(call).op, call.method)
    BY <2>1, <2>3 DEF Routed, call
  <2>4. ASSUME req[r].op = None, req[r].status = 404 PROVE Candidates(call) = {}
    BY <2>1, <2>4 DEF Routed, call
  <2>5. ASSUME req[r].op # None
        PROVE  \E c \in Spelling(call.method, Trim(call.path)) :
                 req[r].op = c.op /\ (req[r].status < 300 => req[r].status = c.success)
    BY <2>1, <2>3, <2>5, RouteHasItsCall
  <2> QED
    BY <2>2, <2>3, <2>4, <2>5 DEF call
<1> QED
  BY <1>1, PipelineInvariant, PTL
=============================================================================
