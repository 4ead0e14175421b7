------------------------- MODULE AccessAdministration -------------------------
(***************************************************************************)
(* Who has what access to a tenant, read page by page                      *)
(* (apps/api/src/access-administration/access-administration.service.ts).  *)
(* A page is put together from the members, the synced memberships of      *)
(* groups, the synced role assignments and the tuples OpenFGA has, each    *)
(* read at a moment of its own while all of them change.  A client follows *)
(* the cursor from page to page.                                           *)
(***************************************************************************)
EXTENDS Naturals, Sequences, FiniteSets

CONSTANTS
    User,             \* user ids (cuids: the sort and localeCompare agree on them), numbered in their order
    Displayed,        \* users with a row of their own; no foreign key asks for one
    Group,
    MembershipRole,   \* role of the TenantMembership row, by user
    Grant,            \* principal and role of the assignments that come and go
    Limit,            \* users of a page
    MaxChanges        \* bound on changes while the pages are read

\* ACCESS_ROLE_CATALOG
Role == {"owner", "admin", "editor", "viewer"}

ASSUME AccessAssumption ==
    /\ User \subseteq Nat \ {0} /\ IsFiniteSet(User) /\ Displayed \subseteq User /\ User \intersect Group = {}
    /\ DOMAIN MembershipRole = User /\ Grant \subseteq (User \union Group) \X Role
    /\ Limit \in Nat \ {0} /\ MaxChanges \in Nat

VARIABLES
    facts,            \* what the tenant's rows and OpenFGA's tuples say
    page,             \* the page being read
    pages,            \* pages answered: access by user
    stood, met,       \* history: facts true all through the page, facts true at some moment of it
    always,           \* history: members since the first page was asked for
    changes

accessVars == <<facts, page, pages, stood, met, always, changes>>

permissionIds(role) ==
    CASE role \in {"owner", "admin"} -> {"read", "create", "update", "delete", "manage_access"}
      [] role = "editor" -> {"read", "create", "update"}
      [] role = "viewer" -> {"read"}
normalizeMembershipRole(role) == IF role = "member" THEN {"viewer"} ELSE {role} \intersect Role

Permission == permissionIds("owner")

Member == [kind : {"member"}, user : User]
Grouped == [kind : {"grouped"}, user : User, group : Group]
Assigned == [kind : {"row", "tuple"}, grant : Grant]
Facts == Member \union Grouped \union Assigned
Of(kind) == {f \in facts : f.kind = kind}
Members == {f.user : f \in Of("member")}

Page == [at : {"asked", "members", "refused"}, cursor : Nat]
        \union [at : {"reads"}, cursor : Nat, ids : SUBSET User, hasMore : BOOLEAN,
                left : SUBSET {"grouped", "row", "tuple"}, unread : SUBSET Grant, seen : SUBSET Facts]
        \union [at : {"done"}]
Access == [permissions : SUBSET Permission, least : SUBSET Permission, most : SUBSET Permission]

AccessTypeOK ==
    /\ facts \in SUBSET Facts /\ page \in Page
    /\ \A n \in DOMAIN pages : /\ pages[n] \in [DOMAIN pages[n] -> Access]
                              /\ DOMAIN pages[n] \subseteq Displayed /\ Cardinality(DOMAIN pages[n]) <= Limit
    /\ stood \subseteq facts /\ facts \subseteq met /\ met \subseteq Facts
    /\ always \subseteq User /\ changes \in 0..MaxChanges

\* Group members and assignments that are synced have their tuples.
AccessInit ==
    /\ \E members \in SUBSET Member, grouped \in SUBSET Grouped, rows \in SUBSET [kind : {"row"}, grant : Grant] :
         facts = members \union grouped \union rows \union {[kind |-> "tuple", grant |-> f.grant] : f \in rows}
    /\ \A f \in Of("grouped") : f.user \in Members
    /\ page = [at |-> "asked", cursor |-> 0]
    /\ pages = <<>>
    /\ stood = facts /\ met = facts /\ always = Members /\ changes = 0

----------------------------------------------------------------------------
(* A page *)

STAND == UNCHANGED <<facts, stood, met, always, changes>>

\* The check of the caller's own right comes first, and may end it all.
MayRead ==
    /\ page.at = "asked"
    /\ \E at \in {"members", "refused"} : page' = [page EXCEPT !.at = at]
    /\ stood' = facts /\ met' = facts
    /\ UNCHANGED <<facts, pages, always, changes>>

Lowest(ids) == {u \in ids : Cardinality({v \in ids : v < u}) < Limit}
Greatest(ids) == CHOOSE u \in ids : \A v \in ids : v <= u

AfterCursor_ByCount(ids) ==      \* Faulty variant: skips as many users as the pages so far had.
    {u \in ids : Cardinality({v \in ids : v < u}) >= Len(pages) * Limit}
AfterCursor(ids) == {u \in ids : u > page.cursor}

listMemberships ==
    /\ page.at = "members"
    /\ LET afterCursor == AfterCursor(Members) IN
       page' = [at |-> "reads", cursor |-> page.cursor, ids |-> Lowest(afterCursor),
                hasMore |-> Lowest(afterCursor) # afterCursor,
                left |-> {"grouped", "row", "tuple"}, unread |-> Grant, seen |-> {}]
    /\ STAND /\ UNCHANGED pages

\* The other reads start together and are answered in any order.
Read(kind) ==
    /\ page.at = "reads" /\ kind \in page.left
    /\ page' = [page EXCEPT !.left = @ \ {kind}, !.seen = @ \union Of(kind)]
    /\ STAND /\ UNCHANGED pages
listAccessProjection == Read("grouped")
listAssignments == Read("row")

\* listResourceTuples follows continuation tokens; a page refused leaves it without any tuple.
openFgaRead ==
    /\ page.at = "reads" /\ "tuple" \in page.left
    /\ \E grant \in page.unread :
         page' = [page EXCEPT !.unread = @ \ {grant},
                              !.left = IF page.unread = {grant} THEN @ \ {"tuple"} ELSE @,
                              !.seen = @ \union {f \in Of("tuple") : f.grant = grant}]
    /\ STAND /\ UNCHANGED pages
openFgaReadFails ==
    /\ page.at = "reads" /\ "tuple" \in page.left
    /\ page' = [page EXCEPT !.left = @ \ {"tuple"}, !.seen = {f \in @ : f.kind # "tuple"}]
    /\ STAND /\ UNCHANGED pages

\* Provenance of a user's roles, and the roles and permissions that follow from it.
provenance(u) ==
    LET granted == {f.grant : f \in {g \in page.seen : g.kind \in {"row", "tuple"}}} IN
    [source : {"membership"}, role : normalizeMembershipRole(MembershipRole[u])]
    \union {[source |-> "direct", role |-> grant[2]] : grant \in {g \in granted : g[1] = u}}
    \union {[source |-> "group", role |-> grant[2], group |-> grant[1]] :
              grant \in {g \in granted : [kind |-> "grouped", user |-> u, group |-> g[1]] \in page.seen}}
effectivePermissionIds(u) == UNION {permissionIds(entry.role) : entry \in provenance(u)}

\* For the property: what a user may do by a set of facts.
May(u, known) ==
    LET grants == {f.grant : f \in {g \in known : g.kind \in {"row", "tuple"}}} IN
    UNION ({permissionIds(r) : r \in normalizeMembershipRole(MembershipRole[u])}
           \union {permissionIds(g[2]) : g \in {h \in grants :
                     h[1] = u \/ [kind |-> "grouped", user |-> u, group |-> h[1]] \in known}})

\* Users without a row of their own are left out; the cursor counts them all the same.
findDisplayRecords(ids) == ids \intersect Displayed
RespondPage ==
    /\ page.at = "reads" /\ page.left = {}
    /\ pages' = Append(pages, [u \in findDisplayRecords(page.ids) |->
                                 [permissions |-> effectivePermissionIds(u),
                                  least |-> May(u, {f \in stood : f.kind # "tuple"}),
                                  most |-> May(u, met)]])
    /\ page' = IF page.hasMore THEN [at |-> "asked", cursor |-> Greatest(page.ids)] ELSE [at |-> "done"]
    /\ STAND

----------------------------------------------------------------------------
(* Meanwhile: members join, group memberships and role commands are synced or taken back. *)

TenantChanges(fact) ==
    /\ page.at \notin {"refused", "done"} /\ changes < MaxChanges /\ changes' = changes + 1
    /\ fact.kind = "member" => fact \notin facts
    /\ fact.kind = "grouped" => fact.user \in Members
    /\ facts' = IF fact \in facts THEN facts \ {fact} ELSE facts \union {fact}
    /\ stood' = stood \ {fact} /\ met' = met \union {fact}
    /\ UNCHANGED <<page, pages, always>>

AccessNext ==
    \/ MayRead \/ listMemberships \/ listAccessProjection \/ listAssignments
    \/ openFgaRead \/ openFgaReadFails \/ RespondPage
    \/ \E fact \in Facts : TenantChanges(fact)

AccessSpec == AccessInit /\ [][AccessNext]_accessVars

----------------------------------------------------------------------------
(* Properties *)

\* The pages, read while members join and roles change, tell the tenant as it was.  Nobody
\* is on two pages, and whoever was a member when the first was asked for is on one when the
\* last is answered.  What a user is shown to be able to do is no less than what the rows
\* said all through that page, with OpenFGA or without it, and no more than what rows and
\* tuples said at some moment of it.
PagesTellTheTenant ==
    /\ \A m, n \in DOMAIN pages : m # n => DOMAIN pages[m] \intersect DOMAIN pages[n] = {}
    /\ page.at = "done" => always \intersect Displayed \subseteq UNION {DOMAIN pages[n] : n \in DOMAIN pages}
    /\ \A n \in DOMAIN pages : \A u \in DOMAIN pages[n] :
         /\ pages[n][u].least \subseteq pages[n][u].permissions
         /\ pages[n][u].permissions \subseteq pages[n][u].most
=============================================================================
