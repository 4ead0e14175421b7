--------------------------- MODULE TenantLifecycle ---------------------------
(***************************************************************************)
(* Tenants and their invitations (pillars/tenant/src/tenant.service.ts and *)
(* tenant-invitation.service.ts).  A creation tries slugs one transaction  *)
(* at a time; the self-service route counts the caller's tenants in a      *)
(* serializable transaction.  An invitation is swept, looked for and       *)
(* inserted in three statements; a filtered unique index and a conditional *)
(* update settle the races.  Requests interleave between transactions.     *)
(***************************************************************************)
EXTENDS Naturals, Sequences, FiniteSets

CONSTANTS
    Creator,          \* requests that create a tenant
    Person,           \* users who create tenants
    Name,             \* names to choose from
    Normalized,       \* the parts normalization leaves of a name, <<>> if none
    Slug,             \* slugs a caller may ask for, each the sequence of its parts
    MaxAttempts,      \* MAX_GENERATED_SLUG_ATTEMPTS
    MaxOwned,         \* SELF_SERVICE_TENANT_LIMIT
    Inviter,          \* requests that create an invitation
    Revoker,          \* requests that revoke one
    Lifetime,         \* INVITATION_EXPIRY_MS
    MaxClock          \* bound on the clock

ASSUME LifecycleAssumption ==
    /\ MaxAttempts \in Nat \ {0} /\ MaxOwned \in Nat \ {0}
    /\ Lifetime \in Nat \ {0} /\ MaxClock \in Nat
    /\ DOMAIN Normalized = Name

VARIABLES
    tenants,          \* committed tenants: slug, owner, and whether self-service made it
    creation,         \* every creating request
    invitations,      \* invitation rows by number
    inviting,         \* every inviting request; swept (history) is the rows its sweep met
    revoking,         \* every revoking request
    clock

lifecycleVars == <<tenants, creation, invitations, inviting, revoking, clock>>

slugify(name) == IF Normalized[name] = <<>> THEN <<"tenant">> ELSE Normalized[name]
candidate(base, attempt) == IF attempt = 1 THEN base ELSE Append(base, attempt)

Base == Slug \union {slugify(n) : n \in Name}
TenantRow == [slug : {candidate(b, n) : b \in Base, n \in 1..MaxAttempts}, owner : Person, selfService : BOOLEAN]
Creation ==
    [at : {"idle"}]
    \union [at : {"count", "insert"}, base : Base, attempt : 1..MaxAttempts, attempts : 1..MaxAttempts,
            person : Person, selfService : BOOLEAN, seen : SUBSET TenantRow]
    \union [at : {"done"}, answer : {"created", "taken", "quota", "failed"}, base : Base,
            attempts : 1..MaxAttempts, person : Person]

Status == {"pending", "revoked", "expired"}
Invitation == [status : Status, expiresAt : Nat, responses : Nat]
Inviting ==
    [at : {"idle", "created"}] \union [at : {"sweep"}, now : Nat] \union [at : {"find"}, now : Nat, swept : SUBSET Nat]
    \union [at : {"insert"}, now : Nat, swept : SUBSET Nat, expiresAt : Nat]
    \union [at : {"conflict"}, now : Nat, swept : SUBSET Nat, with : Nat]
Revoking == [at : {"idle"}] \union [at : {"found", "revoked", "refused"}, row : Nat]

LifecycleTypeOK ==
    /\ tenants \subseteq TenantRow /\ IsFiniteSet(tenants)
    /\ \A t \in tenants, u \in tenants : t.slug = u.slug => t = u
    /\ creation \in [Creator -> Creation]
    /\ invitations \in Seq(Invitation)
    /\ \A i \in DOMAIN invitations, j \in DOMAIN invitations :
         invitations[i].status = "pending" /\ invitations[j].status = "pending" => i = j
    /\ inviting \in [Inviter -> Inviting] /\ revoking \in [Revoker -> Revoking]
    /\ clock \in 0..MaxClock

LifecycleInit ==
    /\ tenants = {} /\ clock = 0 /\ invitations = <<>>
    /\ creation = [c \in Creator |-> [at |-> "idle"]]
    /\ inviting = [i \in Inviter |-> [at |-> "idle"]]
    /\ revoking = [r \in Revoker |-> [at |-> "idle"]]

----------------------------------------------------------------------------
(* Creating a tenant *)

UNUSED == UNCHANGED <<invitations, inviting, revoking, clock>>

Taken(slug) == \E t \in tenants : t.slug = slug
Owned(person) == {t \in tenants : t.owner = person}

Done(c, answer) == creation' = [creation EXCEPT ![c] =
    [at |-> "done", answer |-> answer, base |-> @.base, attempts |-> @.attempts, person |-> @.person]]

\* The slug: the one asked for, tried once, or one made from the name, numbered on.
Create(c, person, selfService) ==
    /\ creation[c].at = "idle"
    /\ \E explicit \in BOOLEAN : \E base \in IF explicit THEN Slug ELSE {slugify(n) : n \in Name} :
         creation' = [creation EXCEPT ![c] =
              [at |-> IF selfService THEN "count" ELSE "insert", base |-> base, attempt |-> 1,
               attempts |-> IF explicit THEN 1 ELSE MaxAttempts,
               person |-> person, selfService |-> selfService, seen |-> {}]]
    /\ UNCHANGED tenants /\ UNUSED

candidateSlug(c) == candidate(creation[c].base, creation[c].attempt)

\* A serializable transaction begins: its snapshot has the tenants committed so far.
CountOwned(c) ==
    /\ creation[c].at = "count"
    /\ IF Cardinality(Owned(creation[c].person)) >= MaxOwned
       THEN Done(c, "quota")
       ELSE creation' = [creation EXCEPT ![c].at = "insert", ![c].seen = tenants]
    /\ UNCHANGED tenants /\ UNUSED

\* Another serializable transaction that counted the same rows has committed since.
Unserializable_ReadCommitted(c) == FALSE      \* Faulty variant: the default isolation level.
Unserializable(c) ==
    \E t \in tenants \ creation[c].seen : t.owner = creation[c].person /\ t.selfService

\* A taken slug makes the next attempt a new transaction, count included.
Retry(c) ==
    IF creation[c].attempt < creation[c].attempts
    THEN creation' = [creation EXCEPT ![c].attempt = @ + 1,
                                      ![c].at = IF creation[c].selfService THEN "count" ELSE "insert"]
    ELSE Done(c, "taken")

\* Tenant, audit, two events and the owner's membership are one transaction.
Commit(c) ==
    /\ creation[c].at = "insert"
    /\ ~Taken(candidateSlug(c))
    /\ ~(creation[c].selfService /\ Unserializable(c))
    /\ tenants' = tenants \union {[slug |-> candidateSlug(c), owner |-> creation[c].person,
                                   selfService |-> creation[c].selfService]}
    /\ Done(c, "created")
    /\ UNUSED
SlugConflict(c) ==
    /\ creation[c].at = "insert" /\ Taken(candidateSlug(c))
    /\ Retry(c)
    /\ UNCHANGED tenants /\ UNUSED
\* The database may also give up a serializable transaction that only overlapped another;
\* the error is not a unique conflict and goes to the caller.
SerializationFailure(c) ==
    /\ creation[c].at = "insert" /\ creation[c].selfService
    /\ tenants # creation[c].seen
    /\ Done(c, "failed")
    /\ UNCHANGED tenants /\ UNUSED

----------------------------------------------------------------------------
(* Inviting one address of one tenant, and revoking *)

UNMADE == UNCHANGED <<tenants, creation, clock>>
Pending == {i \in DOMAIN invitations : invitations[i].status = "pending"}
Leave(i, status) == [invitations[i] EXCEPT !.status = status, !.responses = @ + 1]

Invite(q) ==
    /\ inviting[q].at = "idle"
    /\ inviting' = [inviting EXCEPT ![q] = [at |-> "sweep", now |-> clock]]
    /\ UNCHANGED <<invitations, revoking>> /\ UNMADE

\* updateMany: pending rows whose time has come leave pending, in one statement.
Overdue_Before(i, now) == invitations[i].expiresAt + 1 < now      \* Faulty variant: spares fresh expiries.
Overdue(i, now) == invitations[i].expiresAt <= now
Sweep(q) ==
    /\ inviting[q].at = "sweep"
    /\ invitations' = [i \in DOMAIN invitations |->
         IF i \in Pending /\ Overdue(i, inviting[q].now) THEN Leave(i, "expired") ELSE invitations[i]]
    /\ inviting' = [inviting EXCEPT ![q] = [at |-> "find", now |-> @.now, swept |-> DOMAIN invitations]]
    /\ UNCHANGED revoking /\ UNMADE

Conflict(q, i) ==
    inviting' = [inviting EXCEPT ![q] = [at |-> "conflict", now |-> @.now, swept |-> @.swept, with |-> i]]
FindPending(q) ==
    /\ inviting[q].at = "find"
    /\ IF Pending = {}
       THEN inviting' = [inviting EXCEPT ![q] = [at |-> "insert", now |-> @.now, swept |-> @.swept,
                                                 expiresAt |-> clock + Lifetime]]
       ELSE \E i \in Pending : Conflict(q, i)
    /\ UNCHANGED <<invitations, revoking>> /\ UNMADE

\* Row, audit and event are one transaction; the filtered unique index refuses a second
\* pending row.
InsertInvitation(q) ==
    /\ inviting[q].at = "insert"
    /\ IF Pending = {}
       THEN /\ invitations' = Append(invitations,
                 [status |-> "pending", expiresAt |-> inviting[q].expiresAt, responses |-> 0])
            /\ inviting' = [inviting EXCEPT ![q] = [at |-> "created"]]
       ELSE /\ \E i \in Pending : Conflict(q, i)
            /\ UNCHANGED invitations
    /\ UNCHANGED revoking /\ UNMADE

Revoke(r) ==
    /\ revoking[r].at = "idle"
    /\ \E i \in DOMAIN invitations : revoking' = [revoking EXCEPT ![r] = [at |-> "found", row |-> i]]
    /\ UNCHANGED <<invitations, inviting>> /\ UNMADE

\* updateMany conditional on pending: its count, not the earlier read, decides.
StillPending_AsRead(i) == TRUE      \* Faulty variant: trusts the read before the transaction.
StillPending(i) == invitations[i].status = "pending"
CommitRevoke(r) ==
    /\ revoking[r].at = "found"
    /\ LET i == revoking[r].row IN
       IF StillPending(i)
       THEN /\ invitations' = [invitations EXCEPT ![i] = Leave(i, "revoked")]
            /\ revoking' = [revoking EXCEPT ![r].at = "revoked"]
       ELSE /\ revoking' = [revoking EXCEPT ![r].at = "refused"]
            /\ UNCHANGED invitations
    /\ UNCHANGED inviting /\ UNMADE

TimePasses == clock < MaxClock /\ clock' = clock + 1 /\ UNCHANGED <<tenants, creation, invitations, inviting, revoking>>

CreateNext == \E c \in Creator :
    \/ \E p \in Person, s \in BOOLEAN : Create(c, p, s)
    \/ CountOwned(c) \/ Commit(c) \/ SlugConflict(c) \/ SerializationFailure(c)
InviteNext ==
    \/ \E q \in Inviter : Invite(q) \/ Sweep(q) \/ FindPending(q) \/ InsertInvitation(q)
    \/ \E r \in Revoker : Revoke(r) \/ CommitRevoke(r)
LifecycleNext == CreateNext \/ InviteNext \/ TimePasses

LifecycleSpec == LifecycleInit /\ [][LifecycleNext]_lifecycleVars

----------------------------------------------------------------------------
(* Properties *)

\* However its requests race, no user ever owns more tenants made through the self-service
\* route than the limit: each was counted in a serializable transaction.
QuotaHolds == \A p \in Person : Cardinality({t \in Owned(p) : t.selfService}) <= MaxOwned

\* A conflict is only answered when there is one.  A creation refused for its slug found
\* every slug it could have tried taken; an invitation refused as a duplicate met one that
\* had not expired when the request came in, or that another request made since its sweep.
ConflictIsReal ==
    /\ \A c \in Creator : creation[c].at = "done" /\ creation[c].answer = "taken" =>
         \A n \in 1..creation[c].attempts : Taken(candidate(creation[c].base, n))
    /\ \A q \in Inviter : inviting[q].at = "conflict" =>
         \/ invitations[inviting[q].with].expiresAt > inviting[q].now
         \/ inviting[q].with \notin inviting[q].swept

\* An invitation leaves pending once, whoever revokes or sweeps it, and exactly one of the
\* requests that tried to revoke it is told that it did.
LeavesPendingOnce ==
    \A i \in DOMAIN invitations :
        /\ invitations[i].responses = IF invitations[i].status = "pending" THEN 0 ELSE 1
        /\ Cardinality({r \in Revoker : revoking[r].at = "revoked" /\ revoking[r].row = i})
             = IF invitations[i].status = "revoked" THEN 1 ELSE 0
=============================================================================
