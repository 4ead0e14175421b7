---------------------------- MODULE TenantGroups ----------------------------
(***************************************************************************)
(* One tenant group and its members: TenantGroupService                    *)
(* (pillars/tenant/src/tenant-group.service.ts).  The database rows are    *)
(* the source of truth; OpenFGA holds a tuple per effective member.  An    *)
(* addition writes the row first and the tuple after it, a removal deletes *)
(* the tuple first and the row after it, and reconciliation passes write   *)
(* the tuples of rows that are pending or failed.  Requests, passes and    *)
(* replicas interleave; nothing locks a member.                            *)
(***************************************************************************)
EXTENDS Naturals, Sequences, FiniteSets, OpenFgaStore

CONSTANTS
    Call,         \* requests in flight
    Pass,         \* reconciliation passes in flight
    User,         \* members of the tenant
    Name,         \* names a group may have
    None,
    MaxRows,      \* bound on rows ever made
    MaxUpdates,   \* bound on updates of the group
    MaxFailures   \* bound on outages of OpenFGA, lost answers and crashes

SyncStatus == {"pending", "failed", "synced"}
Row == [id : Nat, sync : SyncStatus]
Membership == [user : User, id : Nat, sync : SyncStatus]

ASSUME GroupAssumption ==
    /\ Call \intersect Pass = {}
    /\ None \notin User \union Name /\ None \notin Row /\ None \notin Membership
    /\ MaxRows \in Nat /\ MaxUpdates \in Nat /\ MaxFailures \in Nat

VARIABLES
    group,        \* name of the TenantGroup row, None without one
    rows,         \* TenantGroupMembership by user
    ids,          \* rows made so far; a row's id is its number
    outbox,       \* events, oldest first
    tuples,       \* users OpenFGA has as members
    owner,        \* the group holds the owner role in OpenFGA
    pc,           \* next step of every request and pass
    job,          \* the membership it works on, as it was read
    todo,         \* memberships listed and not yet worked on
    failures,     \* outages, lost answers and crashes so far
    written,      \* history: rows whose own tuple write was accepted
    muddled       \* history: users two workers, a lost answer or a crash met

local == <<group, rows, ids, outbox>>
fga == <<tuples, owner>>
work == <<pc, job, todo>>
vars == <<local, fga, work, failures, written, muddled>>

Worker == Call \union Pass
Event == ({"member_added", "member_removed"} \X User) \union ({"created", "updated"} \X Name)
         \union {<<"deleted", None>>}
Place == {"idle", "insert", "write", "ok", "failed", "guard", "revoke", "unmark", "delete",
          "groupguard", "list", "members", "next"}

TypeOK ==
    /\ group \in Name \union {None}
    /\ rows \in [User -> Row \union {None}]
    /\ ids \in Nat
    /\ \A u \in User : rows[u] # None => rows[u].id <= ids
    /\ outbox \in Seq(Event)
    /\ tuples \in SUBSET User
    /\ owner \in BOOLEAN
    /\ pc \in [Worker -> Place]
    /\ job \in [Worker -> Membership \union {None}]
    /\ todo \in [Worker -> SUBSET Membership]
    /\ failures \in 0..MaxFailures
    /\ written \in SUBSET Nat
    /\ muddled \in SUBSET User

Init ==
    /\ group = None
    /\ rows = [u \in User |-> None]
    /\ ids = 0
    /\ outbox = <<>>
    /\ tuples = {}
    /\ owner = FALSE
    /\ pc = [w \in Worker |-> "idle"]
    /\ job = [w \in Worker |-> None]
    /\ todo = [w \in Worker |-> {}]
    /\ failures = 0
    /\ written = {}
    /\ muddled = {}

-----------------------------------------------------------------------------
Goto(w, place) == pc' = [pc EXCEPT ![w] = place] /\ UNCHANGED <<job, todo>>

Take(w, membership, place) ==
    /\ pc' = [pc EXCEPT ![w] = place]
    /\ job' = [job EXCEPT ![w] = membership]
    /\ UNCHANGED todo

(* A request answers; a pass goes on to its next row. *)
Done(w) ==
    /\ pc' = [pc EXCEPT ![w] = IF w \in Pass THEN "next" ELSE "idle"]
    /\ job' = [job EXCEPT ![w] = None]
    /\ todo' = IF w \in Pass THEN todo ELSE [todo EXCEPT ![w] = {}]

Of(u) == [user |-> u, id |-> rows[u].id, sync |-> rows[u].sync]

(* The row a worker read is still the user's row. *)
SameRow(w) == rows[job[w].user] # None /\ rows[job[w].user].id = job[w].id

SetSync(u, sync) == rows' = [rows EXCEPT ![u].sync = sync]

Without(us) == [u \in User |-> IF u \in us THEN None ELSE rows[u]]

(* A worker with a user's membership in hand or on its list, or about to   *)
(* delete the whole group.                                                 *)
Busy(w, u) ==
    \/ job[w] # None /\ job[w].user = u
    \/ \E member \in todo[w] : member.user = u
    \/ pc[w] \in {"groupguard", "list", "members"}
    \/ w \in Call /\ todo[w] # {}

Contended == {u \in User : \E v, w \in Worker : v # w /\ Busy(v, u) /\ Busy(w, u)}

(* A lost answer, or a crash between a request to OpenFGA and its record.  *)
Unanswered(w) == IF pc[w] \in {"ok", "unmark", "write", "revoke"} THEN {job[w].user} ELSE {}

Remember == muddled' = muddled \union Contended'

-----------------------------------------------------------------------------
(* create and update                                                       *)

(* The row and its event are one transaction, for which the unique index   *)
(* lets the name pass.  A group that was deleted never comes back.         *)
Create(c, name) ==
    /\ pc[c] = "idle" /\ outbox = <<>>
    /\ group' = name
    /\ outbox' = <<<<"created", name>>>>
    /\ UNCHANGED <<rows, ids, fga, work, failures, written>>
    /\ Remember

Updates == {n \in DOMAIN outbox : outbox[n][1] = "updated"}

(* One action: an update that found the group and finds it gone, or meets  *)
(* another group's name, fails and changes nothing.  One that keeps the    *)
(* name is left out.                                                       *)
Update(c) ==
    /\ pc[c] = "idle" /\ group # None
    /\ Cardinality(Updates) < MaxUpdates
    /\ group' \in Name \ {group}
    /\ outbox' = Append(outbox, <<"updated", group'>>)
    /\ UNCHANGED <<rows, ids, fga, work, failures, written>>
    /\ Remember

-----------------------------------------------------------------------------
(* addMember                                                               *)

StartAdd(c, u) ==
    /\ pc[c] = "idle" /\ group # None
    /\ Take(c, [user |-> u, id |-> 0, sync |-> "pending"], "insert")
    /\ UNCHANGED <<local, fga, failures, written>>
    /\ Remember

(* The row found, else a new one; the unique index settles races.  No      *)
(* foreign key ties the row to the group.                                  *)
Insert(c) ==
    LET u == job[c].user IN
    /\ pc[c] = "insert"
    /\ \/ /\ rows[u] = None /\ ids < MaxRows
          /\ ids' = ids + 1
          /\ rows' = [rows EXCEPT ![u] = [id |-> ids + 1, sync |-> "pending"]]
          /\ outbox' = Append(outbox, <<"member_added", u>>)
          /\ Take(c, [user |-> u, id |-> ids + 1, sync |-> "pending"], "write")
       \/ /\ rows[u] # None
          /\ IF rows[u].sync = "synced" THEN Done(c) ELSE Take(c, Of(u), "write")
          /\ UNCHANGED <<rows, ids, outbox>>
    /\ UNCHANGED <<group, fga, failures, written>>
    /\ Remember

(* addTenantGroupMember: no check follows a refused write. *)
WriteTuple(w) ==
    /\ Accepts(tuples, {job[w].user}, {})
    /\ tuples' = Applied(tuples, {job[w].user}, {})
    /\ written' = written \union {job[w].id}

AddTuple(w) ==
    /\ pc[w] = "write"
    /\ \/ WriteTuple(w) /\ Goto(w, "ok")
       \/ /\ ~Accepts(tuples, {job[w].user}, {})
          /\ Goto(w, "failed")
          /\ UNCHANGED <<tuples, written>>
    /\ UNCHANGED <<local, owner, failures>>
    /\ Remember

(* Faulty variant: the row is found by its user instead of its id. *)
RecordSyncResult_ByUser(w) ==
    LET u == job[w].user IN
    /\ pc[w] \in {"ok", "failed"}
    /\ IF rows[u] # None /\ rows[u].sync \in {"pending", "failed"}
         THEN SetSync(u, IF pc[w] = "ok" THEN "synced" ELSE "failed")
         ELSE UNCHANGED rows
    /\ Done(w)
    /\ UNCHANGED <<group, ids, outbox, fga, failures, written>>
    /\ Remember

(* Faulty variant: an outage is recorded as success. *)
RecordSyncResult_Always(w) ==
    /\ pc[w] \in {"ok", "failed"}
    /\ IF SameRow(w) THEN SetSync(job[w].user, "synced") ELSE UNCHANGED rows
    /\ Done(w)
    /\ UNCHANGED <<group, ids, outbox, fga, failures, written>>
    /\ Remember

(* Faulty variant: the outcome itself is stored as the status. *)
RecordSyncResult_RawStatus(w) ==
    /\ pc[w] \in {"ok", "failed"}
    /\ IF SameRow(w) THEN SetSync(job[w].user, pc[w]) ELSE UNCHANGED rows
    /\ Done(w)
    /\ UNCHANGED <<group, ids, outbox, fga, failures, written>>
    /\ Remember

RecordSyncResult(w) ==
    LET u == job[w].user IN
    /\ pc[w] \in {"ok", "failed"}
    /\ IF SameRow(w) /\ rows[u].sync \in {"pending", "failed"}
         THEN SetSync(u, IF pc[w] = "ok" THEN "synced" ELSE "failed")
         ELSE UNCHANGED rows
    /\ Done(w)
    /\ UNCHANGED <<group, ids, outbox, fga, failures, written>>
    /\ Remember

-----------------------------------------------------------------------------
(* removeMember                                                            *)

StartRemove(c, u) ==
    /\ pc[c] = "idle" /\ group # None /\ rows[u] # None
    /\ Take(c, Of(u), "guard")
    /\ UNCHANGED <<local, fga, failures, written>>
    /\ Remember

(* A group that is an owner keeps its members.  Only a row that was synced *)
(* when read has a tuple to revoke.                                        *)
GuardOwner(c) ==
    /\ pc[c] \in {"guard", "groupguard"}
    /\ IF owner THEN Done(c)
       ELSE Goto(c, IF pc[c] = "groupguard" THEN "list"
                    ELSE IF job[c].sync = "synced" THEN "revoke" ELSE "delete")
    /\ UNCHANGED <<local, fga, failures, written>>
    /\ Remember

DeleteTuple(c) ==
    /\ Accepts(tuples, {}, {job[c].user})
    /\ tuples' = Applied(tuples, {}, {job[c].user})

(* removeTenantGroupMember; 503 when it is refused. *)
RevokeTuple(c) ==
    /\ pc[c] = "revoke"
    /\ \/ DeleteTuple(c) /\ Goto(c, "unmark")
       \/ ~Accepts(tuples, {}, {job[c].user}) /\ Done(c) /\ UNCHANGED tuples
    /\ UNCHANGED <<local, owner, failures, written>>
    /\ Remember

(* The row is pending again, so that a failed deletion is reconciled. *)
Unmark(c) ==
    LET u == job[c].user IN
    /\ pc[c] = "unmark"
    /\ IF SameRow(c) /\ rows[u].sync = "synced" THEN SetSync(u, "pending") ELSE UNCHANGED rows
    /\ pc' = [pc EXCEPT ![c] = IF job[c] \in todo[c] THEN "members" ELSE "delete"]
    /\ todo' = [todo EXCEPT ![c] = @ \ {job[c]}]
    /\ UNCHANGED <<group, ids, outbox, fga, job, failures, written>>
    /\ Remember

(* Faulty variant: how many rows were deleted is not looked at. *)
DeleteRow_Uncounted(c) ==
    LET u == job[c].user IN
    /\ pc[c] = "delete"
    /\ rows' = IF SameRow(c) THEN Without({u}) ELSE rows
    /\ outbox' = Append(outbox, <<"member_removed", u>>)
    /\ Done(c)
    /\ UNCHANGED <<group, ids, fga, failures, written>>
    /\ Remember

(* The transaction; 409 when the row is gone. *)
DeleteRow(c) ==
    LET u == job[c].user IN
    /\ pc[c] = "delete"
    /\ IF SameRow(c)
         THEN rows' = Without({u}) /\ outbox' = Append(outbox, <<"member_removed", u>>)
         ELSE UNCHANGED <<rows, outbox>>
    /\ Done(c)
    /\ UNCHANGED <<group, ids, fga, failures, written>>
    /\ Remember

-----------------------------------------------------------------------------
(* remove: the group and all its members                                   *)

StartDelete(c) ==
    /\ pc[c] = "idle" /\ group # None
    /\ Goto(c, "groupguard")
    /\ UNCHANGED <<local, fga, failures, written>>
    /\ Remember

Listed(statuses) == {Of(u) : u \in {v \in User : rows[v] # None /\ rows[v].sync \in statuses}}

ListMembers(c) ==
    /\ pc[c] = "list"
    /\ pc' = [pc EXCEPT ![c] = "members"]
    /\ todo' = [todo EXCEPT ![c] = Listed({"synced"})]
    /\ UNCHANGED <<local, fga, job, failures, written>>
    /\ Remember

NextMember(c) ==
    /\ pc[c] = "members"
    /\ \E member \in todo[c] : Take(c, member, "revoke")
    /\ UNCHANGED <<local, fga, failures, written>>
    /\ Remember

(* All rows of the group go, the listed and the others. *)
DeleteGroup(c) ==
    /\ pc[c] = "members" /\ todo[c] = {}
    /\ IF group # None
         THEN /\ group' = None
              /\ rows' = Without(User)
              /\ outbox' = Append(outbox, <<"deleted", None>>)
         ELSE UNCHANGED <<group, rows, outbox>>
    /\ Done(c)
    /\ UNCHANGED <<ids, fga, failures, written>>
    /\ Remember

-----------------------------------------------------------------------------
(* reconcilePending                                                        *)

StartPass(p) ==
    /\ pc[p] = "idle"
    /\ Listed({"pending", "failed"}) # {}
    /\ pc' = [pc EXCEPT ![p] = "next"]
    /\ todo' = [todo EXCEPT ![p] = Listed({"pending", "failed"})]
    /\ UNCHANGED <<local, fga, job, failures, written>>
    /\ Remember

NextRow(p) ==
    /\ pc[p] = "next"
    /\ \/ \E member \in todo[p] :
            /\ pc' = [pc EXCEPT ![p] = "write"]
            /\ job' = [job EXCEPT ![p] = member]
            /\ todo' = [todo EXCEPT ![p] = @ \ {member}]
       \/ todo[p] = {} /\ Goto(p, "idle")
    /\ UNCHANGED <<local, fga, failures, written>>
    /\ Remember

-----------------------------------------------------------------------------
(* The role command for the group, and failures                            *)

(* setTenantRole of another service gives or takes the owner role. *)
SetOwner ==
    /\ owner' = ~owner
    /\ UNCHANGED <<local, tuples, work, failures, written>>
    /\ Remember

Fail == failures < MaxFailures /\ failures' = failures + 1

(* OpenFGA is not reached: no write, and a group counts as an owner. *)
Outage(w) ==
    /\ Fail
    /\ \/ pc[w] = "write" /\ Goto(w, "failed")
       \/ pc[w] \in {"guard", "groupguard", "revoke"} /\ Done(w)
    /\ UNCHANGED <<local, fga, written>>
    /\ Remember

(* OpenFGA did what it was asked, and the answer is lost. *)
LoseAnswer(w) ==
    /\ Fail
    /\ \/ pc[w] = "write" /\ WriteTuple(w) /\ Goto(w, "failed")
       \/ pc[w] = "revoke" /\ DeleteTuple(w) /\ Done(w) /\ UNCHANGED written
    /\ UNCHANGED <<local, owner>>
    /\ muddled' = muddled \union Contended' \union Unanswered(w)

(* The deleting transaction fails, or the replica dies anywhere. *)
Crash(w) ==
    /\ pc[w] # "idle"
    /\ Fail
    /\ pc' = [pc EXCEPT ![w] = "idle"]
    /\ job' = [job EXCEPT ![w] = None]
    /\ todo' = [todo EXCEPT ![w] = {}]
    /\ UNCHANGED <<local, fga, written>>
    /\ muddled' = muddled \union Contended' \union Unanswered(w)

-----------------------------------------------------------------------------
CallStep(c) ==
    \/ Insert(c) \/ AddTuple(c) \/ RecordSyncResult(c)
    \/ GuardOwner(c) \/ RevokeTuple(c) \/ Unmark(c) \/ DeleteRow(c)
    \/ ListMembers(c) \/ NextMember(c) \/ DeleteGroup(c)

PassStep(p) == StartPass(p) \/ NextRow(p) \/ AddTuple(p) \/ RecordSyncResult(p)

Next ==
    \/ \E c \in Call :
         \/ CallStep(c) \/ StartDelete(c) \/ Update(c)
         \/ \E name \in Name : Create(c, name)
         \/ \E u \in User : StartAdd(c, u) \/ StartRemove(c, u)
    \/ \E p \in Pass : PassStep(p)
    \/ \E w \in Worker : Outage(w) \/ LoseAnswer(w) \/ Crash(w)
    \/ SetOwner

Spec == Init /\ [][Next]_vars

-----------------------------------------------------------------------------
(* Properties                                                              *)

Newest(places) == CHOOSE n \in places : \A m \in places : m <= n

(* A row exists exactly when the last event about its user says so,        *)
(* whatever requests race: no removal is announced twice or for nothing.   *)
(* The group is there, under the name of its last event, until its         *)
(* deletion is announced, and no update is announced after that.           *)
EventsTellRows ==
    /\ LET named == {n \in DOMAIN outbox : outbox[n][1] \in {"created", "updated", "deleted"}} IN
       group = IF named = {} THEN None ELSE outbox[Newest(named)][2]
    /\ \A n \in DOMAIN outbox : outbox[n][1] = "deleted" =>
         \A m \in n + 1..Len(outbox) : outbox[m][1] \notin {"created", "updated", "deleted"}
    /\ \A u \in User :
        LET about == {n \in 1..Len(outbox) : outbox[n] \in {<<"member_added", u>>, <<"member_removed", u>>,
                                                             <<"deleted", None>>}}
            added == {n \in about : outbox[n] = <<"member_added", u>>} IN
        /\ (rows[u] # None) <=> \E n \in added : \A m \in about : m <= n
        /\ \A n \in 1..Len(outbox) : outbox[n] = <<"member_removed", u>> =>
               \E m \in added : m < n /\ \A k \in about : ~(m < k /\ k < n)

(* A row is synced only if OpenFGA accepted a tuple for that very row, not *)
(* for an earlier membership of the same user.                             *)
SyncedWasWritten ==
    \A u \in User : rows[u] # None /\ rows[u].sync = "synced" => rows[u].id \in written

(* Where no two workers, lost answer or ill-timed crash met a user, and    *)
(* none is at work, the user is a member for OpenFGA exactly if the row is *)
(* synced, after any outage and any failed deletion.                       *)
SettledIsExact ==
    \A u \in User \ muddled :
        (\A w \in Worker : ~Busy(w, u)) =>
            (u \in tuples <=> rows[u] # None /\ rows[u].sync = "synced")

(* "Remove the OpenFGA tuple before local membership is deleted (fail      *)
(* closed)": with no failure and nobody at work, a user without a row has  *)
(* no tuple.                                                               *)
RemovedIsRevoked ==
    (\A w \in Worker : pc[w] = "idle") => \A u \in User : rows[u] = None => u \notin tuples
=============================================================================
