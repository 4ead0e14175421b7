--------------------------- MODULE AccessRequests ---------------------------
(***************************************************************************)
(* AccessRequestService (pillars/permissions/src/access-request.service.ts)*)
(* over the AccessRequest table and the OpenFGA store.  Create, approve    *)
(* and deny are HTTP calls that any replica runs; each database statement  *)
(* or transaction and each OpenFGA request is one step, so calls interleave*)
(* between them.  An approval is a claim (pending to approving), a grant   *)
(* in OpenFGA and a finalizing transaction, with a compensation when one   *)
(* of the last two fails.  One-time grants are consumed by checks          *)
(* meanwhile (PermissionGrants).                                           *)
(***************************************************************************)
EXTENDS Naturals, Sequences, FiniteSets, OpenFgaStore

CONSTANTS
    Call,        \* HTTP calls in flight
    Request,     \* rows the table may come to hold
    Key,         \* coordinates: a tenant's requester, an action and a resource
    Approver,    \* people other than the requester who decide
    Type,        \* grant types approvers choose
    None,
    MaxFaults,   \* bound on failures the code compensates for
    MaxCrashes   \* bound on calls that end midway

ASSUME RequestAssumption ==
    /\ Type \subseteq GrantType
    /\ None \notin Request \union Key \union Approver \union GrantType
    /\ MaxFaults \in Nat
    /\ MaxCrashes \in Nat

VARIABLES
    status,      \* the row's status, "absent" before it is inserted
    decidedBy,
    coordinate,
    lapsed,      \* requests whose requestExpiresAt has passed
    audit,       \* PermissionsAudit actions of the request, oldest first
    outbox,      \* PermissionsOutbox events of the request, oldest first
    tuples,      \* tuples in OpenFGA
    cleaning,    \* coordinates whose marker a check claimed, clean-up pending
    pc, req, key, actor, type,  \* of each call: next step, row, coordinate, who, grant type
    faults, crashes,
    \* history
    origin,      \* request and type of the grant that wrote the action tuple
    lost,        \* coordinates on which a grant or a compensation was lost
    compensated, \* coordinates on which a compensation deleted tuples
    spent        \* requests whose one-time grant a check has used

rows == <<status, decidedBy, coordinate, lapsed, audit, outbox>>
store == <<tuples, cleaning, origin, lost, compensated, spent>>
calls == <<pc, req, key, actor, type>>
vars == <<rows, store, calls, faults, crashes>>

Final == {"approved", "denied", "expired"}
Status == {"absent", "pending", "approving"} \union Final
InApproval == {"grant", "finalize", "revoke", "rollback"}
Place == {"idle", "dedupe", "insert", "read", "expire", "deny", "claim"} \union InApproval
AuditAction == {"created"} \union Final
Event == {"access_requested", "access_approved", "granted", "access_denied"}

RowTypeOK ==
    /\ status \in [Request -> Status]
    /\ decidedBy \in [Request -> Approver \union {None}]
    /\ coordinate \in [Request -> Key \union {None}]
    /\ \A r \in Request : status[r] # "absent" => coordinate[r] \in Key
    /\ lapsed \in SUBSET Request
    /\ audit \in [Request -> Seq(AuditAction)]
    /\ outbox \in [Request -> Seq(Event)]

StoreTypeOK ==
    /\ tuples \in SUBSET ({ActionTuple(k) : k \in Key} \union {Marker(k) : k \in Key})
    /\ origin \in [Key -> [by : Request \union {None}, type : GrantType \union {None}]]
    /\ cleaning \in SUBSET Key
    /\ lost \in SUBSET Key
    /\ compensated \in SUBSET Key
    /\ spent \in SUBSET (Request \union {None})

CallTypeOK ==
    /\ pc \in [Call -> Place]
    /\ req \in [Call -> Request \union {None}]
    /\ key \in [Call -> Key \union {None}]
    /\ actor \in [Call -> Approver \union {None}]
    /\ type \in [Call -> Type \union {None}]

TypeOK ==
    /\ RowTypeOK /\ StoreTypeOK /\ CallTypeOK
    /\ faults \in 0..MaxFaults
    /\ crashes \in 0..MaxCrashes

NoGrant == [by |-> None, type |-> None]

Init ==
    /\ status = [r \in Request |-> "absent"]
    /\ decidedBy = [r \in Request |-> None]
    /\ coordinate = [r \in Request |-> None]
    /\ audit = [r \in Request |-> <<>>]
    /\ outbox = [r \in Request |-> <<>>]
    /\ origin = [k \in Key |-> NoGrant]
    /\ lapsed = {} /\ tuples = {} /\ cleaning = {}
    /\ lost = {} /\ compensated = {} /\ spent = {}
    /\ pc = [c \in Call |-> "idle"]
    /\ req = [c \in Call |-> None]
    /\ key = [c \in Call |-> None]
    /\ actor = [c \in Call |-> None]
    /\ type = [c \in Call |-> None]
    /\ faults = 0
    /\ crashes = 0

-----------------------------------------------------------------------------
Begin(c, place, r, k, a, t) ==
    /\ pc[c] = "idle"
    /\ pc' = [pc EXCEPT ![c] = place]
    /\ req' = [req EXCEPT ![c] = r]
    /\ key' = [key EXCEPT ![c] = k]
    /\ actor' = [actor EXCEPT ![c] = a]
    /\ type' = [type EXCEPT ![c] = t]

Goto(c, place) ==
    /\ pc' = [pc EXCEPT ![c] = place]
    /\ UNCHANGED <<req, key, actor, type>>

Return(c) ==
    /\ pc' = [pc EXCEPT ![c] = "idle"]
    /\ req' = [req EXCEPT ![c] = None]
    /\ key' = [key EXCEPT ![c] = None]
    /\ actor' = [actor EXCEPT ![c] = None]
    /\ type' = [type EXCEPT ![c] = None]

Bounded == UNCHANGED <<faults, crashes>>
Fault == faults < MaxFaults /\ faults' = faults + 1 /\ UNCHANGED crashes

(* A transaction that sets a row's status, with its audit and outbox rows. *)
Record(r, s, who, actions, events) ==
    /\ status' = [status EXCEPT ![r] = s]
    /\ decidedBy' = [decidedBy EXCEPT ![r] = who]
    /\ audit' = [audit EXCEPT ![r] = @ \o actions]
    /\ outbox' = [outbox EXCEPT ![r] = @ \o events]

-----------------------------------------------------------------------------
(* POST access-requests                                                    *)

StartCreate(c, k) ==
    /\ Begin(c, "dedupe", None, k, None, None)
    /\ Bounded /\ UNCHANGED <<rows, store>>

PendingFor(k) == {r \in Request : coordinate[r] = k /\ status[r] = "pending" /\ r \notin lapsed}

(* An existing pending request is returned as it is. *)
FindPending(c) ==
    /\ pc[c] = "dedupe"
    /\ \/ PendingFor(key[c]) # {} /\ Return(c)
       \/ PendingFor(key[c]) = {} /\ Goto(c, "insert")
    /\ Bounded /\ UNCHANGED <<rows, store>>

(* Faulty variant: the row does not name its coordinate. *)
Insert_NoCoordinate(c) ==
    /\ pc[c] = "insert"
    /\ \E r \in Request :
         /\ status[r] = "absent"
         /\ Record(r, "pending", None, <<"created">>, <<"access_requested">>)
    /\ Return(c)
    /\ Bounded /\ UNCHANGED <<coordinate, lapsed, store>>

Insert(c) ==
    /\ pc[c] = "insert"
    /\ \E r \in Request :
         /\ status[r] = "absent"
         /\ Record(r, "pending", None, <<"created">>, <<"access_requested">>)
         /\ coordinate' = [coordinate EXCEPT ![r] = key[c]]
    /\ Return(c)
    /\ Bounded /\ UNCHANGED <<lapsed, store>>

(* The manager chain or the transaction fails; nothing is written. *)
InsertFails(c) ==
    /\ pc[c] = "insert"
    /\ Return(c)
    /\ Bounded /\ UNCHANGED <<rows, store>>

(* requestExpiresAt passes; only a pending request is ever asked about it. *)
Lapse(r) ==
    /\ status[r] \in {"pending", "approving"}
    /\ r \notin lapsed
    /\ lapsed' = lapsed \union {r}
    /\ Bounded
    /\ UNCHANGED <<status, decidedBy, coordinate, audit, outbox, store, calls>>

-----------------------------------------------------------------------------
(* POST access-requests/:id/approve and /deny                              *)

(* t is the grant type of an approval, None for a denial. *)
StartDecide(c, r, a, t) ==
    /\ status[r] # "absent"
    /\ Begin(c, "read", r, coordinate[r], a, t)
    /\ Bounded /\ UNCHANGED <<rows, store>>

(* requirePendingDecision.  Not pending, not eligible, or an invalid expiry*)
(* ends the call; the row is not looked at again before the next statement.*)
RequirePendingDecision(c) ==
    LET r == req[c] IN
    /\ pc[c] = "read"
    /\ \/ status[r] = "pending" /\ r \in lapsed /\ Goto(c, "expire")
       \/ /\ status[r] = "pending" /\ r \notin lapsed
          /\ Goto(c, IF type[c] = None THEN "deny" ELSE "claim")
       \/ ~(status[r] = "pending" /\ r \in lapsed) /\ Return(c)
    /\ Bounded /\ UNCHANGED <<rows, store>>

MarkExpired(c) ==
    LET r == req[c] IN
    /\ pc[c] = "expire"
    /\ \/ status[r] = "pending" /\ Record(r, "expired", decidedBy[r], <<"expired">>, <<>>)
       \/ status[r] # "pending" /\ UNCHANGED <<status, decidedBy, audit, outbox>>
    /\ Return(c)
    /\ Bounded /\ UNCHANGED <<coordinate, lapsed, store>>

(* Faulty variant: the update is not conditional on the row being pending. *)
Deny_Unconditional(c) ==
    /\ pc[c] = "deny"
    /\ Record(req[c], "denied", actor[c], <<"denied">>, <<"access_denied">>)
    /\ Return(c)
    /\ Bounded /\ UNCHANGED <<coordinate, lapsed, store>>

Deny(c) ==
    LET r == req[c] IN
    /\ pc[c] = "deny"
    /\ \/ /\ status[r] = "pending"
          /\ Record(r, "denied", actor[c], <<"denied">>, <<"access_denied">>)
       \/ status[r] # "pending" /\ UNCHANGED <<status, decidedBy, audit, outbox>>
    /\ Return(c)
    /\ Bounded /\ UNCHANGED <<coordinate, lapsed, store>>

(* Faulty variant: the row read earlier is trusted. *)
Claim_Unconditional(c) ==
    /\ pc[c] = "claim"
    /\ Record(req[c], "approving", actor[c], <<>>, <<>>)
    /\ Goto(c, "grant")
    /\ Bounded /\ UNCHANGED <<coordinate, lapsed, store>>

Claim(c) ==
    LET r == req[c] IN
    /\ pc[c] = "claim"
    /\ \/ status[r] = "pending" /\ Record(r, "approving", actor[c], <<>>, <<>>) /\ Goto(c, "grant")
       \/ status[r] # "pending" /\ Return(c) /\ UNCHANGED <<status, decidedBy, audit, outbox>>
    /\ Bounded /\ UNCHANGED <<coordinate, lapsed, store>>

WriteGrant(c) ==
    LET k == key[c] IN
    /\ Accepts(tuples, TuplesOf(k, type[c]), {})
    /\ tuples' = Applied(tuples, TuplesOf(k, type[c]), {})
    /\ origin' = [origin EXCEPT ![k] = [by |-> req[c], type |-> type[c]]]
    /\ UNCHANGED <<cleaning, compensated, spent>>

(* Faulty variants: a refused write counts as a grant; a refused write     *)
(* ends the call without a rollback.                                       *)
Grant_Unchecked(c) ==
    /\ pc[c] = "grant"
    /\ \/ WriteGrant(c)
       \/ ~Accepts(tuples, TuplesOf(key[c], type[c]), {}) /\ UNCHANGED <<tuples, cleaning, origin, compensated, spent>>
    /\ Goto(c, "finalize")
    /\ Bounded /\ UNCHANGED <<rows, lost>>

Grant_NoRollback(c) ==
    /\ pc[c] = "grant"
    /\ \/ WriteGrant(c) /\ Goto(c, "finalize")
       \/ /\ ~Accepts(tuples, TuplesOf(key[c], type[c]), {})
          /\ Return(c)
          /\ UNCHANGED <<tuples, cleaning, origin, compensated, spent>>
    /\ Bounded /\ UNCHANGED <<rows, lost>>

(* permissions.grant: refused when the coordinate already has a tuple. *)
Grant(c) ==
    /\ pc[c] = "grant"
    /\ \/ WriteGrant(c) /\ Goto(c, "finalize")
       \/ /\ ~Accepts(tuples, TuplesOf(key[c], type[c]), {})
          /\ Goto(c, "rollback")
          /\ UNCHANGED <<tuples, cleaning, origin, compensated, spent>>
    /\ Bounded /\ UNCHANGED <<rows, lost>>

Commit(c) ==
    LET r == req[c] IN
    /\ status[r] = "approving" /\ decidedBy[r] = actor[c]
    /\ Record(r, "approved", decidedBy[r], <<"approved">>, <<"access_approved", "granted">>)
    /\ UNCHANGED <<coordinate, lapsed>>

Finalize(c) ==
    /\ pc[c] = "finalize"
    /\ \/ Commit(c) /\ Return(c)
       \/ /\ ~(status[req[c]] = "approving" /\ decidedBy[req[c]] = actor[c])
          /\ Goto(c, "revoke")
          /\ UNCHANGED rows
    /\ Bounded /\ UNCHANGED store

(* The catch block: revoke deletes the action tuple and the marker, or     *)
(* neither; its answer is not looked at.                                   *)
Revoke(c) ==
    LET k == key[c]
        both == {ActionTuple(k), Marker(k)} IN
    /\ pc[c] = "revoke"
    /\ \/ /\ Accepts(tuples, {}, both)
          /\ tuples' = Applied(tuples, {}, both)
          /\ origin' = [origin EXCEPT ![k] = NoGrant]
          /\ compensated' = compensated \union {k}
       \/ ~Accepts(tuples, {}, both) /\ UNCHANGED <<tuples, origin, compensated>>
    /\ Goto(c, "rollback")
    /\ Bounded /\ UNCHANGED <<rows, cleaning, lost, spent>>

(* Faulty variant: the row is put back whatever its status. *)
RollbackApproving_Unconditional(c) ==
    /\ pc[c] = "rollback"
    /\ Record(req[c], "pending", None, <<>>, <<>>)
    /\ Return(c)
    /\ Bounded /\ UNCHANGED <<coordinate, lapsed, store>>

RollbackApproving(c) ==
    LET r == req[c] IN
    /\ pc[c] = "rollback"
    /\ \/ status[r] = "approving" /\ Record(r, "pending", None, <<>>, <<>>)
       \/ status[r] # "approving" /\ UNCHANGED <<status, decidedBy, audit, outbox>>
    /\ Return(c)
    /\ Bounded /\ UNCHANGED <<coordinate, lapsed, store>>

-----------------------------------------------------------------------------
(* A check uses a one-time grant: marker first, then the action tuple.     *)

ConsumeMarker(k) ==
    /\ Marker(k) \in tuples
    /\ tuples' = tuples \ {Marker(k)}
    /\ cleaning' = cleaning \union {k}
    /\ spent' = spent \union {origin[k].by}
    /\ Bounded /\ UNCHANGED <<rows, calls, origin, lost, compensated>>

CleanUp(k) ==
    /\ k \in cleaning
    /\ tuples' = tuples \ {ActionTuple(k)}
    /\ origin' = [origin EXCEPT ![k] = NoGrant]
    /\ cleaning' = cleaning \ {k}
    /\ Bounded /\ UNCHANGED <<rows, calls, lost, compensated, spent>>

-----------------------------------------------------------------------------
(* Failures                                                                *)

(* OpenFGA cannot be reached. *)
GrantFails(c) ==
    /\ pc[c] = "grant"
    /\ Fault /\ Goto(c, "rollback")
    /\ UNCHANGED <<rows, store>>

(* The tuples are written, but the reply is lost and grant answers false.  *)
GrantUnacknowledged(c) ==
    /\ pc[c] = "grant"
    /\ Fault /\ WriteGrant(c) /\ Goto(c, "rollback")
    /\ lost' = lost \union {key[c]}
    /\ UNCHANGED rows

(* Faulty variant: the grant is not taken back. *)
FinalizeFails_NoRevoke(c) ==
    /\ pc[c] = "finalize"
    /\ Fault /\ Goto(c, "rollback")
    /\ UNCHANGED <<rows, store>>

FinalizeFails(c) ==
    /\ pc[c] = "finalize"
    /\ Fault /\ Goto(c, "revoke")
    /\ UNCHANGED <<rows, store>>

(* The transaction commits, but the call is told it failed. *)
FinalizeUnacknowledged(c) ==
    /\ pc[c] = "finalize"
    /\ Fault /\ Commit(c) /\ Goto(c, "revoke")
    /\ UNCHANGED store

RevokeFails(c) ==
    /\ pc[c] = "revoke"
    /\ Fault /\ Goto(c, "rollback")
    /\ lost' = lost \union {key[c]}
    /\ UNCHANGED <<rows, tuples, cleaning, origin, compensated, spent>>

(* The replica dies, or the next statement throws outside the try block or *)
(* in the catch block: nothing more of the call happens.                   *)
Crash(c) ==
    /\ pc[c] # "idle"
    /\ crashes < MaxCrashes
    /\ crashes' = crashes + 1
    /\ Return(c)
    /\ UNCHANGED <<rows, store, faults>>

-----------------------------------------------------------------------------
Proceed(c) ==
    \/ FindPending(c) \/ Insert(c) \/ InsertFails(c)
    \/ RequirePendingDecision(c) \/ MarkExpired(c) \/ Deny(c)
    \/ Claim(c) \/ Grant(c) \/ Finalize(c) \/ Revoke(c) \/ RollbackApproving(c)

Fails(c) ==
    GrantFails(c) \/ GrantUnacknowledged(c) \/ FinalizeFails(c)
      \/ FinalizeUnacknowledged(c) \/ RevokeFails(c) \/ Crash(c)

Next ==
    \/ \E c \in Call :
         \/ Proceed(c) \/ Fails(c)
         \/ \E k \in Key : StartCreate(c, k)
         \/ \E r \in Request, a \in Approver, t \in Type \union {None} : StartDecide(c, r, a, t)
    \/ \E r \in Request : Lapse(r)
    \/ \E k \in Key : ConsumeMarker(k) \/ CleanUp(k)

Spec == Init /\ [][Next]_vars

-----------------------------------------------------------------------------
(* Properties                                                              *)

(* An approved, denied or expired request never changes again, although    *)
(* approvers race, compensations run and commits go unacknowledged.        *)
DecisionIsFinal ==
    [][\A r \in Request : status[r] \in Final =>
         status'[r] = status[r] /\ decidedBy'[r] = decidedBy[r]]_vars

Trail(s) ==
    IF s = "absent" THEN <<>>
    ELSE <<"created">> \o (IF s \in Final THEN <<s>> ELSE <<>>)

Announced(s) ==
    IF s = "absent" THEN <<>>
    ELSE <<"access_requested">> \o
           (IF s = "approved" THEN <<"access_approved", "granted">>
            ELSE IF s = "denied" THEN <<"access_denied">> ELSE <<>>)

(* However a request got to its status, the audit trail and the outbox     *)
(* tell exactly that: each decision is recorded and announced once, a      *)
(* rolled back approval not at all.                                        *)
EventsMatchDecision ==
    \A r \in Request : audit[r] = Trail(status[r]) /\ outbox[r] = Announced(status[r])

(* An approval in progress owns its request: no other call is past the     *)
(* claim for the same request, and the row is either claimed by it or      *)
(* already approved by it (a commit whose acknowledgement was lost).       *)
ClaimIsExclusive ==
    \A c \in Call : pc[c] \in InApproval =>
        /\ status[req[c]] = "approving" \/ (status[req[c]] = "approved" /\ pc[c] \in {"revoke", "rollback"})
        /\ decidedBy[req[c]] = actor[c]
        /\ \A d \in Call : pc[d] \in InApproval /\ req[d] = req[c] => d = c

(* A one-time action tuple nobody is using stands only for a request that  *)
(* is approved or being approved; a failed approval leaves none behind     *)
(* unless OpenFGA's reply was lost.                                        *)
OneTimeGrantIsBacked ==
    \A k \in Key \ (cleaning \union lost) :
        ActionTuple(k) \in tuples /\ origin[k].type = "one_time" =>
            status[origin[k].by] \in {"approving", "approved"}

(* A request whose grant is not in OpenFGA although no check has used it.  *)
Ungranted(r) ==
    r \notin spent /\ ~(ActionTuple(coordinate[r]) \in tuples /\ origin[coordinate[r]].by = r)

(* The grant of an approved request is in OpenFGA until a check uses it,   *)
(* also when several requests for one coordinate are approved in turn.     *)
(* Only a compensation may take it, its own one after a lost commit or     *)
(* another request's on the coordinate, and each failed finalization costs *)
(* at most one approved request its grant.                                 *)
ApprovedIsGranted ==
    /\ \A r \in Request : status[r] = "approved" /\ Ungranted(r) => coordinate[r] \in compensated
    /\ Cardinality({r \in Request : status[r] = "approved" /\ Ungranted(r)}) <= faults

(* Requests in approving that no call is at work on.                       *)
Stranded ==
    {r \in Request : status[r] = "approving" /\ \A c \in Call : ~(pc[c] \in InApproval /\ req[c] = r)}

(* A request in approving belongs to a call that is still at work on it    *)
(* and ends it.  A call that dies strands the one request it had claimed,  *)
(* for good; no failure, lost answer or compensation strands any.          *)
ApprovingIsOwned == Cardinality(Stranded) <= crashes

(* Claims, compensations, lost answers and crashes apart, the service only *)
(* ever does what AccessContract says: a request is decided once and by    *)
(* one person, it is approved only with its own grant given, a grant is    *)
(* given only for a request still undecided, and no grant disappears but   *)
(* by a check's use or by a compensation while it is unused.               *)
Contract ==
    INSTANCE AccessContract WITH
        standing <- [k \in Key |-> Standing(tuples, k, origin[k].type)],
        holder <- [k \in Key |-> IF ActionTuple(k) \in tuples THEN origin[k].by ELSE None],
        decision <- [r \in Request |-> IF status[r] = "approving" THEN "pending" ELSE status[r]],
        decidedBy <- [r \in Request |->
                        IF status[r] \in {"approved", "denied"} THEN decidedBy[r] ELSE None],
        about <- coordinate,
        used <- spent,
        withdrawn <- compensated

ImplementsContract == Contract!Kept
=============================================================================
