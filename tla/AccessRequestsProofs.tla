------------------------ MODULE AccessRequestsProofs ------------------------
(***************************************************************************)
(* Proofs about AccessRequests for any number of calls, requests,          *)
(* coordinates, approvers, failures and crashes.                           *)
(***************************************************************************)
EXTENDS AccessRequests, SequenceTheorems, FiniteSetTheorems, TLAPS

(* What a call remembers is about an existing row and its coordinate. *)
CallInv ==
    \A c \in Call :
        /\ pc[c] \in {"dedupe", "insert"} => key[c] \in Key
        /\ pc[c] \in {"read", "expire", "deny", "claim"} \union InApproval =>
             /\ req[c] \in Request /\ status[req[c]] # "absent"
             /\ key[c] \in Key /\ key[c] = coordinate[req[c]]
             /\ actor[c] \in Approver
        /\ pc[c] \in {"claim"} \union InApproval => type[c] \in Type

Inv == TypeOK /\ CallInv /\ EventsMatchDecision /\ ClaimIsExclusive

USE RequestAssumption

LEMMA Trails ==
  /\ Trail("absent") \o <<"created">> = Trail("pending")
  /\ Trail("approving") = Trail("pending")
  /\ \A s \in Final : Trail("pending") \o <<s>> = Trail(s)
  /\ \A s \in Status : Trail(s) \o <<>> = Trail(s)
  /\ \A s \in Status : Trail(s) \in Seq(AuditAction)
<1>1. \A s \in Final : <<"created">> \in Seq(AuditAction) /\ <<s>> \in Seq(AuditAction)
  BY DEF AuditAction
<1>2. <<"created">> \o <<>> = <<"created">> /\ <<>> \o <<"created">> = <<"created">>
  OBVIOUS
<1>3. \A s \in Status : Trail(s) \in Seq(AuditAction)
  <2>1. <<>> \in Seq(AuditAction)
    OBVIOUS
  <2> QED
    BY <1>1, <1>2, <2>1, ConcatProperties DEF Trail, Final
<1>4. \A s \in Status : Trail(s) \o <<>> = Trail(s)
  BY <1>3, ConcatEmptySeq
<1> QED
  BY <1>2, <1>3, <1>4 DEF Trail, Final

LEMMA Announcements ==
  /\ Announced("absent") \o <<"access_requested">> = Announced("pending")
  /\ Announced("approving") = Announced("pending")
  /\ Announced("expired") = Announced("pending")
  /\ Announced("pending") \o <<"access_denied">> = Announced("denied")
  /\ Announced("pending") \o <<"access_approved", "granted">> = Announced("approved")
  /\ \A s \in Status : Announced(s) \o <<>> = Announced(s)
  /\ \A s \in Status : Announced(s) \in Seq(Event)
<1>1. <<"access_requested">> \o <<>> = <<"access_requested">>
  OBVIOUS
<1>2. \A s \in Status : Announced(s) \in Seq(Event)
  <2>1. <<>> \in Seq(Event) /\ <<"access_requested">> \in Seq(Event)
        /\ <<"access_denied">> \in Seq(Event) /\ <<"access_approved", "granted">> \in Seq(Event)
    BY DEF Event
  <2> QED
    BY <2>1, ConcatProperties DEF Announced
<1>3. \A s \in Status : Announced(s) \o <<>> = Announced(s)
  BY <1>2, ConcatEmptySeq
<1>4. <<>> \o <<"access_requested">> = <<"access_requested">>
  OBVIOUS
<1> QED
  BY <1>1, <1>2, <1>3, <1>4 DEF Announced, Final

-----------------------------------------------------------------------------
(* The rows                                                                *)

RowInv == RowTypeOK /\ EventsMatchDecision

(* A transaction on one row keeps its trail and its events in step with    *)
(* its status.                                                             *)
LEMMA RecordStep ==
  ASSUME RowInv, NEW r \in Request, NEW s \in Status,
         NEW who \in Approver \union {None}, NEW actions, NEW events,
         Record(r, s, who, actions, events),
         Trail(status[r]) \o actions = Trail(s),
         Announced(status[r]) \o events = Announced(s),
         s # "absent", lapsed' \in SUBSET Request,
         \/ UNCHANGED coordinate /\ status[r] # "absent"
         \/ \E k \in Key : coordinate' = [coordinate EXCEPT ![r] = k]
  PROVE  RowInv'
<1> USE DEF RowInv, RowTypeOK, EventsMatchDecision, Record
<1>1. status' \in [Request -> Status] /\ decidedBy' \in [Request -> Approver \union {None}]
  OBVIOUS
<1>2. \A q \in Request : audit'[q] = Trail(status'[q]) /\ outbox'[q] = Announced(status'[q])
  <2>1. ASSUME NEW q \in Request, q # r
        PROVE  audit'[q] = Trail(status'[q]) /\ outbox'[q] = Announced(status'[q])
    BY <2>1
  <2>2. audit'[r] = Trail(status'[r]) /\ outbox'[r] = Announced(status'[r])
    OBVIOUS
  <2> QED
    BY <2>1, <2>2
<1>3. \A q \in Request : audit'[q] \in Seq(AuditAction) /\ outbox'[q] \in Seq(Event)
  <2>1. \A t \in Status : Trail(t) \in Seq(AuditAction) /\ Announced(t) \in Seq(Event)
    BY Trails, Announcements
  <2>2. \A q \in Request : status'[q] \in Status
    BY <1>1
  <2> HIDE DEF RowInv, RowTypeOK, EventsMatchDecision, Record
  <2> QED
    BY <1>2, <2>1, <2>2
<1>4. coordinate' \in [Request -> Key \union {None}]
      /\ \A q \in Request : status'[q] # "absent" => coordinate'[q] \in Key
  <2>1. coordinate \in [Request -> Key \union {None}] /\ status' = [status EXCEPT ![r] = s]
        /\ \A q \in Request : status[q] # "absent" => coordinate[q] \in Key
    OBVIOUS
  <2>2. \A q \in Request : q # r => status'[q] = status[q]
    OBVIOUS
  <2> HIDE DEF RowInv, RowTypeOK, EventsMatchDecision, Record
  <2>3. CASE UNCHANGED coordinate /\ status[r] # "absent"
    BY <2>1, <2>2, <2>3
  <2>4. ASSUME NEW k \in Key, coordinate' = [coordinate EXCEPT ![r] = k]
        PROVE  /\ coordinate' \in [Request -> Key \union {None}]
               /\ \A q \in Request : status'[q] # "absent" => coordinate'[q] \in Key
    BY <2>1, <2>2, <2>4
  <2> QED
    BY <2>3, <2>4
<1>5. audit' \in [Request -> Seq(AuditAction)] /\ outbox' \in [Request -> Seq(Event)]
  BY <1>3
<1> QED
  BY <1>1, <1>2, <1>4, <1>5

(* What the transactions of the service record. *)
LEMMA RowStep == TypeOK /\ CallInv /\ EventsMatchDecision /\ [Next]_vars => RowInv'
<1> SUFFICES ASSUME TypeOK, CallInv, EventsMatchDecision, [Next]_vars PROVE RowInv'
  OBVIOUS
<1>t. RowInv
  BY DEF TypeOK, RowInv
<1>1. CASE UNCHANGED rows
  BY <1>t, <1>1 DEF rows, RowInv, RowTypeOK, EventsMatchDecision
<1>2. ASSUME NEW r \in Request, Lapse(r) PROVE RowInv'
  BY <1>t, <1>2 DEF Lapse, RowInv, RowTypeOK, EventsMatchDecision
<1>3. ASSUME NEW c \in Call, Insert(c) PROVE RowInv'
  <2>1. PICK r \in Request : /\ status[r] = "absent"
                             /\ Record(r, "pending", None, <<"created">>, <<"access_requested">>)
                             /\ coordinate' = [coordinate EXCEPT ![r] = key[c]]
    BY <1>3 DEF Insert
  <2>2. key[c] \in Key /\ "pending" \in Status /\ lapsed' \in SUBSET Request
    BY <1>3, <1>t DEF Insert, CallInv, Status, RowInv, RowTypeOK
  <2> QED
    BY <1>t, <2>1, <2>2, Trails, Announcements, RecordStep
<1>4. ASSUME NEW c \in Call, pc[c] \in {"read", "expire", "deny", "claim"} \union InApproval,
             UNCHANGED <<coordinate, lapsed>>,
             NEW s \in Status, NEW who \in Approver \union {None}, NEW actions, NEW events,
             Record(req[c], s, who, actions, events), s # "absent",
             Trail(status[req[c]]) \o actions = Trail(s),
             Announced(status[req[c]]) \o events = Announced(s)
      PROVE  RowInv'
  <2>1. req[c] \in Request /\ status[req[c]] # "absent" /\ lapsed' \in SUBSET Request
    BY <1>4, <1>t DEF CallInv, RowInv, RowTypeOK
  <2> QED
    BY <1>4, <1>t, <2>1, RecordStep
<1> HIDE DEF Record
<1>5. ASSUME NEW c \in Call, MarkExpired(c) PROVE RowInv'
  <2>1. CASE status[req[c]] = "pending"
    <3>1. Record(req[c], "expired", decidedBy[req[c]], <<"expired">>, <<>>)
          /\ UNCHANGED <<coordinate, lapsed>> /\ pc[c] = "expire"
      BY <1>5, <2>1 DEF MarkExpired
    <3>2. decidedBy[req[c]] \in Approver \union {None} /\ "expired" \in Status
      BY <3>1, <1>t DEF CallInv, RowInv, RowTypeOK, Status, Final
    <3>3. Trail("pending") \o <<"expired">> = Trail("expired")
          /\ Announced("pending") \o <<>> = Announced("expired")
      BY Trails, Announcements DEF Final, Status
    <3> QED
      BY <1>4, <2>1, <3>1, <3>2, <3>3
  <2>2. CASE status[req[c]] # "pending"
    BY <1>1, <1>5, <2>2 DEF MarkExpired, rows
  <2> QED
    BY <2>1, <2>2
<1>6. ASSUME NEW c \in Call, Deny(c) PROVE RowInv'
  <2>1. CASE status[req[c]] = "pending"
    <3>1. Record(req[c], "denied", actor[c], <<"denied">>, <<"access_denied">>)
          /\ UNCHANGED <<coordinate, lapsed>> /\ pc[c] = "deny"
      BY <1>6, <2>1 DEF Deny
    <3>2. actor[c] \in Approver \union {None} /\ "denied" \in Status
      BY <3>1 DEF CallInv, Status, Final
    <3>3. Trail("pending") \o <<"denied">> = Trail("denied")
      BY Trails DEF Final
    <3> QED
      BY <1>4, <2>1, <3>1, <3>2, <3>3, Announcements
  <2>2. CASE status[req[c]] # "pending"
    BY <1>1, <1>6, <2>2 DEF Deny, rows
  <2> QED
    BY <2>1, <2>2
<1>7. ASSUME NEW c \in Call, Claim(c) PROVE RowInv'
  <2>1. CASE status[req[c]] = "pending"
    <3>1. Record(req[c], "approving", actor[c], <<>>, <<>>)
          /\ UNCHANGED <<coordinate, lapsed>> /\ pc[c] = "claim"
      BY <1>7, <2>1 DEF Claim
    <3>2. actor[c] \in Approver \union {None} /\ "approving" \in Status
      BY <3>1 DEF CallInv, Status
    <3>3. Trail("pending") \o <<>> = Trail("approving")
          /\ Announced("pending") \o <<>> = Announced("approving")
      BY Trails, Announcements DEF Status
    <3> QED
      BY <1>4, <2>1, <3>1, <3>2, <3>3
  <2>2. CASE status[req[c]] # "pending"
    BY <1>1, <1>7, <2>2 DEF Claim, rows
  <2> QED
    BY <2>1, <2>2
<1>8. ASSUME NEW c \in Call, pc[c] = "finalize", Commit(c) PROVE RowInv'
  <2>1. Record(req[c], "approved", decidedBy[req[c]], <<"approved">>, <<"access_approved", "granted">>)
        /\ UNCHANGED <<coordinate, lapsed>> /\ status[req[c]] = "approving"
    BY <1>8 DEF Commit
  <2>2. decidedBy[req[c]] \in Approver \union {None} /\ "approved" \in Status
    BY <1>8, <1>t DEF CallInv, RowInv, RowTypeOK, InApproval, Status, Final
  <2>3. Trail("approving") \o <<"approved">> = Trail("approved")
        /\ Announced("approving") \o <<"access_approved", "granted">> = Announced("approved")
    BY Trails, Announcements DEF Final
  <2> QED
    BY <1>4, <1>8, <2>1, <2>2, <2>3 DEF InApproval
<1>9. ASSUME NEW c \in Call, RollbackApproving(c) PROVE RowInv'
  <2>1. CASE status[req[c]] = "approving"
    <3>1. Record(req[c], "pending", None, <<>>, <<>>)
          /\ UNCHANGED <<coordinate, lapsed>> /\ pc[c] = "rollback"
      BY <1>9, <2>1 DEF RollbackApproving
    <3>2. Trail("approving") \o <<>> = Trail("pending") /\ "pending" \in Status
          /\ Announced("approving") \o <<>> = Announced("pending")
      BY Trails, Announcements DEF Status
    <3> QED
      BY <1>4, <2>1, <3>1, <3>2 DEF InApproval
  <2>2. CASE status[req[c]] # "approving"
    BY <1>1, <1>9, <2>2 DEF RollbackApproving, rows
  <2> QED
    BY <2>1, <2>2
<1>10. CASE UNCHANGED vars
  BY <1>1, <1>10 DEF vars
<1>11. ASSUME NEW c \in Call, Finalize(c) PROVE RowInv'
  BY <1>1, <1>8, <1>11 DEF Finalize
<1>12. ASSUME NEW c \in Call, FinalizeUnacknowledged(c) PROVE RowInv'
  BY <1>8, <1>12 DEF FinalizeUnacknowledged
<1>13. ASSUME NEW c \in Call, Proceed(c) PROVE RowInv'
  BY <1>1, <1>3, <1>5, <1>6, <1>7, <1>9, <1>11, <1>13
     DEF Proceed, FindPending, InsertFails, RequirePendingDecision, Grant, Revoke
<1>14. ASSUME NEW c \in Call, Fails(c) PROVE RowInv'
  BY <1>1, <1>12, <1>14
     DEF Fails, GrantFails, GrantUnacknowledged, FinalizeFails, RevokeFails, Crash
<1>15. ASSUME NEW k \in Key, ConsumeMarker(k) \/ CleanUp(k) PROVE RowInv'
  BY <1>1, <1>15 DEF ConsumeMarker, CleanUp
<1>16. ASSUME NEW c \in Call, NEW k \in Key, StartCreate(c, k) PROVE RowInv'
  BY <1>1, <1>16 DEF StartCreate
<1>17. ASSUME NEW c \in Call, NEW r \in Request, NEW a \in Approver, NEW t \in Type \union {None},
              StartDecide(c, r, a, t)
       PROVE  RowInv'
  BY <1>1, <1>17 DEF StartDecide
<1> QED
  BY <1>2, <1>10, <1>13, <1>14, <1>15, <1>16, <1>17 DEF Next

(* A row, once there, stays, and keeps its coordinate. *)
RowsKept ==
    \A r \in Request : status[r] # "absent" => status'[r] # "absent" /\ coordinate'[r] = coordinate[r]

LEMMA KeptStep == TypeOK /\ CallInv /\ [Next]_vars => RowsKept
<1> SUFFICES ASSUME TypeOK, CallInv, [Next]_vars PROVE RowsKept
  OBVIOUS
<1> USE DEF RowsKept
<1>1. CASE UNCHANGED <<status, coordinate>>
  BY <1>1
<1>2. ASSUME NEW c \in Call, Insert(c) PROVE RowsKept
  BY <1>2 DEF Insert, Record, TypeOK, RowTypeOK
<1>3. ASSUME UNCHANGED coordinate, NEW r, NEW s, s # "absent", status' = [status EXCEPT ![r] = s]
      PROVE  RowsKept
  BY <1>3 DEF TypeOK, RowTypeOK
<1>4. ASSUME NEW c \in Call, MarkExpired(c) \/ Deny(c) \/ Claim(c) \/ RollbackApproving(c)
      PROVE  RowsKept
  BY <1>1, <1>3, <1>4, ZenonT(60) DEF MarkExpired, Deny, Claim, RollbackApproving, Record
<1>5. ASSUME NEW c \in Call, Finalize(c) \/ FinalizeUnacknowledged(c) PROVE RowsKept
  BY <1>1, <1>3, <1>5 DEF Finalize, FinalizeUnacknowledged, Commit, Record, rows
<1> QED
  BY <1>1, <1>2, <1>4, <1>5
     DEF Next, vars, rows, Proceed, Fails, FindPending, InsertFails, RequirePendingDecision,
         Grant, Revoke, GrantFails, GrantUnacknowledged, FinalizeFails, RevokeFails, Crash,
         StartCreate, StartDecide, Lapse, ConsumeMarker, CleanUp

-----------------------------------------------------------------------------
(* The calls                                                               *)

Deciding == {"read", "expire", "deny", "claim"} \union InApproval

LEMMA GotoStep ==
  ASSUME TypeOK, CallInv, RowsKept, NEW c \in Call, NEW p \in Place, Goto(c, p),
         p \in {"dedupe", "insert"} => key[c] \in Key,
         p \in Deciding => pc[c] \in Deciding,
         p \in {"claim"} \union InApproval => type[c] \in Type
  PROVE  CallTypeOK' /\ CallInv'
<1>1. /\ pc' = [pc EXCEPT ![c] = p] /\ UNCHANGED <<req, key, actor, type>>
      /\ CallTypeOK
  BY DEF Goto, TypeOK
<1>2. CallTypeOK'
  BY <1>1 DEF CallTypeOK
<1>3. ASSUME NEW d \in Call
      PROVE  /\ pc'[d] \in {"dedupe", "insert"} => key[d] \in Key
             /\ pc'[d] \in Deciding => pc[d] \in Deciding
             /\ pc'[d] \in {"claim"} \union InApproval => type[d] \in Type
  BY <1>1 DEF CallInv, CallTypeOK
<1> QED
  BY <1>1, <1>2, <1>3 DEF CallInv, RowsKept, Deciding

LEMMA ReturnStep ==
  ASSUME TypeOK, CallInv, RowsKept, NEW c \in Call, Return(c)
  PROVE  CallTypeOK' /\ CallInv'
<1>1. CallTypeOK'
  BY DEF Return, TypeOK, CallTypeOK, Place
<1>2. \A d \in Call : d # c => /\ pc'[d] = pc[d] /\ req'[d] = req[d] /\ key'[d] = key[d]
                               /\ actor'[d] = actor[d] /\ type'[d] = type[d]
  BY DEF Return, TypeOK, CallTypeOK
<1>3. pc'[c] = "idle"
  BY DEF Return, TypeOK, CallTypeOK
<1> QED
  BY <1>1, <1>2, <1>3 DEF CallInv, RowsKept, InApproval

LEMMA CallsStep == TypeOK /\ CallInv /\ [Next]_vars => CallTypeOK' /\ CallInv'
<1> SUFFICES ASSUME TypeOK, CallInv, [Next]_vars PROVE CallTypeOK' /\ CallInv'
  OBVIOUS
<1>k. RowsKept
  BY KeptStep
<1>1. CASE UNCHANGED calls
  BY <1>1, <1>k DEF calls, TypeOK, CallTypeOK, CallInv, RowsKept
<1>2. ASSUME NEW c \in Call, Return(c) PROVE CallTypeOK' /\ CallInv'
  BY <1>2, <1>k, ReturnStep
<1>3. ASSUME NEW c \in Call, NEW k \in Key, StartCreate(c, k) PROVE CallTypeOK' /\ CallInv'
  <2>1. \A d \in Call : d # c => /\ pc'[d] = pc[d] /\ req'[d] = req[d] /\ key'[d] = key[d]
                                 /\ actor'[d] = actor[d] /\ type'[d] = type[d]
    BY <1>3 DEF StartCreate, Begin, TypeOK, CallTypeOK
  <2>2. pc'[c] = "dedupe" /\ key'[c] = k
    BY <1>3 DEF StartCreate, Begin, TypeOK, CallTypeOK
  <2>3. CallTypeOK'
    BY <1>3 DEF StartCreate, Begin, TypeOK, CallTypeOK, Place
  <2> QED
    BY <1>k, <2>1, <2>2, <2>3 DEF CallInv, RowsKept, InApproval
<1>4. ASSUME NEW c \in Call, NEW r \in Request, NEW a \in Approver, NEW t \in Type \union {None},
             StartDecide(c, r, a, t)
      PROVE  CallTypeOK' /\ CallInv'
  <2>1. \A d \in Call : d # c => /\ pc'[d] = pc[d] /\ req'[d] = req[d] /\ key'[d] = key[d]
                                 /\ actor'[d] = actor[d] /\ type'[d] = type[d]
    BY <1>4 DEF StartDecide, Begin, TypeOK, CallTypeOK
  <2>2. pc'[c] = "read" /\ req'[c] = r /\ key'[c] = coordinate[r] /\ actor'[c] = a
    BY <1>4 DEF StartDecide, Begin, TypeOK, CallTypeOK
  <2>3. coordinate[r] \in Key /\ status'[r] # "absent" /\ coordinate'[r] = coordinate[r]
    BY <1>4, <1>k DEF StartDecide, TypeOK, RowTypeOK, RowsKept
  <2>4. CallTypeOK'
    BY <1>4, <2>3 DEF StartDecide, Begin, TypeOK, CallTypeOK, Place
  <2> QED
    BY <1>k, <2>1, <2>2, <2>3, <2>4 DEF CallInv, RowsKept, InApproval
<1>5. ASSUME NEW c \in Call, FindPending(c) PROVE CallTypeOK' /\ CallInv'
  <2>1. Goto(c, "insert") /\ pc[c] = "dedupe" => CallTypeOK' /\ CallInv'
    BY <1>k, GotoStep DEF CallInv, Place, Deciding, InApproval
  <2> QED
    BY <1>2, <1>5, <2>1 DEF FindPending
<1>6. ASSUME NEW c \in Call, RequirePendingDecision(c) PROVE CallTypeOK' /\ CallInv'
  <2>1. ASSUME NEW p \in {"expire", "deny"}, Goto(c, p), pc[c] = "read" PROVE CallTypeOK' /\ CallInv'
    BY <1>k, <2>1, GotoStep DEF Place, Deciding, InApproval
  <2>2. ASSUME Goto(c, "claim"), pc[c] = "read", type[c] # None PROVE CallTypeOK' /\ CallInv'
    <3>1. type[c] \in Type
      BY <2>2 DEF TypeOK, CallTypeOK
    <3> QED
      BY <1>k, <2>2, <3>1, GotoStep DEF Place, Deciding
  <2> QED
    BY <1>2, <1>6, <2>1, <2>2 DEF RequirePendingDecision
<1>7. ASSUME NEW c \in Call, pc[c] \in {"claim"} \union InApproval, NEW p \in InApproval, Goto(c, p)
      PROVE  CallTypeOK' /\ CallInv'
  <2>1. type[c] \in Type /\ p \in Place /\ pc[c] \in Deciding /\ p \notin {"dedupe", "insert"}
    BY <1>7 DEF CallInv, Place, Deciding, InApproval
  <2> QED
    BY <1>k, <1>7, <2>1, GotoStep
<1>8. ASSUME NEW c \in Call, Proceed(c) PROVE CallTypeOK' /\ CallInv'
  <2> USE <1>2, <1>7 DEF InApproval
  <2>1. CASE Insert(c) \/ InsertFails(c) \/ MarkExpired(c) \/ Deny(c)
    BY <2>1 DEF Insert, InsertFails, MarkExpired, Deny
  <2>2. CASE Claim(c)
    BY <2>2 DEF Claim
  <2>3. CASE Grant(c)
    BY <2>3 DEF Grant
  <2>4. CASE Finalize(c)
    BY <2>4 DEF Finalize
  <2>5. CASE Revoke(c)
    BY <2>5 DEF Revoke
  <2>6. CASE RollbackApproving(c)
    BY <2>6 DEF RollbackApproving
  <2> QED
    BY <1>5, <1>6, <1>8, <2>1, <2>2, <2>3, <2>4, <2>5, <2>6 DEF Proceed
<1>9. ASSUME NEW c \in Call, Fails(c) PROVE CallTypeOK' /\ CallInv'
  <2>1. CASE Crash(c)
    BY <1>2, <2>1 DEF Crash
  <2>2. CASE pc[c] \in InApproval /\ \E p \in InApproval : Goto(c, p)
    BY <1>7, <2>2
  <2> QED
    BY <1>9, <2>1, <2>2
       DEF Fails, GrantFails, GrantUnacknowledged, FinalizeFails, FinalizeUnacknowledged,
           RevokeFails, InApproval
<1> QED
  BY <1>1, <1>3, <1>4, <1>8, <1>9 DEF Next, Lapse, ConsumeMarker, CleanUp, vars

-----------------------------------------------------------------------------
(* Claims                                                                  *)

(* Every approval in progress was one before, with the same row, which it  *)
(* still owns.                                                             *)
LEMMA ClaimsKept ==
  ASSUME ClaimIsExclusive,
         \A d \in Call : pc'[d] \in InApproval =>
             /\ pc[d] \in InApproval /\ req'[d] = req[d] /\ actor'[d] = actor[d]
             /\ decidedBy'[req[d]] = decidedBy[req[d]]
             /\ \/ status'[req[d]] = status[req[d]] /\ (pc'[d] = pc[d] \/ pc'[d] \in {"revoke", "rollback"})
                \/ status'[req[d]] = "approving"
                \/ status'[req[d]] = "approved" /\ pc'[d] \in {"revoke", "rollback"}
  PROVE  ClaimIsExclusive'
BY DEF ClaimIsExclusive

(* The step of a call that leaves its place in the approval of a row, or   *)
(* moves on in it, and leaves the rows alone.                              *)
LEMMA ClaimsQuiet ==
  ASSUME TypeOK, ClaimIsExclusive, UNCHANGED <<status, decidedBy>>, NEW c \in Call,
         \/ Return(c)
         \/ \E p \in Place \ InApproval : Goto(c, p)
         \/ pc[c] \in InApproval /\ \E p \in {"revoke", "rollback"} : Goto(c, p)
         \/ pc[c] = "grant" /\ Goto(c, "finalize")
  PROVE  ClaimIsExclusive'
<1>1. \A d \in Call : d # c => /\ pc'[d] = pc[d] /\ req'[d] = req[d] /\ actor'[d] = actor[d]
  BY DEF Return, Goto, TypeOK, CallTypeOK
<1>2. pc'[c] \in InApproval =>
        /\ pc[c] \in InApproval /\ req'[c] = req[c] /\ actor'[c] = actor[c]
        /\ pc'[c] \in {"revoke", "rollback"} \/ (pc[c] = "grant" /\ pc'[c] = "finalize")
  BY DEF Return, Goto, TypeOK, CallTypeOK, InApproval
<1>3. pc[c] = "grant" => status[req[c]] = "approving"
  BY DEF ClaimIsExclusive, InApproval
<1> QED
  BY <1>1, <1>2, <1>3, ClaimsKept

(* The status of a row no approval in progress is about may change. *)
LEMMA ClaimsElsewhere ==
  ASSUME TypeOK, ClaimIsExclusive, NEW c \in Call, NEW r \in Request,
         NEW s, NEW who, NEW actions, NEW events, Record(r, s, who, actions, events),
         Return(c), \A d \in Call : d # c /\ pc[d] \in InApproval => req[d] # r
  PROVE  ClaimIsExclusive'
<1>1. \A d \in Call : d # c => /\ pc'[d] = pc[d] /\ req'[d] = req[d] /\ actor'[d] = actor[d]
  BY DEF Return, TypeOK, CallTypeOK
<1>2. pc'[c] \notin InApproval
  BY DEF Return, TypeOK, CallTypeOK, InApproval
<1>3. \A q : q # r => status'[q] = status[q] /\ decidedBy'[q] = decidedBy[q]
  BY DEF Record, TypeOK, RowTypeOK
<1> QED
  BY <1>1, <1>2, <1>3, ClaimsKept

LEMMA ClaimStep == TypeOK /\ CallInv /\ ClaimIsExclusive /\ [Next]_vars => ClaimIsExclusive'
<1> SUFFICES ASSUME TypeOK, CallInv, ClaimIsExclusive, [Next]_vars PROVE ClaimIsExclusive'
  OBVIOUS
<1>q. ASSUME NEW r, status[r] \notin {"approving", "approved"}, NEW d \in Call, pc[d] \in InApproval
      PROVE  req[d] # r
  BY <1>q DEF ClaimIsExclusive
<1>1. CASE UNCHANGED <<status, decidedBy, calls>>
  BY <1>1 DEF calls, ClaimIsExclusive
<1>2. ASSUME NEW c \in Call, FindPending(c) \/ InsertFails(c) \/ RequirePendingDecision(c) \/ Crash(c)
      PROVE  ClaimIsExclusive'
  <2>1. {"insert", "expire", "deny", "claim"} \subseteq Place \ InApproval
    BY DEF Place, InApproval
  <2> QED
    BY <1>2, <2>1, ClaimsQuiet
       DEF FindPending, InsertFails, RequirePendingDecision, Crash, rows
<1>3. ASSUME NEW c \in Call, Insert(c) PROVE ClaimIsExclusive'
  BY <1>q, <1>3, ClaimsElsewhere DEF Insert
<1>4. ASSUME NEW c \in Call, MarkExpired(c) \/ Deny(c) PROVE ClaimIsExclusive'
  <2>1. req[c] \in Request
    BY <1>4 DEF MarkExpired, Deny, CallInv
  <2> QED
    BY <1>q, <1>4, <2>1, ClaimsElsewhere, ClaimsQuiet DEF MarkExpired, Deny
<1>5. ASSUME NEW c \in Call, Claim(c) PROVE ClaimIsExclusive'
  <2>1. CASE status[req[c]] # "pending"
    BY <1>5, <2>1, ClaimsQuiet DEF Claim
  <2>2. CASE status[req[c]] = "pending"
    <3>1. Record(req[c], "approving", actor[c], <<>>, <<>>) /\ Goto(c, "grant")
          /\ req[c] \in Request /\ pc[c] = "claim"
      BY <1>5, <2>2 DEF Claim, CallInv
    <3>2. \A d \in Call : pc[d] \in InApproval => req[d] # req[c]
      BY <1>q, <2>2
    <3>3. /\ status'[req[c]] = "approving" /\ decidedBy'[req[c]] = actor[c]
          /\ \A q : q # req[c] => status'[q] = status[q] /\ decidedBy'[q] = decidedBy[q]
      BY <3>1 DEF Record, TypeOK, RowTypeOK
    <3>4. /\ UNCHANGED <<req, actor>> /\ pc'[c] = "grant"
          /\ \A d \in Call : d # c => pc'[d] = pc[d]
      BY <3>1 DEF Goto, TypeOK, CallTypeOK
    <3> QED
      BY <3>2, <3>3, <3>4 DEF ClaimIsExclusive, InApproval
  <2> QED
    BY <2>1, <2>2
<1>6. ASSUME NEW c \in Call, Grant(c) \/ Revoke(c) \/ GrantFails(c) \/ GrantUnacknowledged(c)
                              \/ FinalizeFails(c) \/ RevokeFails(c)
      PROVE  ClaimIsExclusive'
  BY <1>6, ClaimsQuiet
     DEF Grant, Revoke, GrantFails, GrantUnacknowledged, FinalizeFails, RevokeFails, rows, InApproval
<1>7. ASSUME NEW c \in Call, Finalize(c) \/ FinalizeUnacknowledged(c) PROVE ClaimIsExclusive'
  <2>1. /\ pc[c] = "finalize" /\ req[c] \in Request
        /\ \A d \in Call : d # c /\ pc[d] \in InApproval => req[d] # req[c]
    BY <1>7 DEF Finalize, FinalizeUnacknowledged, CallInv, ClaimIsExclusive, InApproval
  <2>2. CASE Commit(c) /\ Return(c)
    BY <2>1, <2>2, ClaimsElsewhere DEF Commit
  <2>3. CASE Commit(c) /\ Goto(c, "revoke")
    <3>1. /\ status'[req[c]] = "approved" /\ decidedBy'[req[c]] = decidedBy[req[c]]
          /\ \A q : q # req[c] => status'[q] = status[q] /\ decidedBy'[q] = decidedBy[q]
      BY <2>1, <2>3 DEF Commit, Record, TypeOK, RowTypeOK
    <3>2. /\ UNCHANGED <<req, actor>> /\ pc'[c] = "revoke"
          /\ \A d \in Call : d # c => pc'[d] = pc[d]
      BY <2>3 DEF Goto, TypeOK, CallTypeOK
    <3> QED
      BY <2>1, <3>1, <3>2, ClaimsKept DEF InApproval
  <2>4. CASE UNCHANGED rows /\ Goto(c, "revoke")
    BY <2>1, <2>4, ClaimsQuiet DEF rows, InApproval
  <2> QED
    BY <1>7, <2>2, <2>3, <2>4 DEF Finalize, FinalizeUnacknowledged
<1>8. ASSUME NEW c \in Call, RollbackApproving(c) PROVE ClaimIsExclusive'
  <2>1. /\ req[c] \in Request
        /\ \A d \in Call : d # c /\ pc[d] \in InApproval => req[d] # req[c]
    BY <1>8 DEF RollbackApproving, CallInv, ClaimIsExclusive, InApproval
  <2> QED
    BY <1>8, <2>1, ClaimsElsewhere, ClaimsQuiet DEF RollbackApproving
<1>9. ASSUME NEW c \in Call, NEW p \in {"dedupe", "read"}, NEW r, NEW k, NEW a, NEW t,
             Begin(c, p, r, k, a, t), UNCHANGED rows
      PROVE  ClaimIsExclusive'
  <2>1. \A d \in Call : d # c => /\ pc'[d] = pc[d] /\ req'[d] = req[d] /\ actor'[d] = actor[d]
    BY <1>9 DEF Begin, TypeOK, CallTypeOK
  <2>2. pc'[c] \notin InApproval
    BY <1>9 DEF Begin, TypeOK, CallTypeOK, InApproval
  <2> QED
    BY <1>9, <2>1, <2>2, ClaimsKept DEF rows
<1> QED
  BY <1>1, <1>2, <1>3, <1>4, <1>5, <1>6, <1>7, <1>8, <1>9
     DEF Next, Proceed, Fails, StartCreate, StartDecide, Lapse, ConsumeMarker, CleanUp,
         vars, rows

-----------------------------------------------------------------------------
(* The store and the bounds                                                *)

LEMMA StoreTypeStep == TypeOK /\ CallInv /\ [Next]_vars => StoreTypeOK'
<1> SUFFICES ASSUME TypeOK, CallInv, [Next]_vars PROVE StoreTypeOK'
  OBVIOUS
<1>t. StoreTypeOK
  BY DEF TypeOK
<1> USE DEF StoreTypeOK
<1>1. CASE UNCHANGED store
  BY <1>t, <1>1 DEF store
<1>2. ASSUME NEW c \in Call, pc[c] = "grant", WriteGrant(c), lost' \in SUBSET Key PROVE StoreTypeOK'
  <2>1. req[c] \in Request /\ key[c] \in Key /\ type[c] \in GrantType
    BY <1>2 DEF CallInv, InApproval
  <2>2. TuplesOf(key[c], type[c]) \subseteq {ActionTuple(k) : k \in Key} \union {Marker(k) : k \in Key}
    BY <2>1 DEF TuplesOf
  <2> QED
    BY <1>t, <1>2, <2>1, <2>2 DEF WriteGrant, Applied
<1>3. ASSUME NEW c \in Call, Grant(c) PROVE StoreTypeOK'
  BY <1>1, <1>2, <1>3, <1>t DEF Grant, store
<1>4. ASSUME NEW c \in Call, GrantUnacknowledged(c) PROVE StoreTypeOK'
  <2>1. key[c] \in Key
    BY <1>4 DEF GrantUnacknowledged, CallInv, InApproval
  <2> QED
    BY <1>2, <1>4, <1>t, <2>1 DEF GrantUnacknowledged
<1>5. ASSUME NEW c \in Call, Revoke(c) \/ RevokeFails(c) PROVE StoreTypeOK'
  <2>1. key[c] \in Key
    BY <1>5 DEF Revoke, RevokeFails, CallInv, InApproval
  <2> QED
    BY <1>5, <1>t, <2>1 DEF Revoke, RevokeFails, Applied, NoGrant
<1>6. ASSUME NEW k \in Key, ConsumeMarker(k) \/ CleanUp(k) PROVE StoreTypeOK'
  BY <1>6, <1>t DEF ConsumeMarker, CleanUp, NoGrant
<1> QED
  BY <1>1, <1>3, <1>4, <1>5, <1>6
     DEF Next, Proceed, Fails, vars, StartCreate, StartDecide, Lapse, FindPending, Insert,
         InsertFails, RequirePendingDecision, MarkExpired, Deny, Claim, Finalize,
         RollbackApproving, GrantFails, FinalizeFails, FinalizeUnacknowledged, Crash

LEMMA BoundStep ==
  TypeOK /\ [Next]_vars => faults' \in 0..MaxFaults /\ crashes' \in 0..MaxCrashes
<1> SUFFICES ASSUME TypeOK, [Next]_vars PROVE faults' \in 0..MaxFaults /\ crashes' \in 0..MaxCrashes
  OBVIOUS
<1>1. \/ Bounded
      \/ Fault
      \/ crashes < MaxCrashes /\ crashes' = crashes + 1 /\ UNCHANGED faults
  BY ZenonT(60) DEF Next, Proceed, Fails, vars, Bounded, StartCreate, StartDecide, Lapse, ConsumeMarker, CleanUp,
         FindPending, Insert, InsertFails, RequirePendingDecision, MarkExpired, Deny, Claim, Grant,
         Finalize, Revoke, RollbackApproving, GrantFails, GrantUnacknowledged, FinalizeFails,
         FinalizeUnacknowledged, RevokeFails, Crash
<1> QED
  BY <1>1 DEF TypeOK, Bounded, Fault

-----------------------------------------------------------------------------
LEMMA InvInit == Init => Inv
<1> SUFFICES ASSUME Init PROVE Inv
  OBVIOUS
<1>1. RowTypeOK
  BY DEF Init, RowTypeOK, Status
<1>2. StoreTypeOK /\ CallTypeOK
  BY DEF Init, StoreTypeOK, CallTypeOK, Place, NoGrant
<1>3. CallInv /\ EventsMatchDecision /\ ClaimIsExclusive
  BY DEF Init, CallInv, EventsMatchDecision, ClaimIsExclusive, Trail, Announced, InApproval
<1> QED
  BY <1>1, <1>2, <1>3 DEF Init, Inv, TypeOK

LEMMA InvStep == Inv /\ [Next]_vars => Inv'
BY RowStep, CallsStep, ClaimStep, StoreTypeStep, BoundStep DEF Inv, TypeOK, RowInv

LEMMA InvAlways == Spec => []Inv
<1> QED
  BY InvInit, InvStep, PTL DEF Spec

(* The table, the calls and the store stay in their types. *)
THEOREM TypeCorrect == Spec => []TypeOK
<1>1. Inv => TypeOK
  BY DEF Inv
<1> QED
  BY <1>1, InvAlways, PTL

(* Audit trail and outbox tell of every decision exactly once. *)
THEOREM EventsCorrect == Spec => []EventsMatchDecision
<1>1. Inv => EventsMatchDecision
  BY DEF Inv
<1> QED
  BY <1>1, InvAlways, PTL

(* An approval in progress owns its request. *)
THEOREM ClaimCorrect == Spec => []ClaimIsExclusive
<1>1. Inv => ClaimIsExclusive
  BY DEF Inv
<1> QED
  BY <1>1, InvAlways, PTL

(* A decided request never changes again. *)
LEMMA FinalStep ==
  Inv /\ [Next]_vars =>
    \A r \in Request : status[r] \in Final => status'[r] = status[r] /\ decidedBy'[r] = decidedBy[r]
<1> SUFFICES ASSUME Inv, [Next]_vars, NEW r \in Request, status[r] \in Final
             PROVE  status'[r] = status[r] /\ decidedBy'[r] = decidedBy[r]
  OBVIOUS
<1>1. ASSUME NEW q, NEW s, NEW who, NEW actions, NEW events, Record(q, s, who, actions, events),
             status[q] \notin Final
      PROVE  status'[r] = status[r] /\ decidedBy'[r] = decidedBy[r]
  BY <1>1 DEF Record, Inv, TypeOK, RowTypeOK
<1>2. {"absent", "pending", "approving"} \intersect Final = {}
  BY DEF Final
<1>3. CASE UNCHANGED <<status, decidedBy>>
  BY <1>3
<1>4. ASSUME NEW c \in Call, Proceed(c) \/ Fails(c)
      PROVE  status'[r] = status[r] /\ decidedBy'[r] = decidedBy[r]
  BY <1>1, <1>2, <1>3, <1>4
     DEF Proceed, Fails, FindPending, Insert, InsertFails, RequirePendingDecision, MarkExpired,
         Deny, Claim, Grant, Finalize, Commit, Revoke, RollbackApproving, GrantFails, rows,
         GrantUnacknowledged, FinalizeFails, FinalizeUnacknowledged, RevokeFails, Crash
<1> QED
  BY <1>3, <1>4 DEF Next, vars, rows, StartCreate, StartDecide, Lapse, ConsumeMarker, CleanUp

THEOREM DecisionCorrect == Spec => DecisionIsFinal
<1>1. Inv /\ [Next]_vars =>
        [\A r \in Request : status[r] \in Final =>
           status'[r] = status[r] /\ decidedBy'[r] = decidedBy[r]]_vars
  BY FinalStep
<1> QED
  BY <1>1, InvAlways, PTL DEF Spec, DecisionIsFinal

-----------------------------------------------------------------------------
(* The table and OpenFGA                                                   *)

(* A tuple belongs to a row of its coordinate.  A marker stands beside its *)
(* action tuple; a one-time action tuple without one is being cleaned up.  *)
StoreInv ==
    \A k \in Key :
        /\ ActionTuple(k) \in tuples =>
             /\ origin[k].by \in Request
             /\ status[origin[k].by] # "absent" /\ coordinate[origin[k].by] = k
             /\ Marker(k) \notin tuples /\ origin[k].type = "one_time" => k \in cleaning
        /\ Marker(k) \in tuples => ActionTuple(k) \in tuples /\ k \notin cleaning
        /\ k \in cleaning => ActionTuple(k) \in tuples /\ origin[k].by \in spent

Granted(r, k) ==
    k \in compensated \/ r \in spent \/ (ActionTuple(k) \in tuples /\ origin[k].by = r)

Orphan(r, k) ==
    ActionTuple(k) \in tuples /\ origin[k].by = r /\ origin[k].type = "one_time"
      => k \in cleaning \union lost

(* An approval about to be finalized has its grant; one that has none yet, *)
(* or is being rolled back, has left no one-time tuple behind.             *)
ApprovalInv ==
    \A c \in Call :
        /\ pc[c] = "finalize" => Granted(req[c], key[c])
        /\ pc[c] \in {"grant", "rollback"} =>
             Orphan(req[c], key[c]) \/ status[req[c]] = "approved"

(* OneTimeGrantIsBacked and ApprovedIsGranted, row by row. *)
AgreeInv ==
    \A r \in Request :
        /\ status[r] = "approved" => Granted(r, coordinate[r])
        /\ status[r] \notin {"absent", "approving", "approved"} => Orphan(r, coordinate[r])

GrantInv == StoreInv /\ ApprovalInv /\ AgreeInv

LEMMA Names ==
  ASSUME NEW j \in Key, NEW k \in Key, NEW t
  PROVE  /\ ActionTuple(k) # Marker(j)
         /\ ActionTuple(k) = ActionTuple(j) <=> k = j
         /\ Marker(k) = Marker(j) <=> k = j
         /\ ActionTuple(j) \in TuplesOf(k, t) <=> j = k
         /\ Marker(j) \in TuplesOf(k, t) <=> j = k /\ t = "one_time"
BY DEF ActionTuple, Marker, TuplesOf

LEMMA Places ==
  ASSUME Inv, NEW c \in Call, pc[c] \in InApproval
  PROVE  /\ req[c] \in Request /\ key[c] \in Key /\ key[c] = coordinate[req[c]]
         /\ status[req[c]] # "absent" /\ type[c] \in Type
BY DEF Inv, CallInv

(* A step that leaves the store alone. *)
LEMMA GrantQuiet ==
  ASSUME Inv, GrantInv, RowsKept, UNCHANGED store,
         \A c \in Call : pc'[c] = "finalize" => pc[c] = "finalize" /\ req'[c] = req[c] /\ key'[c] = key[c],
         \A c \in Call : pc'[c] \in {"grant", "rollback"} =>
             Orphan(req'[c], key'[c]) \/ status'[req'[c]] = "approved",
         \A r \in Request : status'[r] = "approved" => status[r] # "absent" /\ Granted(r, coordinate[r]),
         \A r \in Request : status'[r] \notin {"absent", "approving", "approved"} =>
             Orphan(r, coordinate'[r])
  PROVE  GrantInv'
<1>1. StoreInv'
  BY DEF GrantInv, StoreInv, RowsKept, store
<1>2. \A r, k : Granted(r, k) <=> Granted(r, k)'
  BY DEF Granted, store
<1>3. \A r, k : Orphan(r, k) <=> Orphan(r, k)'
  BY DEF Orphan, store
<1>4. ApprovalInv'
  BY <1>2, <1>3 DEF GrantInv, ApprovalInv
<1>5. AgreeInv'
  BY <1>2, <1>3 DEF AgreeInv, RowsKept
<1> QED
  BY <1>1, <1>4, <1>5 DEF GrantInv

(* The calls a step of c leaves where they were. *)
LEMMA Others ==
  ASSUME Inv, NEW c \in Call, Return(c) \/ \E p \in Place : Goto(c, p)
  PROVE  /\ \A d \in Call : d # c => pc'[d] = pc[d] /\ req'[d] = req[d] /\ key'[d] = key[d]
         /\ Return(c) => pc'[c] = "idle"
         /\ \A p \in Place : Goto(c, p) => pc'[c] = p /\ req'[c] = req[c] /\ key'[c] = key[c]
BY DEF Return, Goto, Inv, TypeOK, CallTypeOK

LEMMA RowsOthers ==
  ASSUME Inv, NEW r, NEW s, NEW who, NEW actions, NEW events, Record(r, s, who, actions, events)
  PROVE  /\ \A q \in Request : q # r => status'[q] = status[q]
         /\ r \in Request => status'[r] = s
BY DEF Record, Inv, TypeOK, RowTypeOK

(* Store and statuses stay; no call comes to "grant", "finalize" or        *)
(* "rollback".                                                             *)
LEMMA GrantIdle ==
  ASSUME Inv, GrantInv, RowsKept, UNCHANGED store, UNCHANGED <<status, coordinate>>,
         \A d \in Call : pc'[d] \in {"grant", "finalize", "rollback"} =>
             pc'[d] = pc[d] /\ req'[d] = req[d] /\ key'[d] = key[d]
  PROVE  GrantInv'
<1>1. \A d \in Call : pc'[d] \in {"grant", "rollback"} =>
             Orphan(req'[d], key'[d]) \/ status'[req'[d]] = "approved"
  BY DEF GrantInv, ApprovalInv
<1>2. \A r \in Request : status'[r] = "approved" => status[r] # "absent" /\ Granted(r, coordinate[r])
  BY DEF GrantInv, AgreeInv
<1>3. \A r \in Request : status'[r] \notin {"absent", "approving", "approved"} =>
             Orphan(r, coordinate'[r])
  BY DEF GrantInv, AgreeInv
<1> QED
  BY <1>1, <1>2, <1>3, GrantQuiet

(* One row goes from one status to another, and the store stays. *)
LEMMA GrantRecord ==
  ASSUME Inv, GrantInv, Inv', RowsKept, UNCHANGED <<store, coordinate>>, NEW c \in Call,
         NEW r \in Request, status[r] \notin Final, NEW s \in {"pending", "approving", "denied", "expired", "approved"},
         NEW who, NEW actions, NEW events, Record(r, s, who, actions, events),
         s = "approved" => status[r] # "absent" /\ Granted(r, coordinate[r]),
         s \notin {"approving", "approved"} => Orphan(r, coordinate[r]),
         \A d \in Call : d # c => pc'[d] = pc[d] /\ req'[d] = req[d] /\ key'[d] = key[d],
         \/ pc'[c] \notin {"grant", "finalize", "rollback"}
         \/ pc'[c] = "grant" /\ Orphan(req'[c], key'[c])
  PROVE  GrantInv'
<1>1. /\ \A q \in Request : q # r => status'[q] = status[q]
      /\ status'[r] = s
  BY RowsOthers
<1>2. ASSUME NEW d \in Call, pc'[d] \in {"grant", "rollback"}
      PROVE  Orphan(req'[d], key'[d]) \/ status'[req'[d]] = "approved"
  <2>1. CASE d = c
    BY <1>2, <2>1
  <2>2. CASE d # c
    <3>1. pc[d] \in {"grant", "rollback"} /\ req'[d] = req[d] /\ key'[d] = key[d]
          /\ req[d] \in Request
      BY <1>2, <2>2, Places DEF InApproval
    <3>2. status[req[d]] = "approved" => req[d] # r
      BY DEF Final
    <3> QED
      BY <1>1, <3>1, <3>2 DEF GrantInv, ApprovalInv
  <2> QED
    BY <2>1, <2>2
<1>3. \A q \in Request : status'[q] = "approved" => status[q] # "absent" /\ Granted(q, coordinate[q])
  BY <1>1 DEF GrantInv, AgreeInv
<1>4. \A q \in Request : status'[q] \notin {"absent", "approving", "approved"} =>
             Orphan(q, coordinate'[q])
  BY <1>1 DEF GrantInv, AgreeInv
<1> QED
  BY <1>2, <1>3, <1>4, GrantQuiet

(* The statements and transactions. *)
LEMMA GrantRows ==
  ASSUME Inv, GrantInv, Inv', RowsKept, NEW c \in Call,
         \/ Insert(c) \/ MarkExpired(c) \/ Deny(c) \/ Claim(c) \/ RollbackApproving(c)
         \/ Finalize(c) \/ FinalizeUnacknowledged(c)
  PROVE  GrantInv'
<1> USE DEF Final
<1>p. {"grant", "revoke"} \subseteq Place
  BY DEF Place, InApproval
<1>1. CASE Insert(c)
  <2>1. PICK r \in Request : /\ status[r] = "absent"
                             /\ Record(r, "pending", None, <<"created">>, <<"access_requested">>)
                             /\ coordinate' = [coordinate EXCEPT ![r] = key[c]]
    BY <1>1 DEF Insert
  <2>2. /\ \A q \in Request : q # r => status'[q] = status[q] /\ coordinate'[q] = coordinate[q]
        /\ status'[r] = "pending" /\ coordinate'[r] = key[c] /\ key[c] \in Key
    BY <1>1, <2>1, RowsOthers DEF Insert, Inv, CallInv, TypeOK, RowTypeOK
  <2>3. Orphan(r, key[c])
    BY <2>1, <2>2 DEF Orphan, GrantInv, StoreInv
  <2>4. \A d \in Call : pc'[d] \in {"grant", "finalize", "rollback"} =>
           d # c /\ pc'[d] = pc[d] /\ req'[d] = req[d] /\ key'[d] = key[d]
    BY <1>1, Others DEF Insert
  <2>5. ASSUME NEW d \in Call, pc'[d] \in {"grant", "rollback"}
        PROVE  Orphan(req'[d], key'[d]) \/ status'[req'[d]] = "approved"
    <3>1. pc[d] \in {"grant", "rollback"} /\ req'[d] = req[d] /\ key'[d] = key[d]
          /\ req[d] \in Request
      BY <2>4, <2>5, Places DEF InApproval
    <3> QED
      BY <2>1, <2>2, <3>1 DEF GrantInv, ApprovalInv
  <2>6. \A q \in Request : status'[q] = "approved" => status[q] # "absent" /\ Granted(q, coordinate[q])
    BY <2>2 DEF GrantInv, AgreeInv
  <2>7. \A q \in Request : status'[q] \notin {"absent", "approving", "approved"} =>
             Orphan(q, coordinate'[q])
    BY <2>2, <2>3 DEF GrantInv, AgreeInv
  <2> QED
    BY <1>1, <2>4, <2>5, <2>6, <2>7, GrantQuiet DEF Insert
<1>2. ASSUME Return(c) PROVE \A d \in Call : pc'[d] \in {"grant", "finalize", "rollback"} =>
             d # c /\ pc'[d] = pc[d] /\ req'[d] = req[d] /\ key'[d] = key[d]
  BY <1>2, Others
<1>3. CASE MarkExpired(c) \/ Deny(c)
  <2>1. req[c] \in Request /\ Return(c) /\ UNCHANGED <<store, coordinate>>
    BY <1>3 DEF MarkExpired, Deny, Inv, CallInv
  <2>2. CASE status[req[c]] # "pending"
    BY <1>2, <1>3, <2>1, <2>2, GrantIdle DEF MarkExpired, Deny
  <2>3. CASE status[req[c]] = "pending"
    <3>1. Orphan(req[c], coordinate[req[c]])
      BY <2>1, <2>3 DEF GrantInv, AgreeInv
    <3> QED
      BY <1>3, <2>1, <2>3, <3>1, GrantRecord, Others DEF MarkExpired, Deny
  <2> QED
    BY <2>2, <2>3
<1>4. CASE Claim(c)
  <2>1. req[c] \in Request /\ key[c] = coordinate[req[c]] /\ UNCHANGED <<store, coordinate>>
    BY <1>4 DEF Claim, Inv, CallInv
  <2>2. CASE status[req[c]] # "pending"
    BY <1>2, <1>4, <2>1, <2>2, GrantIdle DEF Claim
  <2>3. CASE status[req[c]] = "pending"
    <3>1. Orphan(req[c], key[c])
      BY <2>1, <2>3 DEF GrantInv, AgreeInv
    <3>2. Record(req[c], "approving", actor[c], <<>>, <<>>) /\ Goto(c, "grant")
      BY <1>4, <2>3 DEF Claim
    <3>3. pc'[c] = "grant" /\ req'[c] = req[c] /\ key'[c] = key[c]
          /\ \A d \in Call : d # c => pc'[d] = pc[d] /\ req'[d] = req[d] /\ key'[d] = key[d]
      BY <1>p, <3>2, Others
    <3>4. Orphan(req'[c], key'[c])
      BY <3>1, <3>3
    <3> QED
      BY <2>1, <2>3, <3>2, <3>3, <3>4, GrantRecord
  <2> QED
    BY <2>2, <2>3
<1>5. CASE RollbackApproving(c)
  <2>1. req[c] \in Request /\ key[c] = coordinate[req[c]] /\ UNCHANGED <<store, coordinate>>
        /\ Return(c) /\ pc[c] = "rollback"
    BY <1>5, Places DEF RollbackApproving, InApproval
  <2>2. CASE status[req[c]] # "approving"
    BY <1>2, <1>5, <2>1, <2>2, GrantIdle DEF RollbackApproving
  <2>3. CASE status[req[c]] = "approving"
    <3>1. Orphan(req[c], coordinate[req[c]])
      BY <2>1, <2>3 DEF GrantInv, ApprovalInv
    <3> QED
      BY <1>5, <2>1, <2>3, <3>1, GrantRecord, Others DEF RollbackApproving
  <2> QED
    BY <2>2, <2>3
<1>6. CASE Finalize(c) \/ FinalizeUnacknowledged(c)
  <2>1. req[c] \in Request /\ key[c] = coordinate[req[c]] /\ UNCHANGED store /\ pc[c] = "finalize"
    BY <1>6, Places DEF Finalize, FinalizeUnacknowledged, InApproval
  <2>2. CASE Commit(c) /\ (Return(c) \/ Goto(c, "revoke"))
    <3>1. Granted(req[c], coordinate[req[c]])
      BY <2>1 DEF GrantInv, ApprovalInv
    <3>2. pc'[c] \in {"idle", "revoke"}
          /\ \A d \in Call : d # c => pc'[d] = pc[d] /\ req'[d] = req[d] /\ key'[d] = key[d]
      BY <1>p, <2>2, Others
    <3> QED
      BY <2>1, <2>2, <3>1, <3>2, GrantRecord DEF Commit
  <2>3. CASE UNCHANGED rows /\ Goto(c, "revoke")
    <3>1. \A d \in Call : pc'[d] \in {"grant", "finalize", "rollback"} =>
             pc'[d] = pc[d] /\ req'[d] = req[d] /\ key'[d] = key[d]
      BY <1>p, <2>3, Others
    <3> QED
      BY <2>1, <2>3, <3>1, GrantIdle DEF rows
  <2> QED
    BY <1>6, <2>2, <2>3 DEF Finalize, FinalizeUnacknowledged
<1> QED
  BY <1>1, <1>3, <1>4, <1>5, <1>6

(* The coordinate's tuples stay. *)
SameTuples(k) ==
    /\ origin'[k] = origin[k]
    /\ ActionTuple(k) \in tuples' <=> ActionTuple(k) \in tuples
    /\ Marker(k) \in tuples' <=> Marker(k) \in tuples

(* Its action tuple stays. *)
SameAction(k) ==
    /\ origin'[k] = origin[k]
    /\ ActionTuple(k) \in tuples' <=> ActionTuple(k) \in tuples

(* Requests to OpenFGA, which leave the rows alone. *)
LEMMA GrantStore ==
  ASSUME Inv, GrantInv, NEW c \in Call,
         Grant(c) \/ GrantUnacknowledged(c) \/ GrantFails(c) \/ Revoke(c) \/ RevokeFails(c) \/ FinalizeFails(c)
  PROVE  GrantInv'
<1>p. {"finalize", "revoke", "rollback"} \subseteq Place
  BY DEF Place, InApproval
<1>r. /\ pc[c] \in InApproval /\ req[c] \in Request /\ key[c] \in Key
      /\ key[c] = coordinate[req[c]] /\ status[req[c]] # "absent" /\ UNCHANGED rows
      /\ StoreTypeOK
  <2>1. pc[c] \in InApproval /\ UNCHANGED rows
    BY DEF Grant, GrantUnacknowledged, GrantFails, Revoke, RevokeFails, FinalizeFails, InApproval
  <2> QED
    BY <2>1, Places DEF Inv, TypeOK
<1>k. RowsKept
  BY <1>r DEF RowsKept, rows
<1>s. /\ \A r \in Request : status'[r] = "approved" => status[r] # "absent" /\ Granted(r, coordinate[r])
      /\ \A r \in Request : status'[r] \notin {"absent", "approving", "approved"} =>
             Orphan(r, coordinate'[r])
  BY <1>r DEF GrantInv, AgreeInv, rows
(* The store is left alone. *)
<1>1. ASSUME UNCHANGED store, pc[c] \in {"grant", "revoke"}, Goto(c, "rollback"),
             pc[c] = "revoke" => Orphan(req[c], key[c])
      PROVE  GrantInv'
  <2>1. /\ \A d \in Call : d # c => pc'[d] = pc[d] /\ req'[d] = req[d] /\ key'[d] = key[d]
        /\ pc'[c] = "rollback" /\ req'[c] = req[c] /\ key'[c] = key[c]
    BY <1>p, <1>1, Others
  <2>2. \A d \in Call : pc'[d] \in {"grant", "rollback"} =>
             Orphan(req'[d], key'[d]) \/ status'[req'[d]] = "approved"
    BY <1>1, <1>r, <2>1 DEF GrantInv, ApprovalInv, rows
  <2> QED
    BY <1>1, <1>k, <1>s, <2>1, <2>2, GrantQuiet
<1>2. CASE FinalizeFails(c)
  <2>1. \A d \in Call : pc'[d] \in {"grant", "finalize", "rollback"} =>
             pc'[d] = pc[d] /\ req'[d] = req[d] /\ key'[d] = key[d]
    BY <1>p, <1>2, Others DEF FinalizeFails
  <2> QED
    BY <1>2, <1>k, <2>1, GrantIdle DEF FinalizeFails, rows
<1>3. CASE GrantFails(c)
  BY <1>1, <1>3 DEF GrantFails
(* The grant is written. *)
<1>4. ASSUME pc[c] = "grant", WriteGrant(c), lost \subseteq lost', NEW p \in {"finalize", "rollback"}, Goto(c, p),
             p = "rollback" => key[c] \in lost'
      PROVE  GrantInv'
  <2>1. /\ \A d \in Call : d # c => pc'[d] = pc[d] /\ req'[d] = req[d] /\ key'[d] = key[d]
        /\ pc'[c] = p /\ req'[c] = req[c] /\ key'[c] = key[c]
    BY <1>p, <1>4, Others
  <2>2. /\ ActionTuple(key[c]) \notin tuples
        /\ tuples' = tuples \union TuplesOf(key[c], type[c])
        /\ origin' = [origin EXCEPT ![key[c]] = [by |-> req[c], type |-> type[c]]]
        /\ UNCHANGED <<cleaning, compensated, spent>>
    BY <1>4, <1>r, Names DEF WriteGrant, Accepts, Applied
  <2>3. /\ \A k \in Key : k # key[c] => origin'[k] = origin[k]
        /\ origin'[key[c]].by = req[c] /\ origin'[key[c]].type = type[c]
    BY <1>r, <2>2 DEF StoreTypeOK
  <2>4. /\ \A k \in Key : k # key[c] => SameTuples(k)
        /\ ActionTuple(key[c]) \in tuples'
        /\ type[c] = "one_time" => Marker(key[c]) \in tuples'
    BY <1>r, <2>2, <2>3, Names DEF SameTuples
  <2>5. key[c] \notin cleaning
    BY <1>r, <2>2 DEF GrantInv, StoreInv
  <2>6. StoreInv'
    BY <1>r, <2>2, <2>3, <2>4, <2>5 DEF GrantInv, StoreInv, rows, SameTuples
  <2>7. ASSUME NEW r \in Request, NEW k \in Key, Granted(r, k) PROVE Granted(r, k)'
    BY <1>r, <2>2, <2>3, <2>4, <2>7 DEF Granted, SameTuples
  <2>8. ASSUME NEW r \in Request, NEW k \in Key, Orphan(r, k), r # req[c] \/ key[c] \in lost'
        PROVE  Orphan(r, k)'
    BY <1>4, <1>r, <2>2, <2>3, <2>4, <2>8 DEF Orphan, SameTuples
  <2>9. ASSUME NEW d \in Call, d # c, pc[d] \in InApproval PROVE req[d] # req[c]
    BY <1>r, <2>9 DEF Inv, ClaimIsExclusive
  <2>10. ApprovalInv'
    <3>1. ASSUME NEW d \in Call, pc'[d] = "finalize" PROVE Granted(req[d], key[d])'
      <4>1. CASE d = c
        BY <2>1, <2>3, <2>4, <4>1 DEF Granted
      <4>2. CASE d # c
        BY <2>1, <2>7, <3>1, <4>2, Places DEF GrantInv, ApprovalInv, InApproval
      <4> QED
        BY <4>1, <4>2
    <3>2. ASSUME NEW d \in Call, pc'[d] \in {"grant", "rollback"}
          PROVE  Orphan(req[d], key[d])' \/ status'[req'[d]] = "approved"
      <4>1. CASE d = c
        BY <1>4, <2>1, <3>2, <4>1 DEF Orphan
      <4>2. CASE d # c
        <5>1. pc[d] \in {"grant", "rollback"} /\ req'[d] = req[d] /\ key'[d] = key[d]
              /\ req[d] \in Request /\ key[d] \in Key /\ req[d] # req[c]
          BY <2>1, <2>9, <3>2, <4>2, Places DEF InApproval
        <5>2. Orphan(req[d], key[d]) \/ status[req[d]] = "approved"
          BY <5>1 DEF GrantInv, ApprovalInv
        <5>3. Orphan(req[d], key[d]) => Orphan(req[d], key[d])'
          BY <2>8, <5>1
        <5> QED
          BY <1>r, <5>1, <5>2, <5>3 DEF rows, Orphan
      <4> QED
        BY <4>1, <4>2
    <3> QED
      BY <3>1, <3>2 DEF ApprovalInv
  <2>11. AgreeInv'
    <3>1. status[req[c]] = "approving"
      BY <1>4 DEF Inv, ClaimIsExclusive, InApproval
    <3>2. ASSUME NEW r \in Request, status[r] # "absent" PROVE coordinate[r] \in Key
      BY <3>2 DEF Inv, TypeOK, RowTypeOK
    <3>3. ASSUME NEW r \in Request, status'[r] = "approved" PROVE Granted(r, coordinate[r])'
      BY <1>r, <2>7, <3>2, <3>3 DEF GrantInv, AgreeInv, rows
    <3>4. ASSUME NEW r \in Request, status'[r] \notin {"absent", "approving", "approved"}
          PROVE  Orphan(r, coordinate[r])'
      BY <1>r, <2>8, <3>1, <3>2, <3>4 DEF GrantInv, AgreeInv, rows
    <3> QED
      BY <1>r, <3>3, <3>4 DEF AgreeInv, rows, Orphan, Granted
  <2> QED
    BY <2>6, <2>10, <2>11 DEF GrantInv
<1>5. CASE Grant(c)
  <2>1. CASE WriteGrant(c) /\ Goto(c, "finalize")
    BY <1>4, <1>5, <2>1 DEF Grant
  <2>2. CASE Goto(c, "rollback") /\ UNCHANGED <<tuples, cleaning, origin, compensated, spent>>
    BY <1>1, <1>5, <2>2 DEF Grant, store
  <2> QED
    BY <1>5, <2>1, <2>2 DEF Grant
<1>6. CASE GrantUnacknowledged(c)
  BY <1>4, <1>6 DEF GrantUnacknowledged
(* The compensation. *)
<1>7. ASSUME pc[c] = "revoke", Goto(c, "rollback"), tuples' \subseteq tuples,
             UNCHANGED <<cleaning, spent>>, compensated \subseteq compensated', lost \subseteq lost',
             \A k \in Key \ {key[c]} : SameTuples(k),
             \/ UNCHANGED <<tuples, origin>> /\ key[c] \in lost'
             \/ /\ ActionTuple(key[c]) \notin tuples' /\ Marker(key[c]) \notin tuples'
                /\ Marker(key[c]) \in tuples
                /\ key[c] \in compensated'
      PROVE  GrantInv'
  <2>1. /\ \A d \in Call : d # c => pc'[d] = pc[d] /\ req'[d] = req[d] /\ key'[d] = key[d]
        /\ pc'[c] = "rollback" /\ req'[c] = req[c] /\ key'[c] = key[c]
    BY <1>p, <1>7, Others
  <2>2. StoreInv'
    BY <1>7, <1>r DEF GrantInv, StoreInv, rows, SameTuples
  <2>3. ASSUME NEW r, NEW k \in Key, Granted(r, k) PROVE Granted(r, k)'
    BY <1>7, <1>r, <2>3 DEF Granted, SameTuples
  <2>4. ASSUME NEW r, NEW k \in Key, Orphan(r, k) PROVE Orphan(r, k)'
    BY <1>7, <1>r, <2>4 DEF Orphan, SameTuples
  <2>5. Orphan(req[c], key[c])'
    BY <1>7, <1>r, <2>1 DEF Orphan
  <2>6. ApprovalInv'
    <3>1. ASSUME NEW d \in Call, pc'[d] = "finalize" PROVE Granted(req[d], key[d])'
      BY <2>1, <2>3, <3>1, Places DEF GrantInv, ApprovalInv, InApproval
    <3>2. ASSUME NEW d \in Call, pc'[d] \in {"grant", "rollback"}
          PROVE  Orphan(req[d], key[d])' \/ status'[req'[d]] = "approved"
      <4>1. CASE d = c
        BY <2>1, <2>5, <4>1 DEF Orphan
      <4>2. CASE d # c
        <5>1. pc[d] \in {"grant", "rollback"} /\ req'[d] = req[d] /\ key'[d] = key[d]
              /\ key[d] \in Key
          BY <2>1, <3>2, <4>2, Places DEF InApproval
        <5>2. Orphan(req[d], key[d]) \/ status[req[d]] = "approved"
          BY <5>1 DEF GrantInv, ApprovalInv
        <5>3. Orphan(req[d], key[d]) => Orphan(req[d], key[d])'
          BY <2>4, <5>1
        <5> QED
          BY <1>r, <5>1, <5>2, <5>3 DEF rows, Orphan
      <4> QED
        BY <4>1, <4>2
    <3> QED
      BY <3>1, <3>2 DEF ApprovalInv
  <2>7. AgreeInv'
    <3>1. ASSUME NEW r \in Request, status[r] # "absent" PROVE coordinate[r] \in Key
      BY <3>1 DEF Inv, TypeOK, RowTypeOK
    <3>2. ASSUME NEW r \in Request, status'[r] = "approved" PROVE Granted(r, coordinate[r])'
      BY <1>r, <2>3, <3>1, <3>2 DEF GrantInv, AgreeInv, rows
    <3>3. ASSUME NEW r \in Request, status'[r] \notin {"absent", "approving", "approved"}
          PROVE  Orphan(r, coordinate[r])'
      BY <1>r, <2>4, <3>1, <3>3 DEF GrantInv, AgreeInv, rows
    <3> QED
      BY <1>r, <3>2, <3>3 DEF AgreeInv, rows, Orphan, Granted
  <2> QED
    BY <2>2, <2>6, <2>7 DEF GrantInv
<1>8. CASE Revoke(c)
  <2>0. pc[c] = "revoke" /\ Goto(c, "rollback") /\ UNCHANGED <<rows, cleaning, lost, spent>>
    BY <1>8 DEF Revoke
  <2>1. CASE Accepts(tuples, {}, {ActionTuple(key[c]), Marker(key[c])})
    <3>1. /\ Marker(key[c]) \in tuples
          /\ tuples' = tuples \ {ActionTuple(key[c]), Marker(key[c])}
          /\ origin' = [origin EXCEPT ![key[c]] = NoGrant]
          /\ compensated' = compensated \union {key[c]}
      BY <1>8, <2>1 DEF Revoke, Accepts, Applied
    <3>2. \A k \in Key \ {key[c]} : SameTuples(k)
      BY <1>r, <3>1, Names DEF StoreTypeOK, SameTuples
    <3>3. ActionTuple(key[c]) \notin tuples' /\ Marker(key[c]) \notin tuples'
      BY <3>1
    <3> QED
      BY <1>7, <2>0, <3>1, <3>2, <3>3
  <2>2. CASE ~Accepts(tuples, {}, {ActionTuple(key[c]), Marker(key[c])})
    <3>1. UNCHANGED store
      BY <1>8, <2>0, <2>2 DEF Revoke, store
    <3>2. Orphan(req[c], key[c])
      BY <1>r, <2>2 DEF Accepts, Orphan, GrantInv, StoreInv
    <3> QED
      BY <1>1, <2>0, <3>1, <3>2
  <2> QED
    BY <2>1, <2>2
<1>9. CASE RevokeFails(c)
  <2>1. /\ pc[c] = "revoke" /\ Goto(c, "rollback") /\ lost' = lost \union {key[c]}
        /\ UNCHANGED <<tuples, cleaning, origin, compensated, spent>>
    BY <1>9 DEF RevokeFails
  <2>2. \A k \in Key \ {key[c]} : SameTuples(k)
    BY <2>1 DEF SameTuples
  <2> QED
    BY <1>7, <2>1, <2>2
<1> QED
  BY <1>2, <1>3, <1>5, <1>6, <1>8, <1>9

(* A check uses a one-time grant. *)
LEMMA GrantChecks ==
  ASSUME Inv, GrantInv, NEW j \in Key, ConsumeMarker(j) \/ CleanUp(j)
  PROVE  GrantInv'
<1>r. UNCHANGED <<rows, calls, lost, compensated>> /\ StoreTypeOK
  BY DEF ConsumeMarker, CleanUp, Inv, TypeOK
<1>1. \A k \in Key \ {j} : SameTuples(k)
  BY <1>r, Names DEF ConsumeMarker, CleanUp, SameTuples, StoreTypeOK
<1>2. \A k \in Key \ {j} : k \in cleaning' <=> k \in cleaning
  BY DEF ConsumeMarker, CleanUp
<1>3. spent \subseteq spent'
  BY DEF ConsumeMarker, CleanUp
<1>4. \/ /\ SameAction(j) /\ j \in cleaning' /\ origin'[j].by \in spent'
         /\ ActionTuple(j) \in tuples' /\ Marker(j) \notin tuples'
      \/ /\ j \notin cleaning' /\ ActionTuple(j) \notin tuples' /\ Marker(j) \notin tuples'
         /\ origin[j].by \in spent
  <2>1. CASE ConsumeMarker(j)
    BY <2>1, Names DEF ConsumeMarker, GrantInv, StoreInv, SameAction
  <2>2. CASE CleanUp(j)
    BY <2>2, Names DEF CleanUp, GrantInv, StoreInv
  <2> QED
    BY <2>1, <2>2
<1>5. StoreInv'
  BY <1>r, <1>1, <1>2, <1>3, <1>4 DEF GrantInv, StoreInv, SameTuples, SameAction, rows
<1>6. ASSUME NEW r, NEW k \in Key, Granted(r, k) PROVE Granted(r, k)'
  BY <1>r, <1>1, <1>3, <1>4, <1>6 DEF Granted, SameTuples, SameAction
<1>7. ASSUME NEW r, NEW k \in Key, Orphan(r, k) PROVE Orphan(r, k)'
  BY <1>r, <1>1, <1>2, <1>4, <1>7 DEF Orphan, SameTuples, SameAction
<1>8. ApprovalInv'
  <2>1. ASSUME NEW c \in Call, pc[c] = "finalize" PROVE Granted(req[c], key[c])'
    BY <1>r, <1>6, <2>1, Places DEF GrantInv, ApprovalInv, InApproval, calls, Granted
  <2>2. ASSUME NEW c \in Call, pc[c] \in {"grant", "rollback"}
        PROVE  Orphan(req[c], key[c])' \/ status[req[c]] = "approved"
    BY <1>r, <1>7, <2>2, Places DEF GrantInv, ApprovalInv, InApproval, calls, Orphan
  <2> QED
    BY <1>r, <2>1, <2>2 DEF ApprovalInv, calls, rows
<1>9. AgreeInv'
  <2>1. ASSUME NEW r \in Request, status[r] # "absent" PROVE coordinate[r] \in Key
    BY <2>1 DEF Inv, TypeOK, RowTypeOK
  <2>2. ASSUME NEW r \in Request, status[r] = "approved" PROVE Granted(r, coordinate[r])'
    BY <1>r, <1>6, <2>1, <2>2 DEF GrantInv, AgreeInv, rows, Granted
  <2>3. ASSUME NEW r \in Request, status[r] \notin {"absent", "approving", "approved"}
        PROVE  Orphan(r, coordinate[r])'
    BY <1>r, <1>7, <2>1, <2>3 DEF GrantInv, AgreeInv, rows, Orphan
  <2> QED
    BY <1>r, <2>2, <2>3 DEF AgreeInv, rows
<1> QED
  BY <1>5, <1>8, <1>9 DEF GrantInv

LEMMA GrantStep == Inv /\ GrantInv /\ [Next]_vars => GrantInv'
<1> SUFFICES ASSUME Inv, GrantInv, [Next]_vars PROVE GrantInv'
  OBVIOUS
<1>k. RowsKept /\ Inv'
  BY KeptStep, InvStep DEF Inv
<1>1. CASE UNCHANGED vars
  BY <1>k, <1>1, GrantIdle DEF vars, store, rows, calls
<1>2. ASSUME NEW r \in Request, Lapse(r) PROVE GrantInv'
  BY <1>k, <1>2, GrantIdle DEF Lapse, calls
<1>3. ASSUME NEW k \in Key, ConsumeMarker(k) \/ CleanUp(k) PROVE GrantInv'
  BY <1>3, GrantChecks
<1>4. ASSUME NEW c \in Call, NEW p \in {"dedupe", "read"}, NEW r, NEW k, NEW a, NEW t,
             Begin(c, p, r, k, a, t), UNCHANGED <<rows, store>>
      PROVE  GrantInv'
  <2>1. \A d \in Call : pc'[d] \in {"grant", "finalize", "rollback"} =>
             pc'[d] = pc[d] /\ req'[d] = req[d] /\ key'[d] = key[d]
    BY <1>4 DEF Begin, Inv, TypeOK, CallTypeOK
  <2> QED
    BY <1>k, <1>4, <2>1, GrantIdle DEF rows
<1>5. ASSUME NEW c \in Call,
             FindPending(c) \/ InsertFails(c) \/ RequirePendingDecision(c) \/ Crash(c)
      PROVE  GrantInv'
  <2>1. {"insert", "expire", "deny", "claim"} \subseteq Place
    BY DEF Place
  <2>2. UNCHANGED <<rows, store>>
        /\ (Return(c) \/ \E p \in {"insert", "expire", "deny", "claim"} : Goto(c, p))
    BY <1>5 DEF FindPending, InsertFails, RequirePendingDecision, Crash
  <2>3. \A d \in Call : pc'[d] \in {"grant", "finalize", "rollback"} =>
             pc'[d] = pc[d] /\ req'[d] = req[d] /\ key'[d] = key[d]
    BY <2>1, <2>2, Others
  <2> QED
    BY <1>k, <2>2, <2>3, GrantIdle DEF rows
<1>6. ASSUME NEW c \in Call, Proceed(c) \/ Fails(c) PROVE GrantInv'
  BY <1>k, <1>5, <1>6, GrantRows, GrantStore DEF Proceed, Fails
<1> QED
  BY <1>1, <1>2, <1>3, <1>4, <1>6 DEF Next, StartCreate, StartDecide

LEMMA GrantAlways == Spec => []GrantInv
<1>1. Init => GrantInv
  BY DEF Init, GrantInv, StoreInv, ApprovalInv, AgreeInv, ActionTuple, Marker
<1>2. Inv /\ GrantInv /\ [Next]_vars => GrantInv'
  BY GrantStep
<1> QED
  BY <1>1, <1>2, InvAlways, PTL DEF Spec

(* A one-time tuple nobody is using stands only for an approval. *)
THEOREM BackedCorrect == Spec => []OneTimeGrantIsBacked
<1>1. GrantInv => OneTimeGrantIsBacked
  BY DEF GrantInv, StoreInv, AgreeInv, Orphan, OneTimeGrantIsBacked
<1> QED
  BY <1>1, GrantAlways, PTL

-----------------------------------------------------------------------------
(* What compensations cost                                                 *)

(* Approved requests, and those about to be, that lost an unused grant; and *)
(* the calls that are to compensate.  Each has taken a failure of its own. *)
Loser(r) ==
    /\ status[r] = "approved" \/ \E c \in Call : pc[c] = "finalize" /\ req[c] = r
    /\ Ungranted(r)
Losers == {r \in Request : Loser(r)}
Revoking == {c \in Call : pc[c] = "revoke"}

LossInv ==
    /\ IsFiniteSet(Losers) /\ IsFiniteSet(Revoking)
    /\ Cardinality(Losers) + Cardinality(Revoking) <= faults

(* A grant goes by its use or by a compensation.                           *)
LEMMA GrantGoes ==
  ASSUME Inv, GrantInv, [Next]_vars, NEW r \in Request, status[r] # "absent", ~Ungranted(r), Ungranted(r)'
  PROVE  \E c \in Call : Revoke(c) /\ r = origin[key[c]].by
<1> DEFINE k == coordinate[r]
<1>0. k \in Key /\ StoreInv /\ StoreTypeOK
  BY DEF Inv, TypeOK, RowTypeOK, GrantInv
<1>1. coordinate'[r] = k
  BY KeptStep DEF Inv, RowsKept
<1>2. r \notin spent' /\ ~(ActionTuple(k) \in tuples' /\ origin'[k].by = r)
  BY <1>1 DEF Ungranted
<1>3. CASE UNCHANGED <<tuples, origin, spent>>
  BY <1>2, <1>3 DEF Ungranted
<1>4. ASSUME NEW j \in Key, ConsumeMarker(j) PROVE FALSE
  BY <1>0, <1>2, <1>4, Names DEF ConsumeMarker, Ungranted
<1>5. ASSUME NEW j \in Key, CleanUp(j) PROVE FALSE
  <2>1. origin[j].by \in spent /\ UNCHANGED spent
    BY <1>0, <1>5 DEF CleanUp, StoreInv
  <2>2. ActionTuple(k) \in tuples /\ origin[k].by = r
    BY <1>2, <2>1 DEF Ungranted
  <2>3. j # k
    BY <1>2, <2>1, <2>2
  <2> QED
    BY <1>0, <1>2, <1>5, <2>2, <2>3, Names DEF CleanUp, StoreTypeOK
<1>6. ASSUME NEW c \in Call, pc[c] = "grant", WriteGrant(c) PROVE FALSE
  <2>1. key[c] \in Key /\ ActionTuple(key[c]) \notin tuples
    BY <1>6, Places, Names DEF WriteGrant, Accepts, InApproval
  <2> QED
    BY <1>0, <1>2, <1>6, <2>1, Names DEF WriteGrant, Applied, Ungranted, StoreTypeOK
<1>7. ASSUME NEW c \in Call, Revoke(c) PROVE r = origin[key[c]].by
  <2>1. key[c] \in Key
    BY <1>7, Places DEF Revoke, InApproval
  <2> QED
    BY <1>0, <1>2, <1>7, <2>1, Names DEF Revoke, Applied, Ungranted, StoreTypeOK
<1> QED
  BY <1>3, <1>4, <1>5, <1>6, <1>7
     DEF Next, Proceed, Fails, vars, store, StartCreate, StartDecide, Lapse,
         FindPending, Insert, InsertFails, RequirePendingDecision, MarkExpired, Deny, Claim,
         Grant, Finalize, RollbackApproving, GrantFails, GrantUnacknowledged,
         FinalizeFails, FinalizeUnacknowledged, RevokeFails, Crash

(* Who comes to be a loser had been approved, or about to be, already: a   *)
(* call comes to finalize with the grant it has just written.              *)
LEMMA LosersHadGrants ==
  ASSUME Inv, GrantInv, [Next]_vars, NEW r \in Request, Loser(r)'
  PROVE  status[r] = "approved" \/ \E c \in Call : pc[c] = "finalize" /\ req[c] = r
<1> DEFINE Before == status[r] = "approved" \/ \E c \in Call : pc[c] = "finalize" /\ req[c] = r
<1>1. CASE status[r] # "approved" /\ status'[r] = "approved"
  <2>1. ASSUME NEW q, NEW s, NEW who, NEW actions, NEW events,
               Record(q, s, who, actions, events), s # "approved"
        PROVE  FALSE
    BY <1>1, <2>1, RowsOthers
  <2>2. ~UNCHANGED status
    BY <1>1
  <2>3. PICK c \in Call : pc[c] = "finalize" /\ Commit(c)
    <3>1. ASSUME NEW c \in Call, MarkExpired(c) \/ Deny(c) \/ Claim(c) \/ RollbackApproving(c) \/ Insert(c)
          PROVE  FALSE
      BY <2>1, <2>2, <3>1 DEF MarkExpired, Deny, Claim, RollbackApproving, Insert
    <3> QED
      BY <2>2, <3>1, ZenonT(60)
         DEF Next, vars, rows, Proceed, Fails, FindPending, InsertFails, RequirePendingDecision,
             Grant, Finalize, Revoke, GrantFails, GrantUnacknowledged, FinalizeFails,
             FinalizeUnacknowledged, RevokeFails, Crash, StartCreate, StartDecide, Lapse,
             ConsumeMarker, CleanUp
  <2>4. req[c] = r
    BY <1>1, <2>3, RowsOthers DEF Commit
  <2> QED
    BY <2>3, <2>4
<1>2. ASSUME NEW c \in Call, pc'[c] = "finalize", req'[c] = r PROVE Before
  <2>1. CASE pc[c] = "finalize" /\ req[c] = r
    BY <2>1
  <2>2. CASE ~(pc[c] = "finalize" /\ req[c] = r)
    <3>1. ASSUME NEW d \in Call, NEW p \in Place, Goto(d, p), p # "finalize" PROVE FALSE
      BY <1>2, <2>2, <3>1, Others
    <3>2. ASSUME NEW d \in Call, Return(d) PROVE FALSE
      BY <1>2, <2>2, <3>2, Others
    <3>3. ASSUME NEW d \in Call, NEW p \in {"dedupe", "read"}, NEW q, NEW k, NEW a, NEW s, Begin(d, p, q, k, a, s)
          PROVE  FALSE
      BY <1>2, <2>2, <3>3 DEF Begin, Inv, TypeOK, CallTypeOK
    <3>4. ~UNCHANGED <<pc, req>>
      BY <1>2, <2>2
    <3>5. ASSUME NEW d \in Call, Proceed(d) \/ Fails(d), ~(Grant(d) /\ WriteGrant(d)) PROVE FALSE
      <4>1. Return(d) \/ \E p \in Place \ {"finalize"} : Goto(d, p)
        BY <3>5 DEF Proceed, Fails, FindPending, Insert, InsertFails, RequirePendingDecision, MarkExpired,
           Deny, Claim, Grant, Finalize, Revoke, RollbackApproving, GrantFails, GrantUnacknowledged,
           FinalizeFails, FinalizeUnacknowledged, RevokeFails, Crash, Place, InApproval
      <4> QED
        BY <3>1, <3>2, <4>1
    <3>6. PICK d \in Call : Grant(d) /\ WriteGrant(d)
      BY <3>3, <3>4, <3>5
         DEF Next, vars, calls, StartCreate, StartDecide, Lapse, ConsumeMarker, CleanUp
    <3>7. d = c /\ req[c] = r
      <4>1. Goto(d, "finalize")
        BY <3>1, <3>6 DEF Grant, Place, InApproval
      <4> QED
        BY <1>2, <2>2, <4>1, Others DEF Place, InApproval
    <3>8. key[c] \in Key /\ coordinate[r] = key[c] /\ coordinate'[r] = coordinate[r]
      BY <3>6, <3>7, Places DEF Grant, InApproval, rows
    <3>9. ~Ungranted(r)'
      BY <3>6, <3>7, <3>8, Names DEF WriteGrant, Applied, Ungranted, Inv, TypeOK, StoreTypeOK
    <3> QED
      BY <3>9 DEF Loser
  <2> QED
    BY <2>1, <2>2
<1> QED
  BY <1>1, <1>2 DEF Loser

LEMMA LosersStep ==
  ASSUME Inv, GrantInv, [Next]_vars
  PROVE  /\ Losers' \subseteq Losers \union {origin[key[c]].by : c \in {d \in Call : Revoke(d)}}
<1> SUFFICES ASSUME NEW r \in Request, Loser(r)', ~Loser(r)
             PROVE  \E c \in Call : Revoke(c) /\ r = origin[key[c]].by
  BY DEF Losers
<1>1. status[r] = "approved" \/ \E c \in Call : pc[c] = "finalize" /\ req[c] = r
  BY LosersHadGrants
<1>2. status[r] # "absent" /\ ~Ungranted(r) /\ Ungranted(r)'
  BY <1>1, Places DEF Loser, InApproval
<1> QED
  BY <1>2, GrantGoes

(* Only a failure sends a call to compensate, and it does so once.         *)
LEMMA RevokingStep ==
  ASSUME Inv, [Next]_vars
  PROVE  \/ \E c \in Revoking : Revoke(c) /\ Revoking' = Revoking \ {c} /\ faults' = faults
         \/ (\A c \in Call : ~Revoke(c)) /\ Revoking' \subseteq Revoking /\ faults' \in {faults, faults + 1}
         \/ /\ \A c \in Call : ~Revoke(c)
            /\ \E c \in Call : Revoking' \subseteq Revoking \union {c} /\ faults' = faults + 1
<1>p. "revoke" \in Place /\ "rollback" \in Place /\ faults \in Nat
  BY DEF Place, InApproval, Inv, TypeOK
<1>1. ASSUME NEW c \in Call, Revoke(c)
      PROVE  c \in Revoking /\ Revoking' = Revoking \ {c} /\ faults' = faults
  <2>1. pc[c] = "revoke" /\ Goto(c, "rollback") /\ faults' = faults
    BY <1>1 DEF Revoke, Bounded
  <2> QED
    BY <1>p, <2>1, Others DEF Revoking
<1>2. ASSUME NEW c \in Call, FinalizeFails(c) \/ FinalizeUnacknowledged(c)
      PROVE  Revoking' \subseteq Revoking \union {c} /\ faults' = faults + 1
  <2>1. Goto(c, "revoke") /\ faults' = faults + 1
    BY <1>2 DEF FinalizeFails, FinalizeUnacknowledged, Fault
  <2> QED
    BY <1>p, <2>1, Others DEF Revoking
<1>3. ASSUME NEW c \in Call, NEW p \in Place \ {"revoke"}, Goto(c, p) PROVE Revoking' \subseteq Revoking
  BY <1>3, Others DEF Revoking
<1>4. ASSUME NEW c \in Call, Return(c) PROVE Revoking' \subseteq Revoking
  BY <1>4, Others DEF Revoking
<1>5. ASSUME NEW c \in Call, NEW p \in {"dedupe", "read"}, NEW q, NEW k, NEW a, NEW s, Begin(c, p, q, k, a, s)
      PROVE  Revoking' \subseteq Revoking
  BY <1>5 DEF Begin, Revoking, Inv, TypeOK, CallTypeOK
<1>6. ASSUME UNCHANGED pc PROVE Revoking' \subseteq Revoking
  BY <1>6 DEF Revoking
<1>7. ASSUME NEW c \in Call, Finalize(c) PROVE Return(c)
  <2>1. status[req[c]] = "approving" /\ decidedBy[req[c]] = actor[c]
    BY <1>7 DEF Finalize, Inv, ClaimIsExclusive, InApproval
  <2> QED
    BY <1>7, <2>1 DEF Finalize
<1>8. ASSUME NEW c \in Call, Proceed(c) \/ Fails(c),
             ~(Revoke(c) \/ FinalizeFails(c) \/ FinalizeUnacknowledged(c))
      PROVE  Return(c) \/ \E p \in Place \ {"revoke"} : Goto(c, p)
  BY <1>7, <1>8 DEF Proceed, Fails, FindPending, Insert, InsertFails, RequirePendingDecision, MarkExpired,
     Deny, Claim, Grant, RollbackApproving, GrantFails, GrantUnacknowledged, RevokeFails, Crash, Place, InApproval
<1>9. faults' \in {faults, faults + 1}
  BY DEF Next, Proceed, Fails, vars, Bounded, Fault, StartCreate, StartDecide, Lapse, ConsumeMarker,
         CleanUp, FindPending, Insert, InsertFails, RequirePendingDecision, MarkExpired, Deny, Claim,
         Grant, Finalize, Revoke, RollbackApproving, GrantFails, GrantUnacknowledged, FinalizeFails,
         FinalizeUnacknowledged, RevokeFails, Crash
<1>10. CASE \E c \in Call : Revoke(c)
  BY <1>1, <1>10
<1>11. CASE \E c \in Call : FinalizeFails(c) \/ FinalizeUnacknowledged(c)
  BY <1>2, <1>10, <1>11
<1>12. CASE \A c \in Call : ~(Revoke(c) \/ FinalizeFails(c) \/ FinalizeUnacknowledged(c))
  <2>1. Revoking' \subseteq Revoking
    BY <1>3, <1>4, <1>5, <1>6, <1>8, <1>12
       DEF Next, vars, calls, StartCreate, StartDecide, Lapse, ConsumeMarker, CleanUp
  <2> QED
    BY <1>9, <1>12, <2>1
<1> QED
  BY <1>10, <1>11, <1>12

LEMMA OneMore ==
  ASSUME NEW S, IsFiniteSet(S), NEW x, NEW T, T \subseteq S \union {x}
  PROVE  IsFiniteSet(T) /\ Cardinality(T) \in Nat /\ Cardinality(T) <= Cardinality(S) + 1
<1>1. Cardinality(S) \in Nat
  BY FS_CardinalityType
<1>2. /\ IsFiniteSet(S \union {x})
      /\ Cardinality(S \union {x}) = IF x \in S THEN Cardinality(S) ELSE Cardinality(S) + 1
  BY FS_AddElement, Zenon
<1>3. IsFiniteSet(T) /\ Cardinality(T) <= Cardinality(S \union {x})
  BY <1>2, FS_Subset
<1>4. Cardinality(T) \in Nat
  BY <1>3, FS_CardinalityType
<1> QED
  BY <1>1, <1>2, <1>3, <1>4

LEMMA NoMore ==
  ASSUME NEW S, IsFiniteSet(S), NEW T, T \subseteq S
  PROVE  IsFiniteSet(T) /\ Cardinality(T) \in Nat /\ Cardinality(T) <= Cardinality(S)
<1>1. IsFiniteSet(T) /\ Cardinality(T) <= Cardinality(S)
  BY FS_Subset
<1> QED
  BY <1>1, FS_CardinalityType

(* A compensation turns the failure it was sent by into one lost grant.    *)
LEMMA LossStep == Inv /\ GrantInv /\ LossInv /\ [Next]_vars => LossInv'
<1> SUFFICES ASSUME Inv, GrantInv, LossInv, [Next]_vars PROVE LossInv'
  OBVIOUS
<1>1. /\ IsFiniteSet(Losers) /\ Cardinality(Losers) \in Nat
      /\ IsFiniteSet(Revoking) /\ Cardinality(Revoking) \in Nat /\ faults \in Nat
      /\ Cardinality(Losers) + Cardinality(Revoking) <= faults
  BY FS_CardinalityType DEF LossInv, Inv, TypeOK
<1>2. ASSUME NEW c \in Revoking, Revoke(c), Revoking' = Revoking \ {c}, faults' = faults PROVE LossInv'
  <2> DEFINE x == origin[key[c]].by
  <2>1. \A d \in Call : Revoke(d) => d = c
    <3>1. ASSUME NEW d \in Call, Revoke(d), d # c PROVE FALSE
      <4>1. pc'[d] = "rollback" /\ pc[d] = "revoke"
        BY <3>1, Others DEF Revoke, Place, InApproval
      <4>2. pc'[d] = pc[d]
        BY <1>2, <3>1, Others DEF Revoke, Revoking, Place, InApproval
      <4> QED
        BY <4>1, <4>2
    <3> QED
      BY <3>1
  <2>2. Losers' \subseteq Losers \union {x}
    BY <2>1, LosersStep
  <2>3. IsFiniteSet(Losers') /\ Cardinality(Losers') \in Nat /\ Cardinality(Losers') <= Cardinality(Losers) + 1
    BY <1>1, <2>2, OneMore
  <2>4. IsFiniteSet(Revoking \ {c}) /\ Cardinality(Revoking \ {c}) = Cardinality(Revoking) - 1
    BY <1>1, <1>2, FS_RemoveElement
  <2> QED
    BY <1>1, <1>2, <2>3, <2>4 DEF LossInv
<1>3. ASSUME \A c \in Call : ~Revoke(c)
      PROVE  IsFiniteSet(Losers') /\ Cardinality(Losers') \in Nat /\ Cardinality(Losers') <= Cardinality(Losers)
  <2>1. Losers' \subseteq Losers
    BY <1>3, LosersStep
  <2> QED
    BY <1>1, <2>1, NoMore
<1>4. ASSUME \A c \in Call : ~Revoke(c), Revoking' \subseteq Revoking, faults' \in {faults, faults + 1}
      PROVE  LossInv'
  <2>1. IsFiniteSet(Revoking') /\ Cardinality(Revoking') \in Nat /\ Cardinality(Revoking') <= Cardinality(Revoking)
    BY <1>1, <1>4, NoMore
  <2> QED
    BY <1>1, <1>3, <1>4, <2>1 DEF LossInv
<1>5. ASSUME \A c \in Call : ~Revoke(c), NEW c \in Call, Revoking' \subseteq Revoking \union {c}, faults' = faults + 1
      PROVE  LossInv'
  <2>1. IsFiniteSet(Revoking') /\ Cardinality(Revoking') \in Nat
        /\ Cardinality(Revoking') <= Cardinality(Revoking) + 1
    BY <1>1, <1>5, OneMore
  <2> QED
    BY <1>1, <1>3, <1>5, <2>1 DEF LossInv
<1> QED
  BY <1>2, <1>4, <1>5, RevokingStep

LEMMA LossAlways == Spec => []LossInv
<1>1. ASSUME Init PROVE LossInv
  <2>1. Losers = {} /\ Revoking = {}
    BY <1>1 DEF Init, Losers, Loser, Revoking
  <2> QED
    BY <1>1, <2>1, FS_EmptySet DEF Init, LossInv
<1> QED
  BY <1>1, LossStep, GrantAlways, InvAlways, PTL DEF Spec

(* The grant of an approved request is there until it is used, and each    *)
(* failed finalization costs at most one approved request its grant.       *)
THEOREM GrantedCorrect == Spec => []ApprovedIsGranted
<1>1. ASSUME Inv, GrantInv, LossInv PROVE ApprovedIsGranted
  <2> DEFINE lose == {r \in Request : status[r] = "approved" /\ Ungranted(r)}
  <2>1. \A r \in Request : status[r] = "approved" /\ Ungranted(r) => coordinate[r] \in compensated
    BY <1>1 DEF GrantInv, AgreeInv, Granted, Ungranted
  <2>2. lose \subseteq Losers
    BY DEF Losers, Loser
  <2>3. Cardinality(lose) \in Nat /\ Cardinality(lose) <= Cardinality(Losers)
    BY <1>1, <2>2, NoMore DEF LossInv
  <2>4. /\ Cardinality(Losers) \in Nat /\ Cardinality(Revoking) \in Nat /\ faults \in Nat
        /\ Cardinality(Losers) + Cardinality(Revoking) <= faults
    BY <1>1, FS_CardinalityType DEF LossInv, Inv, TypeOK
  <2>5. Cardinality(lose) <= faults
    BY <2>3, <2>4
  <2> QED
    BY <2>1, <2>5 DEF ApprovedIsGranted
<1> QED
  BY <1>1, LossAlways, GrantAlways, InvAlways, PTL

-----------------------------------------------------------------------------
(* Who owns a request in approving                                         *)

(* The owner stays in its approval if the step leaves the row approving.   *)
LEMMA OwnerStays ==
  ASSUME Inv, [Next]_vars, crashes' = crashes,
         NEW c \in Call, pc[c] \in InApproval, NEW r \in Request, req[c] = r,
         status'[r] = "approving"
  PROVE  pc'[c] \in InApproval /\ req'[c] = r
<1>p. InApproval \subseteq Place /\ "idle" \notin InApproval
  BY DEF Place, InApproval
<1>1. CASE UNCHANGED <<pc, req>>
  BY <1>1
<1>2. ASSUME NEW d \in Call, d # c, Return(d) \/ \E p \in Place : Goto(d, p)
      PROVE  pc'[c] \in InApproval /\ req'[c] = r
  BY <1>2, Others
<1>3. ASSUME NEW p \in InApproval, Goto(c, p) PROVE pc'[c] \in InApproval /\ req'[c] = r
  BY <1>3, <1>p, Others
<1>4. ASSUME NEW d \in Call, NEW p \in {"dedupe", "read"}, NEW q, NEW k, NEW a, NEW t,
             Begin(d, p, q, k, a, t)
      PROVE  pc'[c] \in InApproval /\ req'[c] = r
  BY <1>4, <1>p DEF Begin, Inv, TypeOK, CallTypeOK
<1>5. ASSUME NEW d \in Call, d # c, Proceed(d) \/ Fails(d)
      PROVE  pc'[c] \in InApproval /\ req'[c] = r
  <2>1. Return(d) \/ \E p \in Place : Goto(d, p)
    BY <1>5
       DEF Proceed, Fails, FindPending, Insert, InsertFails, RequirePendingDecision, MarkExpired,
           Deny, Claim, Grant, Finalize, Revoke, RollbackApproving, GrantFails, GrantUnacknowledged,
           FinalizeFails, FinalizeUnacknowledged, RevokeFails, Crash, Place, InApproval
  <2> QED
    BY <1>2, <1>5, <2>1
<1>6. ASSUME Proceed(c) \/ Fails(c) PROVE pc'[c] \in InApproval /\ req'[c] = r
  <2>1. ~(FindPending(c) \/ Insert(c) \/ InsertFails(c) \/ RequirePendingDecision(c)
          \/ MarkExpired(c) \/ Deny(c) \/ Claim(c))
    BY DEF FindPending, Insert, InsertFails, RequirePendingDecision, MarkExpired, Deny, Claim,
           InApproval
  <2>2. ~Crash(c)
    BY DEF Crash, Inv, TypeOK
  <2>3. CASE Grant(c) \/ Revoke(c) \/ GrantFails(c) \/ GrantUnacknowledged(c)
             \/ FinalizeFails(c) \/ FinalizeUnacknowledged(c) \/ RevokeFails(c)
    BY <1>3, <2>3 DEF Grant, Revoke, GrantFails, GrantUnacknowledged, FinalizeFails,
                      FinalizeUnacknowledged, RevokeFails, InApproval
  <2>4. CASE Finalize(c)
    <3>1. ~Commit(c)
      BY RowsOthers DEF Commit
    <3> QED
      BY <1>3, <2>4, <3>1 DEF Finalize, InApproval
  <2>5. CASE RollbackApproving(c)
    <3>1. ~Record(r, "pending", None, <<>>, <<>>)
      BY RowsOthers
    <3>2. status[r] # "approving" /\ status' = status
      BY <2>5, <3>1 DEF RollbackApproving
    <3> QED
      BY <3>2
  <2> QED
    BY <1>6, <2>1, <2>2, <2>3, <2>4, <2>5 DEF Proceed, Fails
<1> QED
  BY <1>1, <1>4, <1>5, <1>6
     DEF Next, vars, calls, StartCreate, StartDecide, Lapse, ConsumeMarker, CleanUp

(* Only a claim makes a row approving, and the claiming call owns it.      *)
LEMMA ClaimOwns ==
  ASSUME Inv, [Next]_vars, NEW r \in Request,
         status[r] # "approving", status'[r] = "approving"
  PROVE  \E c \in Call : pc'[c] \in InApproval /\ req'[c] = r
<1>1. ASSUME NEW q, NEW s, NEW who, NEW actions, NEW events,
             Record(q, s, who, actions, events), s # "approving"
      PROVE  FALSE
  BY <1>1, RowsOthers
<1>2. ~UNCHANGED status
  OBVIOUS
<1>3. PICK c \in Call : Claim(c)
  BY <1>1, <1>2, ZenonT(60)
     DEF Next, vars, rows, Proceed, Fails, FindPending, Insert, InsertFails, RequirePendingDecision,
         MarkExpired, Deny, Grant, Finalize, Commit, Revoke, RollbackApproving, GrantFails,
         GrantUnacknowledged, FinalizeFails, FinalizeUnacknowledged, RevokeFails, Crash,
         StartCreate, StartDecide, Lapse, ConsumeMarker, CleanUp
<1>4. Record(req[c], "approving", actor[c], <<>>, <<>>) /\ Goto(c, "grant")
  BY <1>2, <1>3 DEF Claim
<1>5. req[c] = r
  BY <1>4, RowsOthers
<1>6. pc'[c] = "grant" /\ req'[c] = req[c]
  BY <1>4, Others DEF Place, InApproval
<1> QED
  BY <1>5, <1>6 DEF InApproval

(* A call that dies leaves the request it worked on, and no other.         *)
LEMMA CrashStrands ==
  ASSUME Inv, NEW c \in Call, Crash(c)
  PROVE  Stranded' \subseteq Stranded \union {req[c]}
<1>1. \A d \in Call : d # c => pc'[d] = pc[d] /\ req'[d] = req[d]
  BY Others DEF Crash
<1>2. UNCHANGED status
  BY DEF Crash, rows
<1> QED
  BY <1>1, <1>2 DEF Stranded

LEMMA LivingStrandNone ==
  ASSUME Inv, [Next]_vars, crashes' = crashes
  PROVE  Stranded' \subseteq Stranded
<1> SUFFICES ASSUME NEW r \in Request, status'[r] = "approving",
                    \A c \in Call : ~(pc'[c] \in InApproval /\ req'[c] = r)
             PROVE  r \in Stranded
  BY DEF Stranded
<1>1. status[r] = "approving"
  BY ClaimOwns
<1>2. \A c \in Call : ~(pc[c] \in InApproval /\ req[c] = r)
  BY OwnerStays
<1> QED
  BY <1>1, <1>2 DEF Stranded

StrandInv == IsFiniteSet(Stranded) /\ Cardinality(Stranded) <= crashes

LEMMA StrandStep == Inv /\ StrandInv /\ [Next]_vars => StrandInv'
<1> SUFFICES ASSUME Inv, StrandInv, [Next]_vars PROVE StrandInv'
  OBVIOUS
<1>1. crashes' = crashes \/ \E c \in Call : Crash(c)
  BY DEF Next, Proceed, Fails, vars, Bounded, Fault, StartCreate, StartDecide, Lapse, ConsumeMarker,
         CleanUp, FindPending, Insert, InsertFails, RequirePendingDecision, MarkExpired, Deny, Claim,
         Grant, Finalize, Revoke, RollbackApproving, GrantFails, GrantUnacknowledged, FinalizeFails,
         FinalizeUnacknowledged, RevokeFails
<1>2. crashes \in Nat /\ IsFiniteSet(Stranded) /\ Cardinality(Stranded) \in Nat
  BY FS_CardinalityType DEF Inv, TypeOK, StrandInv
<1>3. CASE crashes' = crashes
  <2>1. IsFiniteSet(Stranded') /\ Cardinality(Stranded') <= Cardinality(Stranded)
    BY <1>2, <1>3, LivingStrandNone, FS_Subset
  <2>2. Cardinality(Stranded') \in Nat
    BY <2>1, FS_CardinalityType
  <2> QED
    BY <1>2, <1>3, <2>1, <2>2 DEF StrandInv
<1>4. ASSUME NEW c \in Call, Crash(c) PROVE StrandInv'
  <2> DEFINE more == Stranded \union {req[c]}
  <2>1. IsFiniteSet(more)
        /\ Cardinality(more) = IF req[c] \in Stranded THEN Cardinality(Stranded) ELSE Cardinality(Stranded) + 1
    BY <1>2, FS_AddElement, Zenon
  <2>2. IsFiniteSet(Stranded') /\ Cardinality(Stranded') <= Cardinality(more)
    BY <1>4, <2>1, CrashStrands, FS_Subset
  <2>3. Cardinality(Stranded') \in Nat
    BY <2>2, FS_CardinalityType
  <2>4. crashes' = crashes + 1
    BY <1>4 DEF Crash
  <2> QED
    BY <1>2, <2>1, <2>2, <2>3, <2>4 DEF StrandInv
<1> QED
  BY <1>1, <1>3, <1>4

(* Each call that dies strands at most one row in approving. *)
THEOREM OwnedCorrect == Spec => []ApprovingIsOwned
<1>1. ASSUME Init PROVE StrandInv
  <2>1. Stranded = {}
    BY <1>1 DEF Init, Stranded
  <2> QED
    BY <1>1, <2>1, FS_EmptySet DEF Init, StrandInv
<1>2. StrandInv => ApprovingIsOwned
  BY DEF StrandInv, ApprovingIsOwned
<1> QED
  BY <1>1, <1>2, StrandStep, InvAlways, PTL DEF Spec

-----------------------------------------------------------------------------
(* The contract                                                            *)

(* What a marker stands for, or a clean-up removes, is a one-time grant.   *)
KindInv ==
    \A k \in Key : Marker(k) \in tuples \/ k \in cleaning => origin[k].type = "one_time"

LEMMA KindStep == Inv /\ GrantInv /\ KindInv /\ [Next]_vars => KindInv'
<1> SUFFICES ASSUME Inv, GrantInv, KindInv, [Next]_vars PROVE KindInv'
  OBVIOUS
<1>t. StoreTypeOK /\ StoreInv
  BY DEF Inv, TypeOK, GrantInv
<1>1. CASE UNCHANGED <<tuples, origin, cleaning>>
  BY <1>1 DEF KindInv
<1>2. ASSUME NEW c \in Call, pc[c] = "grant", WriteGrant(c) PROVE KindInv'
  <2>0. key[c] \in Key /\ ActionTuple(key[c]) \notin tuples
    BY <1>2, Places DEF WriteGrant, Accepts, TuplesOf, InApproval
  <2>1. PICK j \in Key : /\ origin' = [origin EXCEPT ![j] = [by |-> req[c], type |-> type[c]]]
                         /\ tuples' = tuples \union TuplesOf(j, type[c]) /\ cleaning' = cleaning
                         /\ ActionTuple(j) \notin tuples
    BY <1>2, <2>0 DEF WriteGrant, Applied
  <2>2. ASSUME NEW k \in Key, Marker(k) \in tuples' \/ k \in cleaning'
        PROVE  origin'[k].type = "one_time"
    <3>1. CASE k # j
      BY <1>t, <2>1, <2>2, <3>1, Names DEF KindInv, StoreTypeOK
    <3>2. CASE k = j
      BY <1>t, <2>1, <2>2, <3>2, Names DEF StoreInv, StoreTypeOK
    <3> QED
      BY <3>1, <3>2
  <2> QED
    BY <2>2 DEF KindInv
<1>3. ASSUME NEW j \in Key, tuples' \subseteq tuples \ {Marker(j)}, j \notin cleaning',
             cleaning' \subseteq cleaning, origin' = [origin EXCEPT ![j] = NoGrant]
      PROVE  KindInv'
  BY <1>3, <1>t DEF KindInv, StoreTypeOK
<1>4. ASSUME NEW c \in Call, Revoke(c) PROVE KindInv'
  <2>1. CASE UNCHANGED <<tuples, origin>>
    BY <1>1, <1>4, <2>1 DEF Revoke
  <2>2. CASE /\ Accepts(tuples, {}, {ActionTuple(key[c]), Marker(key[c])})
             /\ tuples' = Applied(tuples, {}, {ActionTuple(key[c]), Marker(key[c])})
             /\ origin' = [origin EXCEPT ![key[c]] = NoGrant]
    <3>1. key[c] \in Key
      BY <1>4, Places DEF Revoke, InApproval
    <3>2. key[c] \notin cleaning
      BY <1>t, <2>2, <3>1 DEF StoreInv, Accepts
    <3> QED
      BY <1>3, <1>4, <2>2, <3>1, <3>2 DEF Revoke, Applied
  <2> QED
    BY <1>4, <2>1, <2>2 DEF Revoke
<1>5. ASSUME NEW k \in Key, ConsumeMarker(k) PROVE KindInv'
  BY <1>5 DEF ConsumeMarker, KindInv
<1>6. ASSUME NEW k \in Key, CleanUp(k) PROVE KindInv'
  <2>1. Marker(k) \notin tuples
    BY <1>6, <1>t DEF CleanUp, StoreInv
  <2> QED
    BY <1>3, <1>6, <2>1 DEF CleanUp
<1>7. ASSUME NEW c \in Call, Proceed(c) \/ Fails(c) PROVE KindInv'
  BY <1>1, <1>2, <1>4, <1>7
     DEF Proceed, Fails, FindPending, Insert, InsertFails, RequirePendingDecision, MarkExpired,
         Deny, Claim, Grant, Finalize, RollbackApproving, GrantFails, store,
         GrantUnacknowledged, FinalizeFails, FinalizeUnacknowledged, RevokeFails, Crash
<1> QED
  BY <1>1, <1>5, <1>6, <1>7 DEF Next, vars, store, StartCreate, StartDecide, Lapse

(* The contract's state, as the implementation has it.                     *)
Stand(k) == Standing(tuples, k, origin[k].type)
Stands == [k \in Key |-> Stand(k)]

Hold(k) == IF ActionTuple(k) \in tuples THEN origin[k].by ELSE None
Holders == [k \in Key |-> Hold(k)]

Told(r) == IF status[r] = "approving" THEN "pending" ELSE status[r]
Decisions == [r \in Request |-> Told(r)]

Decider(r) == IF status[r] \in {"approved", "denied"} THEN decidedBy[r] ELSE None
Deciders == [r \in Request |-> Decider(r)]

StoreView == <<Stands, Holders, spent, compensated>>
RowView == <<Decisions, Deciders, coordinate>>

KeepsContract == [Contract!Step]_<<StoreView, RowView>>

LEMMA StoreViewKept ==
  ASSUME UNCHANGED <<tuples, origin, spent, compensated>>
  PROVE  UNCHANGED StoreView
BY DEF StoreView, Stands, Stand, Holders, Hold

LEMMA RowViewKept ==
  ASSUME UNCHANGED <<status, decidedBy, coordinate>>
  PROVE  UNCHANGED RowView
BY DEF RowView, Decisions, Told, Deciders, Decider

(* A statement moves one request. *)
LEMMA RowViewMoves ==
  ASSUME Inv, NEW r \in Request, NEW s, NEW who, NEW actions, NEW events, Record(r, s, who, actions, events)
  PROVE  /\ Decisions' = [Decisions EXCEPT ![r] = IF s = "approving" THEN "pending" ELSE s]
         /\ Deciders' = [Deciders EXCEPT ![r] = IF s \in {"approved", "denied"} THEN who ELSE None]
<1>1. \A q \in Request : /\ q # r => status'[q] = status[q] /\ decidedBy'[q] = decidedBy[q]
                         /\ q = r => status'[q] = s /\ decidedBy'[q] = who
  BY DEF Record, Inv, TypeOK, RowTypeOK
<1>2. \A q \in Request : q # r => Told(q)' = Told(q) /\ Decider(q)' = Decider(q)
  BY <1>1 DEF Told, Decider
<1>3. /\ Told(r)' = IF s = "approving" THEN "pending" ELSE s
      /\ Decider(r)' = IF s \in {"approved", "denied"} THEN who ELSE None
  BY <1>1 DEF Told, Decider
<1>4. Decisions' = [Decisions EXCEPT ![r] = Told(r)'] /\ Deciders' = [Deciders EXCEPT ![r] = Decider(r)']
  BY <1>2 DEF Decisions, Deciders
<1> QED
  BY <1>3, <1>4

(* A request to OpenFGA moves one coordinate. *)
LEMMA StoreViewMoves ==
  ASSUME NEW k \in Key, \A j \in Key : j # k => SameTuples(j)
  PROVE  /\ Stands' = [Stands EXCEPT ![k] = Stand(k)']
         /\ Holders' = [Holders EXCEPT ![k] = Hold(k)']
<1>1. \A j \in Key : j # k => Stand(j)' = Stand(j) /\ Hold(j)' = Hold(j)
  BY DEF SameTuples, Stand, Standing, Hold
<1> QED
  BY <1>1 DEF Stands, Holders

(* A row that is decided, or inserted. *)
LEMMA ContractAsk ==
  ASSUME Inv, NEW r \in Request, NEW k \in Key, status[r] = "absent", NEW actions, NEW events,
         Record(r, "pending", None, actions, events), coordinate' = [coordinate EXCEPT ![r] = k],
         UNCHANGED StoreView
  PROVE  Contract!Ask(r, k)
<1>1. /\ Decisions' = [Decisions EXCEPT ![r] = "pending"]
      /\ Deciders' = [Deciders EXCEPT ![r] = None]
  BY RowViewMoves
<1>2. Decisions[r] = "absent" /\ Deciders[r] = None
  BY DEF Decisions, Told, Deciders, Decider
<1>3. Deciders' = Deciders
  BY <1>1, <1>2 DEF Deciders
<1>4. /\ Decisions[r] = "absent" /\ Decisions' = [Decisions EXCEPT ![r] = "pending"]
      /\ coordinate' = [coordinate EXCEPT ![r] = k]
      /\ UNCHANGED <<StoreView, Deciders>>
  BY <1>1, <1>2, <1>3
<1> QED
  BY <1>4
     DEF Contract!Ask, Contract!grants, StoreView, Stands, Stand, Holders, Hold, Decisions, Told,
         Deciders, Decider

LEMMA ContractDecide ==
  ASSUME Inv, NEW r \in Request, status[r] \in {"pending", "approving"},
         NEW s \in Final, NEW who, NEW by, NEW actions, NEW events,
         Record(r, s, who, actions, events), by = IF s = "expired" THEN None ELSE who,
         UNCHANGED coordinate, UNCHANGED StoreView
  PROVE  Contract!Decide(r, s, by)
<1>1. Decisions' = [Decisions EXCEPT ![r] = s] /\ Deciders' = [Deciders EXCEPT ![r] = by]
  BY RowViewMoves DEF Final
<1>2. Decisions[r] = "pending"
  BY DEF Decisions, Told
<1> QED
  BY <1>1, <1>2
     DEF Contract!Decide, Contract!grants, StoreView, Stands, Stand, Holders, Hold, Decisions, Told,
         Deciders, Decider

(* A claim or a rollback changes nothing the contract speaks of. *)
LEMMA ContractSilent ==
  ASSUME Inv, NEW r \in Request, status[r] \in {"pending", "approving"},
         NEW s \in {"pending", "approving"}, NEW who, NEW actions, NEW events,
         Record(r, s, who, actions, events), UNCHANGED <<store, coordinate>>
  PROVE  KeepsContract
<1>1. Decisions' = [Decisions EXCEPT ![r] = "pending"] /\ Deciders' = [Deciders EXCEPT ![r] = None]
  BY RowViewMoves
<1>2. Decisions[r] = "pending" /\ Deciders[r] = None
  BY DEF Decisions, Told, Deciders, Decider
<1>3. UNCHANGED RowView
  BY <1>1, <1>2 DEF RowView, Decisions, Deciders
<1>4. UNCHANGED StoreView
  BY StoreViewKept DEF store
<1> QED
  BY <1>3, <1>4 DEF KeepsContract

(* A tuple that is written, taken back, claimed or cleared away. *)
LEMMA ContractMove ==
  ASSUME NEW k \in Key, \A j \in Key : j # k => SameTuples(j),
         NEW from, NEW to, Stand(k) = from, Stand(k)' = to
  PROVE  Contract!Move(k, from, to)
<1>1. Stands' = [Stands EXCEPT ![k] = to] /\ Stands[k] = from
  BY StoreViewMoves DEF Stands
<1> QED
  BY <1>1 DEF Contract!Move, Stands, Stand

(* What counts as a step of the contract. *)
LEMMA ContractSteps ==
  ASSUME NEW r \in Request, NEW k \in Key, NEW a \in Approver,
         \/ Contract!Ask(r, k) \/ Contract!Deny(r, a) \/ Contract!Approve(r, a) \/ Contract!Lapse(r)
         \/ Contract!GiveFor(r) \/ Contract!Withdraw(k) \/ Contract!Use(k) \/ Contract!Finish(k)
  PROVE  KeepsContract
<1>1. Contract!Step
  BY DEF Contract!Step
<1> QED
  BY <1>1 DEF KeepsContract

(* The statements and transactions keep to it. *)
LEMMA ContractRows ==
  ASSUME Inv, GrantInv, NEW c \in Call,
         \/ Insert(c) \/ MarkExpired(c) \/ Deny(c) \/ Claim(c) \/ RollbackApproving(c)
         \/ Finalize(c) \/ FinalizeUnacknowledged(c)
  PROVE  KeepsContract
<1>s. UNCHANGED <<StoreView, store>>
  <2>1. UNCHANGED store
    BY DEF Insert, MarkExpired, Deny, Claim, RollbackApproving, Finalize, FinalizeUnacknowledged
  <2> QED
    BY <2>1, StoreViewKept DEF store
<1>1. CASE UNCHANGED <<status, decidedBy, coordinate>>
  BY <1>s, <1>1, RowViewKept DEF KeepsContract
<1>2. CASE Insert(c)
  <2>1. PICK r \in Request : /\ status[r] = "absent"
                             /\ Record(r, "pending", None, <<"created">>, <<"access_requested">>)
                             /\ coordinate' = [coordinate EXCEPT ![r] = key[c]]
    BY <1>2 DEF Insert
  <2>2. PICK k \in Key : k = key[c]
    BY <1>2 DEF Insert, Inv, CallInv
  <2>3. Contract!Ask(r, k)
    BY <1>s, <2>1, <2>2, ContractAsk
  <2>4. Contract!Step
    BY <2>3 DEF Contract!Step
  <2> QED
    BY <2>4 DEF KeepsContract
(* The call's request, coordinate and decider. *)
<1>c. ASSUME pc[c] \in {"expire", "deny", "claim"} \union InApproval
      PROVE  \E r \in Request, k \in Key, a \in Approver :
               r = req[c] /\ k = key[c] /\ k = coordinate[r] /\ a = actor[c]
  BY <1>c DEF Inv, CallInv
<1>3. CASE MarkExpired(c) \/ Deny(c)
  <2>1. PICK r \in Request, k \in Key, a \in Approver :
               r = req[c] /\ k = key[c] /\ k = coordinate[r] /\ a = actor[c]
    BY <1>3, <1>c DEF MarkExpired, Deny
  <2>2. CASE status[r] = "pending" /\ MarkExpired(c)
    <3>1. Contract!Decide(r, "expired", None)
      BY <1>s, <2>1, <2>2, ContractDecide DEF MarkExpired, Final
    <3> QED
      BY <3>1, <2>1, ContractSteps DEF Contract!Lapse
  <2>3. CASE status[r] = "pending" /\ Deny(c)
    <3>1. Contract!Decide(r, "denied", a)
      BY <1>s, <2>1, <2>3, ContractDecide DEF Deny, Final
    <3> QED
      BY <3>1, <2>1, ContractSteps DEF Contract!Deny
  <2> QED
    BY <1>1, <1>3, <2>1, <2>2, <2>3 DEF MarkExpired, Deny
<1>5. CASE Claim(c) \/ RollbackApproving(c)
  <2>1. req[c] \in Request /\ UNCHANGED coordinate
    BY <1>5 DEF Claim, RollbackApproving, Inv, CallInv, InApproval
  <2>2. CASE UNCHANGED <<status, decidedBy>>
    BY <1>1, <2>1, <2>2
  <2>3. ASSUME NEW s \in {"pending", "approving"}, NEW who, Record(req[c], s, who, <<>>, <<>>),
               status[req[c]] \in {"pending", "approving"}
        PROVE  KeepsContract
    BY <1>s, <2>1, <2>3, ContractSilent
  <2> QED
    BY <1>5, <2>2, <2>3 DEF Claim, RollbackApproving
<1>6. CASE Finalize(c) \/ FinalizeUnacknowledged(c)
  <2>1. PICK r \in Request, k \in Key, a \in Approver :
               r = req[c] /\ k = key[c] /\ k = coordinate[r] /\ a = actor[c]
    BY <1>6, <1>c DEF Finalize, FinalizeUnacknowledged, InApproval
  <2>2. Granted(r, k)
    BY <1>6, <2>1 DEF Finalize, FinalizeUnacknowledged, GrantInv, ApprovalInv
  <2>3. CASE Commit(c)
    <3>1. /\ status[r] = "approving" /\ UNCHANGED coordinate
          /\ Record(r, "approved", a, <<"approved">>, <<"access_approved", "granted">>)
      BY <2>1, <2>3 DEF Commit
    <3>2. Contract!Decide(r, "approved", a)
      BY <1>s, <2>1, <3>1, ContractDecide DEF Final
    <3>3. r \in spent \/ k \in compensated \/ Holders[k] = r
      BY <2>2 DEF Granted, Holders, Hold
    <3>4. Decisions[r] = "pending"
      BY <3>1 DEF Decisions, Told
    <3>5. Contract!Approve(r, a)
      BY <2>1, <3>2, <3>3, <3>4 DEF Contract!Approve, Holders, Hold, Decisions, Told
    <3> QED
      BY <2>1, <3>5, ContractSteps
  <2> QED
    BY <1>1, <1>6, <2>3 DEF Finalize, FinalizeUnacknowledged, rows
<1> QED
  BY <1>2, <1>3, <1>5, <1>6

(* And so do the requests to OpenFGA. *)
LEMMA ContractStore ==
  ASSUME Inv, GrantInv, KindInv, UNCHANGED rows,
         \/ \E c \in Call : pc[c] = "grant" /\ WriteGrant(c)
         \/ \E c \in Call : Revoke(c)
         \/ \E k \in Key : ConsumeMarker(k) \/ CleanUp(k)
  PROVE  KeepsContract
<1>t. StoreTypeOK /\ StoreInv
  BY DEF Inv, TypeOK, GrantInv
<1>r. UNCHANGED RowView
  BY RowViewKept DEF rows
<1>1. ASSUME NEW c \in Call, pc[c] = "grant", WriteGrant(c) PROVE KeepsContract
  <2>1. PICK r \in Request : r = req[c] /\ key[c] = coordinate[r] /\ key[c] \in Key /\ status[r] = "approving"
    BY <1>1, Places DEF Inv, ClaimIsExclusive, InApproval
  <2>2. PICK k \in Key : k = key[c]
    BY <2>1
  <2>3. /\ ActionTuple(k) \notin tuples /\ tuples' = tuples \union TuplesOf(k, type[c])
        /\ origin' = [origin EXCEPT ![k] = [by |-> r, type |-> type[c]]]
        /\ UNCHANGED <<spent, compensated>>
    BY <1>1, <2>1, <2>2, Names DEF WriteGrant, Accepts, Applied
  <2>4. \A j \in Key : j # k => SameTuples(j)
    BY <1>t, <2>3, Names DEF SameTuples, StoreTypeOK
  <2>5. origin'[k].by = r /\ origin'[k].type = type[c] /\ ActionTuple(k) \in tuples'
    BY <1>t, <2>3, Names DEF StoreTypeOK
  <2>6. Stand(k) = "none" /\ Stand(k)' \in {"durable", "one_time"}
    BY <2>3, <2>5, Names DEF Stand, Standing
  <2>7. Contract!Give(k)
    BY <2>4, <2>6, ContractMove DEF Contract!Give
  <2>8. Hold(k)' = r
    BY <2>5 DEF Hold
  <2>9. Holders' = [Holders EXCEPT ![k] = r]
    BY <2>4, <2>8, StoreViewMoves
  <2>10. Decisions[r] = "pending"
    BY <2>1 DEF Decisions, Told
  <2>11. Contract!GiveFor(r)
    BY <1>r, <2>1, <2>2, <2>3, <2>7, <2>9, <2>10
       DEF Contract!GiveFor, Contract!requests, RowView, Decisions, Told, Deciders, Decider, Holders, Hold
  <2>12. Contract!Step
    BY <2>11 DEF Contract!Step
  <2> QED
    BY <2>12 DEF KeepsContract
<1>2. ASSUME NEW c \in Call, Revoke(c) PROVE KeepsContract
  <2>1. CASE UNCHANGED <<tuples, origin, compensated>>
    BY <1>2, <1>r, <2>1, StoreViewKept DEF Revoke, KeepsContract
  <2>2. CASE ~UNCHANGED <<tuples, origin, compensated>>
    <3>1. PICK k \in Key : /\ ActionTuple(k) \in tuples /\ Marker(k) \in tuples
                           /\ tuples' = tuples \ {ActionTuple(k), Marker(k)}
                           /\ origin' = [origin EXCEPT ![k] = NoGrant]
                           /\ compensated' = compensated \union {k}
                           /\ spent' = spent
      BY <1>2, <2>2, Places DEF Revoke, Accepts, Applied, InApproval
    <3>2. \A j \in Key : j # k => SameTuples(j)
      BY <1>t, <3>1, Names DEF SameTuples, StoreTypeOK
    <3>3. Stand(k) = "one_time" /\ Stand(k)' = "none"
      BY <3>1 DEF Stand, Standing, KindInv
    <3>4. Contract!Take(k)
      BY <3>2, <3>3, ContractMove DEF Contract!Take
    <3>5. Hold(k)' = None
      BY <3>1 DEF Hold
    <3>6. Holders' = [Holders EXCEPT ![k] = None]
      BY <3>2, <3>5, StoreViewMoves
    <3>7. Contract!Withdraw(k)
      BY <1>r, <3>1, <3>4, <3>6
         DEF Contract!Withdraw, Contract!requests, RowView, Decisions, Told, Deciders, Decider, Holders, Hold
    <3> QED
      BY <3>7 DEF KeepsContract, Contract!Step
  <2> QED
    BY <2>1, <2>2
<1>3. ASSUME NEW k \in Key, ConsumeMarker(k) PROVE KeepsContract
  <2>1. /\ Marker(k) \in tuples /\ ActionTuple(k) \in tuples /\ tuples' = tuples \ {Marker(k)}
        /\ spent' = spent \union {origin[k].by} /\ UNCHANGED <<origin, compensated>>
    BY <1>3, <1>t DEF ConsumeMarker, StoreInv
  <2>2. \A j \in Key : j # k => SameTuples(j)
    BY <2>1, Names DEF SameTuples
  <2>3. Stand(k) = "one_time" /\ Stand(k)' = "claimed"
    BY <2>1, Names DEF Stand, Standing, KindInv
  <2>4. Contract!Claim(k)
    BY <2>2, <2>3, ContractMove DEF Contract!Claim
  <2>5. \A j \in Key : Hold(j)' = Hold(j)
    BY <2>1, Names DEF Hold
  <2>6. Holders' = Holders /\ Holders[k] = origin[k].by
    BY <2>1, <2>5 DEF Holders, Hold
  <2>7. Contract!Use(k)
    BY <1>r, <2>1, <2>4, <2>6
       DEF Contract!Use, Contract!requests, RowView, Decisions, Told, Deciders, Decider, Holders, Hold
  <2> QED
    BY <2>7 DEF KeepsContract, Contract!Step
<1>4. ASSUME NEW k \in Key, CleanUp(k) PROVE KeepsContract
  <2>1. /\ Marker(k) \notin tuples /\ ActionTuple(k) \in tuples /\ tuples' = tuples \ {ActionTuple(k)}
        /\ origin' = [origin EXCEPT ![k] = NoGrant] /\ origin[k].type = "one_time"
        /\ UNCHANGED <<spent, compensated>>
    BY <1>4, <1>t DEF CleanUp, StoreInv, KindInv
  <2>2. \A j \in Key : j # k => SameTuples(j)
    BY <1>t, <2>1, Names DEF SameTuples, StoreTypeOK
  <2>3. Stand(k) = "claimed" /\ Stand(k)' = "none"
    BY <2>1 DEF Stand, Standing
  <2>4. Contract!Clear(k)
    BY <2>2, <2>3, ContractMove DEF Contract!Clear
  <2>5. Hold(k)' = None
    BY <2>1 DEF Hold
  <2>6. Holders' = [Holders EXCEPT ![k] = None]
    BY <2>2, <2>5, StoreViewMoves
  <2>7. Contract!Finish(k)
    BY <1>r, <2>1, <2>4, <2>6
       DEF Contract!Finish, Contract!requests, RowView, Decisions, Told, Deciders, Decider, Holders, Hold
  <2> QED
    BY <2>7 DEF KeepsContract, Contract!Step
<1> QED
  BY <1>1, <1>2, <1>3, <1>4

LEMMA ContractStep == Inv /\ GrantInv /\ KindInv /\ [Next]_vars => KeepsContract
<1> SUFFICES ASSUME Inv, GrantInv, KindInv, [Next]_vars PROVE KeepsContract
  OBVIOUS
<1>1. CASE UNCHANGED <<status, decidedBy, coordinate, tuples, origin, spent, compensated>>
  BY <1>1, StoreViewKept, RowViewKept DEF KeepsContract
<1>2. ASSUME NEW c \in Call, pc[c] = "grant", WriteGrant(c), UNCHANGED rows PROVE KeepsContract
  BY <1>2, ContractStore
<1>3. ASSUME NEW c \in Call, Proceed(c) PROVE KeepsContract
  BY <1>1, <1>2, <1>3, ContractRows, ContractStore
     DEF Proceed, FindPending, InsertFails, RequirePendingDecision, Grant, Revoke, rows, store
<1>4. ASSUME NEW c \in Call, Fails(c) PROVE KeepsContract
  BY <1>1, <1>2, <1>4, ContractRows
     DEF Fails, GrantFails, GrantUnacknowledged, FinalizeFails, RevokeFails, Crash, rows, store
<1>5. ASSUME NEW k \in Key, ConsumeMarker(k) \/ CleanUp(k) PROVE KeepsContract
  BY <1>5, ContractStore DEF ConsumeMarker, CleanUp
<1> QED
  BY <1>1, <1>3, <1>4, <1>5 DEF Next, vars, rows, store, StartCreate, StartDecide, Lapse

(* The access request service implements its contract. *)
THEOREM ContractRefinement == Spec => ImplementsContract
<1>1. Init => Contract!Begin /\ KindInv
  BY DEF Init, Contract!Begin, Contract!NoGrants, Standing, KindInv
<1>2. Inv /\ GrantInv /\ KindInv /\ [Next]_vars => KindInv'
  BY KindStep
<1>3. Inv /\ GrantInv /\ KindInv /\ [Next]_vars => [Contract!Step]_<<Contract!grants, Contract!requests>>
  BY ContractStep
     DEF KeepsContract, Contract!grants, Contract!requests, StoreView, Stands, Stand, Holders, Hold,
         RowView, Decisions, Told, Deciders, Decider
<1> QED
  BY <1>1, <1>2, <1>3, InvAlways, GrantAlways, PTL DEF Spec, ImplementsContract, Contract!Kept

(* A step of the contract moves one grant, or none. *)
LEMMA ContractMovesGrants ==
  ASSUME Inv, KeepsContract
  PROVE  [\E k \in Key : Contract!Give(k) \/ Contract!Take(k) \/ Contract!Claim(k) \/ Contract!Clear(k)]_Stands
<1>1. CASE UNCHANGED StoreView
  BY <1>1 DEF StoreView
<1>2. ASSUME NEW k \in Key, Contract!Withdraw(k) \/ Contract!Use(k) \/ Contract!Finish(k)
      PROVE  Contract!Take(k) \/ Contract!Claim(k) \/ Contract!Clear(k)
  BY <1>2 DEF Contract!Withdraw, Contract!Use, Contract!Finish
<1>3. ASSUME NEW r \in Request, Contract!GiveFor(r) PROVE coordinate[r] \in Key /\ Contract!Give(coordinate[r])
  <2>1. Told(r) = "pending" /\ Contract!Give(coordinate[r])
    BY <1>3 DEF Contract!GiveFor, Told
  <2>2. status[r] # "absent"
    BY <2>1 DEF Told
  <2> QED
    BY <2>1, <2>2 DEF Inv, TypeOK, RowTypeOK
<1>4. ASSUME NEW r \in Request,
             \/ \E k \in Key : Contract!Ask(r, k)
             \/ \E a \in Approver : Contract!Deny(r, a) \/ Contract!Approve(r, a)
             \/ Contract!Lapse(r)
      PROVE  UNCHANGED StoreView
  BY <1>4 DEF Contract!Ask, Contract!Deny, Contract!Approve, Contract!Lapse, Contract!Decide,
              Contract!grants, StoreView, Stands, Stand, Holders, Hold
<1>5. CASE Contract!Step
  BY <1>1, <1>2, <1>3, <1>4, <1>5 DEF Contract!Step
<1> QED
  BY <1>1, <1>5 DEF KeepsContract, StoreView

(* Approvals, their compensations and the checks beside them move every    *)
(* coordinate only as GrantLifecycle allows, whatever fails: no approval   *)
(* writes over a grant that stands, and no compensation takes back a       *)
(* grant that is durable or claimed.                                       *)
THEOREM GrantsKeepLifecycle == Spec => Contract!Spec
<1>1. Init => Contract!NoGrants /\ KindInv
  BY DEF Init, Contract!NoGrants, Standing, KindInv
<1>2. Inv /\ GrantInv /\ KindInv /\ [Next]_vars => KindInv'
  BY KindStep
<1>3. Inv /\ GrantInv /\ KindInv /\ [Next]_vars
      => [\E k \in Key : Contract!Give(k) \/ Contract!Take(k) \/ Contract!Claim(k) \/ Contract!Clear(k)]_
            [k \in Key |-> Standing(tuples, k, origin[k].type)]
  BY ContractStep, ContractMovesGrants DEF Stands, Stand
<1> QED
  BY <1>1, <1>2, <1>3, InvAlways, GrantAlways, PTL DEF Spec, Contract!Spec
=============================================================================
