--------------------------- MODULE OutboxDrainer ---------------------------
(***************************************************************************)
(* The outbox drainer of the API host (apps/api/src/messaging).  Every     *)
(* pillar commits its events to an outbox table of its own; every API      *)
(* replica runs OutboxDrainerService, which walks the tables in a fixed    *)
(* order, claims a batch of rows under a lease with one conditional UPDATE *)
(* per row, sends each row to Service Bus and records the outcome with     *)
(* another conditional UPDATE.  Replicas share nothing but the tables.     *)
(*                                                                         *)
(* Time: the code compares wall-clock instants (claimedAt < staleBefore).  *)
(* The model keeps the ages of those instants instead, which decide the    *)
(* same comparison and stay bounded.                                       *)
(*                                                                         *)
(* claimId: a drain draws a fresh UUID per table.  A replica has one drain *)
(* in flight and forgets its claimId when that drain ends, so the replica  *)
(* stands for its current claimId: the code only ever names a claimId for  *)
(* a row of the batch claimed under it.                                    *)
(***************************************************************************)
EXTENDS Naturals, FiniteSets

CONSTANTS
    Worker,       \* API replicas
    None,         \* NULL in a claim column
    Row,          \* outbox rows, a set of numbers in createdAt order
    NumSources,   \* number of outbox tables
    SourceOf,     \* SourceOf[r]: the table that holds row r
    Malformed,    \* rows whose payload does not parse
    Rejected,     \* rows the bus never accepts (for example, too large)
    BatchSize,    \* OUTBOX_DRAIN_BATCH_SIZE
    Lease,        \* OUTBOX_CLAIM_LEASE_MS, in clock ticks
    MaxDrain,     \* bound: a drain takes at most this many ticks
    MaxLosses,    \* bound on the faults that lose the outcome of a step
    MaxRefusals,  \* bound on sends refused by a bus that is down
    MaxCopies     \* bound: MaxCopies copies stand for "or more"

ASSUME RowAssumption ==
    /\ Row \subseteq Nat
    /\ SourceOf \in [Row -> 1..NumSources]
    /\ Malformed \subseteq Row
    /\ Rejected \subseteq Row \ Malformed

ASSUME WorkerAssumption == None \notin Worker

ASSUME BoundAssumption ==
    /\ NumSources \in Nat \ {0}
    /\ BatchSize \in Nat \ {0}
    /\ Lease \in Nat \ {0}
    /\ MaxDrain \in Nat
    /\ MaxLosses \in Nat
    /\ MaxRefusals \in Nat
    /\ MaxCopies \in Nat \ {0, 1}

VARIABLES
    \* the outbox tables
    committed,    \* rows inserted by a business transaction
    processed,    \* rows whose processedAt is set
    failed,       \* rows whose failedAt is set
    claim,        \* claimId column: None or the replica that drew it
    claimAge,     \* ticks since claimedAt
    \* the topic
    copies,       \* messages accepted per row, up to MaxCopies
    \* one drain per replica
    pc,           \* where the replica is
    source,       \* the table the drain is at
    candidates,   \* rows found by the query and not yet tried
    batch,        \* rows claimed and not yet handled
    age,          \* ticks since the drain computed claimedAt
    \* history
    losses,       \* faults so far that lost the outcome of a step
    refusals      \* transient refusals so far

tableVars == <<committed, processed, failed, claim, claimAge>>
drainVars == <<pc, source, candidates, batch, age>>
faultVars == <<losses, refusals>>
vars == <<tableVars, copies, drainVars, faultVars>>

Place == {"down", "idle", "find", "claim", "publish", "sent", "unsent"}
Draining == Place \ {"down", "idle"}

MaxClaimAge == MaxDrain + Lease + 1

TypeOK ==
    /\ committed \in SUBSET Row
    /\ processed \in SUBSET Row
    /\ failed \in SUBSET Row
    /\ claim \in [Row -> Worker \union {None}]
    /\ claimAge \in [Row -> 0..MaxClaimAge]
    /\ copies \in [Row -> 0..MaxCopies]
    /\ pc \in [Worker -> Place]
    /\ source \in [Worker -> 1..NumSources]
    /\ candidates \in [Worker -> SUBSET Row]
    /\ batch \in [Worker -> SUBSET Row]
    /\ age \in [Worker -> 0..MaxDrain]
    /\ losses \in 0..MaxLosses
    /\ refusals \in 0..MaxRefusals

(* The API starts with empty outboxes and every replica idle. *)
Init ==
    /\ committed = {}
    /\ processed = {}
    /\ failed = {}
    /\ claim = [r \in Row |-> None]
    /\ claimAge = [r \in Row |-> 0]
    /\ copies = [r \in Row |-> 0]
    /\ pc = [w \in Worker |-> "idle"]
    /\ source = [w \in Worker |-> 1]
    /\ candidates = [w \in Worker |-> {}]
    /\ batch = [w \in Worker |-> {}]
    /\ age = [w \in Worker |-> 0]
    /\ losses = 0
    /\ refusals = 0

-----------------------------------------------------------------------------
(* Helpers                                                                 *)

(* The row a loop over S in createdAt order handles next. *)
IsNext(r, S) == r \in S /\ \A q \in S : r <= q

(* Faulty variants: claims that never expire; a lease of length zero; a    *)
(* query that forgets failedAt.                                            *)
Claimable_NoExpiry(r, w) ==
    r \in committed /\ r \notin processed /\ r \notin failed /\ claim[r] = None

Claimable_ZeroLease(r, w) ==
    /\ r \in committed
    /\ r \notin processed
    /\ r \notin failed
    /\ claim[r] = None \/ claimAge[r] >= age[w]

Claimable_FailedToo(r, w) ==
    /\ r \in committed
    /\ r \notin processed
    /\ claim[r] = None \/ claimAge[r] > age[w] + Lease

(* The where clause of the claim: unsettled, and unclaimed or claimed      *)
(* before staleBefore, an instant Lease older than the drain's start.      *)
Claimable(r, w) ==
    /\ r \in committed
    /\ r \notin processed
    /\ r \notin failed
    /\ claim[r] = None \/ claimAge[r] > age[w] + Lease

ClaimableAt(w) == {r \in Row : SourceOf[r] = source[w] /\ Claimable(r, w)}

(* findMany(orderBy createdAt, take limit): C is the oldest BatchSize rows *)
(* of S, or all of S when there are fewer.                                 *)
IsOldest(C, S) ==
    /\ C \subseteq S
    /\ \A r \in C, q \in S \ C : r < q
    /\ Cardinality(C) <= BatchSize
    /\ C = S \/ Cardinality(C) = BatchSize

(* The where clause { id, claimId, processedAt: null } of every outcome. *)
HoldsClaim(w, r) == claim[r] = w /\ r \notin processed

ClearClaim(r) ==
    /\ claim' = [claim EXCEPT ![r] = None]
    /\ claimAge' = [claimAge EXCEPT ![r] = 0]

Goto(w, place) == pc' = [pc EXCEPT ![w] = place]

(* The drain's promise settles: everything it held in memory is dropped. *)
EndDrain(w, place) ==
    /\ Goto(w, place)
    /\ source' = [source EXCEPT ![w] = 1]
    /\ candidates' = [candidates EXCEPT ![w] = {}]
    /\ batch' = [batch EXCEPT ![w] = {}]
    /\ age' = [age EXCEPT ![w] = 0]

Handled(w, r) == batch' = [batch EXCEPT ![w] = @ \ {r}]

AddCopy(r) ==
    copies' = [copies EXCEPT ![r] = IF @ < MaxCopies THEN @ + 1 ELSE @]

-----------------------------------------------------------------------------
(* The pillars                                                             *)

(* A business transaction commits its row together with its entity. *)
Commit(r) ==
    /\ r \notin committed
    /\ committed' = committed \union {r}
    /\ UNCHANGED <<processed, failed, claim, claimAge, copies, drainVars, faultVars>>

-----------------------------------------------------------------------------
(* The drain of replica w                                                  *)

(* drainOnce: on start-up or on the timer, unless a drain is in flight.    *)
(* claimedAt is computed here, once for every table.                       *)
StartDrain(w) ==
    /\ pc[w] = "idle"
    /\ Goto(w, "find")
    /\ UNCHANGED <<tableVars, copies, source, candidates, batch, age, faultVars>>

FindCandidates(w) ==
    /\ pc[w] = "find"
    /\ \E C \in SUBSET ClaimableAt(w) :
         /\ IsOldest(C, ClaimableAt(w))
         /\ candidates' = [candidates EXCEPT ![w] = C]
    /\ Goto(w, "claim")
    /\ UNCHANGED <<tableVars, copies, source, batch, age, faultVars>>

(* Faulty variant: UPDATE ... WHERE id, trusting the candidate list. *)
ClaimRow_Unconditional(w) ==
    /\ pc[w] = "claim"
    /\ \E r \in candidates[w] :
         /\ IsNext(r, candidates[w])
         /\ candidates' = [candidates EXCEPT ![w] = @ \ {r}]
         /\ claim' = [claim EXCEPT ![r] = w]
         /\ claimAge' = [claimAge EXCEPT ![r] = age[w]]
         /\ batch' = [batch EXCEPT ![w] = @ \union {r}]
    /\ UNCHANGED <<committed, processed, failed, copies, pc, source, age, faultVars>>

(* One updateMany per candidate: the row joins the batch only if it is     *)
(* still claimable when the statement runs.                                *)
ClaimRow(w) ==
    /\ pc[w] = "claim"
    /\ \E r \in candidates[w] :
         /\ IsNext(r, candidates[w])
         /\ candidates' = [candidates EXCEPT ![w] = @ \ {r}]
         /\ \/ /\ Claimable(r, w)
               /\ claim' = [claim EXCEPT ![r] = w]
               /\ claimAge' = [claimAge EXCEPT ![r] = age[w]]
               /\ batch' = [batch EXCEPT ![w] = @ \union {r}]
            \/ /\ ~Claimable(r, w)
               /\ UNCHANGED <<claim, claimAge, batch>>
    /\ UNCHANGED <<committed, processed, failed, copies, pc, source, age, faultVars>>

BeginPublish(w) ==
    /\ pc[w] = "claim"
    /\ candidates[w] = {}
    /\ batch[w] # {}
    /\ Goto(w, "publish")
    /\ UNCHANGED <<tableVars, copies, source, candidates, batch, age, faultVars>>

(* Faulty variant: one table too many. *)
SourceDone_OffByOne(w) ==
    /\ pc[w] \in {"claim", "publish"}
    /\ candidates[w] = {}
    /\ batch[w] = {}
    /\ source' = [source EXCEPT ![w] = @ + 1]
    /\ Goto(w, "find")
    /\ UNCHANGED <<candidates, batch, age, tableVars, copies, faultVars>>

(* Nothing (left) to send from this table: go to the next, or be done. *)
SourceDone(w) ==
    /\ pc[w] \in {"claim", "publish"}
    /\ candidates[w] = {}
    /\ batch[w] = {}
    /\ \/ /\ source[w] < NumSources
          /\ source' = [source EXCEPT ![w] = @ + 1]
          /\ Goto(w, "find")
          /\ UNCHANGED <<candidates, batch, age>>
       \/ /\ source[w] = NumSources
          /\ EndDrain(w, "idle")
    /\ UNCHANGED <<tableVars, copies, faultVars>>

(* toMessage throws: markFailed, and on to the next row. *)
Quarantine(w) ==
    /\ pc[w] = "publish"
    /\ \E r \in batch[w] :
         /\ IsNext(r, batch[w])
         /\ r \in Malformed
         /\ \/ /\ HoldsClaim(w, r)
               /\ failed' = failed \union {r}
               /\ ClearClaim(r)
            \/ /\ ~HoldsClaim(w, r)
               /\ UNCHANGED <<failed, claim, claimAge>>
         /\ Handled(w, r)
    /\ UNCHANGED <<committed, processed, copies, pc, source, candidates, age, faultVars>>

(* sendMessages resolves: the topic has a copy. *)
Send(w) ==
    /\ pc[w] = "publish"
    /\ \E r \in batch[w] :
         /\ IsNext(r, batch[w])
         /\ r \notin Malformed \union Rejected
         /\ AddCopy(r)
    /\ Goto(w, "sent")
    /\ UNCHANGED <<tableVars, source, candidates, batch, age, faultVars>>

(* The bus will never take this row: sendMessages rejects every time. *)
SendRejected(w) ==
    /\ pc[w] = "publish"
    /\ \E r \in batch[w] : IsNext(r, batch[w]) /\ r \in Rejected
    /\ Goto(w, "unsent")
    /\ UNCHANGED <<tableVars, copies, source, candidates, batch, age, faultVars>>

(* markPublished takes effect only while the row still carries the claim. *)
MarkPublished(w) ==
    /\ pc[w] = "sent"
    /\ \E r \in batch[w] :
         /\ IsNext(r, batch[w])
         /\ \/ /\ HoldsClaim(w, r)
               /\ processed' = processed \union {r}
               /\ ClearClaim(r)
            \/ /\ ~HoldsClaim(w, r)
               /\ UNCHANGED <<processed, claim, claimAge>>
         /\ Handled(w, r)
    /\ Goto(w, "publish")
    /\ UNCHANGED <<committed, failed, copies, source, candidates, age, faultVars>>

(* Faulty variant: a row that could not be sent is quarantined. *)
ReleaseAndAbort_Quarantines(w) ==
    /\ pc[w] = "unsent"
    /\ \E r \in batch[w] :
         /\ IsNext(r, batch[w])
         /\ \/ HoldsClaim(w, r) /\ ClearClaim(r) /\ failed' = failed \union {r}
            \/ ~HoldsClaim(w, r) /\ UNCHANGED <<claim, claimAge, failed>>
    /\ EndDrain(w, "idle")
    /\ UNCHANGED <<committed, processed, copies, faultVars>>

(* releaseClaim on the row that could not be sent, then rethrow: the rest  *)
(* of the batch stays claimed until its lease runs out, and the tables     *)
(* after this one are skipped.                                             *)
ReleaseAndAbort(w) ==
    /\ pc[w] = "unsent"
    /\ \E r \in batch[w] :
         /\ IsNext(r, batch[w])
         /\ \/ HoldsClaim(w, r) /\ ClearClaim(r)
            \/ ~HoldsClaim(w, r) /\ UNCHANGED <<claim, claimAge>>
    /\ EndDrain(w, "idle")
    /\ UNCHANGED <<committed, processed, failed, copies, faultVars>>

DrainStep(w) ==
    \/ FindCandidates(w) \/ ClaimRow(w) \/ BeginPublish(w) \/ SourceDone(w)
    \/ Quarantine(w) \/ Send(w) \/ SendRejected(w)
    \/ MarkPublished(w) \/ ReleaseAndAbort(w)

-----------------------------------------------------------------------------
(* Faults and time                                                         *)

(* Faulty variant: the rejection is swallowed and the row marked. *)
SendRefused_Swallowed(w) ==
    /\ refusals < MaxRefusals
    /\ pc[w] = "publish"
    /\ \E r \in batch[w] : IsNext(r, batch[w]) /\ r \notin Malformed
    /\ Goto(w, "sent")
    /\ refusals' = refusals + 1
    /\ UNCHANGED <<tableVars, copies, source, candidates, batch, age, losses>>

(* The bus is down for one send. *)
SendRefused(w) ==
    /\ refusals < MaxRefusals
    /\ pc[w] = "publish"
    /\ \E r \in batch[w] : IsNext(r, batch[w]) /\ r \notin Malformed
    /\ Goto(w, "unsent")
    /\ refusals' = refusals + 1
    /\ UNCHANGED <<tableVars, copies, source, candidates, batch, age, losses>>

(* The topic accepts the message but the acknowledgement is lost: the code *)
(* sees the same rejected promise.                                         *)
SendUnacknowledged(w) ==
    /\ losses < MaxLosses
    /\ pc[w] = "publish"
    /\ \E r \in batch[w] :
         /\ IsNext(r, batch[w])
         /\ r \notin Malformed \union Rejected
         /\ AddCopy(r)
    /\ Goto(w, "unsent")
    /\ losses' = losses + 1
    /\ UNCHANGED <<tableVars, source, candidates, batch, age, refusals>>

(* A database call of the drain rejects; runScheduledDrain logs it. *)
DrainError(w) ==
    /\ losses < MaxLosses
    /\ pc[w] \in Draining
    /\ EndDrain(w, "idle")
    /\ losses' = losses + 1
    /\ UNCHANGED <<tableVars, copies, refusals>>

(* The replica is killed, or scaled in. *)
Crash(w) ==
    /\ losses < MaxLosses
    /\ pc[w] # "down"
    /\ EndDrain(w, "down")
    /\ losses' = losses + 1
    /\ UNCHANGED <<tableVars, copies, refusals>>

Restart(w) ==
    /\ pc[w] = "down"
    /\ Goto(w, "idle")
    /\ UNCHANGED <<tableVars, copies, source, candidates, batch, age, faultVars>>

Older(a, bound) == IF a < bound THEN a + 1 ELSE bound

Tick ==
    /\ \A w \in Worker : pc[w] \in Draining => age[w] < MaxDrain
    /\ age' = [w \in Worker |-> IF pc[w] \in Draining THEN age[w] + 1 ELSE 0]
    /\ claimAge' = [r \in Row |-> IF claim[r] = None THEN 0
                                  ELSE Older(claimAge[r], MaxClaimAge)]
    /\ UNCHANGED <<committed, processed, failed, claim, copies,
                   pc, source, candidates, batch, faultVars>>

-----------------------------------------------------------------------------
Fault(w) == SendRefused(w) \/ SendUnacknowledged(w) \/ DrainError(w) \/ Crash(w)

Next ==
    \/ \E r \in Row : Commit(r)
    \/ \E w \in Worker : StartDrain(w) \/ DrainStep(w) \/ Restart(w) \/ Fault(w)
    \/ Tick

(* setInterval fires again and again, an awaited call settles, a replica   *)
(* is restarted by its platform, and the clock runs.                       *)
Fairness ==
    /\ \A w \in Worker :
         WF_vars(StartDrain(w)) /\ WF_vars(DrainStep(w)) /\ WF_vars(Restart(w))
    /\ WF_vars(Tick)

SafetySpec == Init /\ [][Next]_vars
Spec == SafetySpec /\ Fairness

-----------------------------------------------------------------------------
(* Properties                                                              *)

(* A row counts as published only if the topic holds a copy of it, only a  *)
(* row that can never be sent is set aside, and no row is both: the two    *)
(* outcome columns, written by replicas that may hold the same row, agree  *)
(* with the bus.                                                           *)
OutcomeIsTrue ==
    /\ \A r \in processed : copies[r] > 0
    /\ failed \subseteq Malformed
    /\ processed \intersect failed = {}

(* A drain that is still within its lease holds, in the table, the claim   *)
(* of every row of its batch, whatever the other replicas do: no stale     *)
(* candidate list, release or takeover takes a row from it.                *)
LeaseHeld ==
    \A w \in Worker : \A r \in batch[w] :
        age[w] <= Lease =>
            /\ claim[r] = w
            /\ claimAge[r] = age[w]
            /\ r \notin processed \union failed

(* Hence two replicas have the same row in hand only when at least one of  *)
(* them has outrun the lease.                                              *)
NoSharedRow ==
    \A v, w \in Worker :
        v # w /\ batch[v] \intersect batch[w] # {} => age[v] > Lease \/ age[w] > Lease

(* When drains finish within the lease, every copy of a row beyond the     *)
(* first is paid for by a crash, a lost acknowledgement or a database      *)
(* error: replicas alone never duplicate an event.                         *)
DuplicatesArePaidFor ==
    MaxDrain <= Lease => \A r \in Row : copies[r] <= 1 + losses

(* Settling a row is final: no later step of any replica, crashed and      *)
(* restarted or not, changes its outcome or claims it again.               *)
SettledIsFinal ==
    [][/\ processed \subseteq processed'
       /\ failed \subseteq failed'
       /\ \A r \in processed \union failed : claim'[r] = None]_vars

-----------------------------------------------------------------------------
(* The drainer implements the delivery contract                            *)

outcome ==
    [r \in Row |-> IF r \in processed THEN "published"
                   ELSE IF r \in failed THEN "quarantined"
                   ELSE IF r \in committed THEN "pending" ELSE "absent"]

(* r is ahead of q when every drain reaches r before q. *)
Ahead(r, q) ==
    \/ SourceOf[r] < SourceOf[q]
    \/ SourceOf[r] = SourceOf[q] /\ r < q

(* Rows behind one the bus never accepts have no promise: its failed send  *)
(* aborts the drain every time.                                            *)
Unblocked == {r \in Row : \A q \in Rejected : Ahead(r, q)}

Contract == INSTANCE OutboxDelivery WITH Promised <- Unblocked

(* Every step of the replicas is a step of the delivery contract or        *)
(* invisible to it.                                                        *)
ImplementsDelivery == Contract!SafetySpec

(* With the drainer's fairness, the contract's liveness holds as well:     *)
(* every row ahead of the rows the bus never accepts is settled in the     *)
(* end, through crashes, refused sends and abandoned claims.               *)
ImplementsDeliveryLive == Contract!Fairness
=============================================================================
