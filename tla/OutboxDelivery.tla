-------------------------- MODULE OutboxDelivery ---------------------------
(***************************************************************************)
(* What the transactional outbox promises, without workers, claims or      *)
(* leases: an event committed with its business row is delivered to the    *)
(* pillar's topic at least once before it counts as published, and only an *)
(* event whose payload does not parse is set aside.  OutboxDrainer is      *)
(* shown to implement this module.                                         *)
(***************************************************************************)
EXTENDS Naturals

CONSTANTS
    Row,         \* outbox rows
    Malformed,   \* rows whose payload is not JSON
    Promised,    \* rows that are settled in the end
    MaxCopies    \* bound: MaxCopies copies on the topic stand for "or more"

VARIABLES
    outcome,     \* what the platform believes about each row
    copies       \* messages for the row accepted by the topic

vars == <<outcome, copies>>

Outcome == {"absent", "pending", "published", "quarantined"}

TypeOK ==
    /\ outcome \in [Row -> Outcome]
    /\ copies \in [Row -> 0..MaxCopies]

Init ==
    /\ outcome = [r \in Row |-> "absent"]
    /\ copies = [r \in Row |-> 0]

(* A business transaction commits its event. *)
Commit(r) ==
    /\ outcome[r] = "absent"
    /\ outcome' = [outcome EXCEPT ![r] = "pending"]
    /\ UNCHANGED copies

(* The topic accepts a message.  A copy may still arrive after the row was *)
(* published: this is what "at least once" costs.                          *)
Deliver(r) ==
    /\ outcome[r] \in {"pending", "published"}
    /\ r \notin Malformed
    /\ copies' = [copies EXCEPT ![r] = IF @ < MaxCopies THEN @ + 1 ELSE @]
    /\ UNCHANGED outcome

(* A row counts as published only when a copy is on the topic. *)
Publish(r) ==
    /\ outcome[r] = "pending"
    /\ copies[r] > 0
    /\ outcome' = [outcome EXCEPT ![r] = "published"]
    /\ UNCHANGED copies

(* Only a row that never reached the topic, and never can, is set aside. *)
Quarantine(r) ==
    /\ outcome[r] = "pending"
    /\ r \in Malformed
    /\ outcome' = [outcome EXCEPT ![r] = "quarantined"]
    /\ UNCHANGED copies

Next == \E r \in Row : Commit(r) \/ Deliver(r) \/ Publish(r) \/ Quarantine(r)

SafetySpec == Init /\ [][Next]_vars

FirstDelivery(r) == copies[r] = 0 /\ Deliver(r)

Fairness ==
    \A r \in Promised :
        WF_vars(FirstDelivery(r)) /\ WF_vars(Publish(r)) /\ WF_vars(Quarantine(r))

Spec == SafetySpec /\ Fairness
=============================================================================
