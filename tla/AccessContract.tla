--------------------------- MODULE AccessContract ---------------------------
(***************************************************************************)
(* What the access request workflow promises, without calls, claims,       *)
(* compensations or faults: a request is decided once, by one person; it   *)
(* is approved only when its own grant was given, and a grant goes only    *)
(* when a check has used it or a failed approval of its coordinate takes   *)
(* it back.  The grants live as GrantLifecycle says.                       *)
(* AccessRequests is shown to implement this module.                       *)
(***************************************************************************)
EXTENDS GrantLifecycle

CONSTANTS Request, Approver, None

VARIABLES
    holder,      \* of each coordinate: the request its grant was given for
    decision,    \* of each request
    decidedBy,   \* who approved or denied it
    about,       \* its coordinate
    used,        \* requests whose one-time grant a check has used
    withdrawn    \* coordinates on which a compensation took a grant back

grants == <<standing, holder, used, withdrawn>>
requests == <<decision, decidedBy, about>>

Begin ==
    /\ NoGrants
    /\ holder = [k \in Key |-> None]
    /\ decision = [r \in Request |-> "absent"]
    /\ decidedBy = [r \in Request |-> None]
    /\ about = [r \in Request |-> None]
    /\ used = {} /\ withdrawn = {}

Ask(r, k) ==
    /\ decision[r] = "absent"
    /\ decision' = [decision EXCEPT ![r] = "pending"]
    /\ about' = [about EXCEPT ![r] = k]
    /\ UNCHANGED <<grants, decidedBy>>

Decide(r, outcome, who) ==
    /\ decision[r] = "pending"
    /\ decision' = [decision EXCEPT ![r] = outcome]
    /\ decidedBy' = [decidedBy EXCEPT ![r] = who]
    /\ UNCHANGED <<grants, about>>

Deny(r, a) == Decide(r, "denied", a)
Lapse(r) == Decide(r, "expired", None)

(* Its grant stands, or was used or taken before the approval finished. *)
Approve(r, a) ==
    /\ decision[r] = "pending"
    /\ r \in used \/ about[r] \in withdrawn \/ holder[about[r]] = r
    /\ Decide(r, "approved", a)

(* A grant is given only for a request still to be decided. *)
GiveFor(r) ==
    /\ decision[r] = "pending"
    /\ Give(about[r])
    /\ holder' = [holder EXCEPT ![about[r]] = r]
    /\ UNCHANGED <<requests, used, withdrawn>>

Withdraw(k) ==
    /\ Take(k)
    /\ holder' = [holder EXCEPT ![k] = None]
    /\ withdrawn' = withdrawn \union {k}
    /\ UNCHANGED <<requests, used>>

Use(k) ==
    /\ Claim(k)
    /\ used' = used \union {holder[k]}
    /\ UNCHANGED <<requests, holder, withdrawn>>

Finish(k) ==
    /\ Clear(k)
    /\ holder' = [holder EXCEPT ![k] = None]
    /\ UNCHANGED <<requests, used, withdrawn>>

Step ==
    \/ \E r \in Request :
         \/ \E k \in Key : Ask(r, k)
         \/ \E a \in Approver : Deny(r, a) \/ Approve(r, a)
         \/ Lapse(r) \/ GiveFor(r)
    \/ \E k \in Key : Withdraw(k) \/ Use(k) \/ Finish(k)

Kept == Begin /\ [][Step]_<<grants, requests>>
=============================================================================
