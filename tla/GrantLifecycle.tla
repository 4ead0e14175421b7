--------------------------- MODULE GrantLifecycle ---------------------------
(***************************************************************************)
(* What the tuples of a coordinate promise, without requests, markers,     *)
(* calls or faults: a grant is given only where none stands; a one-time    *)
(* grant is either taken back unused or claimed once and then cleared      *)
(* away; and a permanent or temporary grant is never removed, since        *)
(* PermissionsService.revoke asks for the marker as well.                  *)
(* PermissionGrants, and AccessRequests through AccessContract, are shown  *)
(* to implement this module.                                               *)
(***************************************************************************)

CONSTANT Key         \* coordinates: a subject, an action and a resource

VARIABLE standing    \* of each coordinate: what grant it has

GrantState == {"none", "durable", "one_time", "claimed"}

Move(k, from, to) ==
    /\ standing[k] = from
    /\ standing' = [standing EXCEPT ![k] = to]

Give(k) == Move(k, "none", "durable") \/ Move(k, "none", "one_time")

(* Revoked before any check has used it. *)
Take(k) == Move(k, "one_time", "none")

(* A check uses it.  The clean-up may never come. *)
Claim(k) == Move(k, "one_time", "claimed")

Clear(k) == Move(k, "claimed", "none")

NoGrants == standing = [k \in Key |-> "none"]

Spec ==
    NoGrants /\ [][\E k \in Key : Give(k) \/ Take(k) \/ Claim(k) \/ Clear(k)]_standing
=============================================================================
