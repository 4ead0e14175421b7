---------------------------- MODULE OpenFgaStore ----------------------------
(***************************************************************************)
(* The part of OpenFGA the platform relies on: a set of relationship       *)
(* tuples, changed by Write requests that are all or nothing.  A request   *)
(* that writes a tuple already present, or deletes one that is absent, is  *)
(* refused as a whole; PermissionsService counts on this when it lets the  *)
(* loser of a marker deletion be denied, and when setTenantRole checks     *)
(* after a refused write.  Also the tuples PermissionsService writes for a *)
(* grant of a coordinate (a subject, an action and a resource).            *)
(***************************************************************************)

Accepts(tuples, writes, deletes) ==
    writes \intersect tuples = {} /\ deletes \subseteq tuples

Applied(tuples, writes, deletes) == (tuples \ deletes) \union writes

GrantType == {"permanent", "temporary", "one_time"}

ActionTuple(k) == <<"action", k>>
Marker(k) == <<"one_time_pending", k>>

TuplesOf(k, type) ==
    {ActionTuple(k)} \union (IF type = "one_time" THEN {Marker(k)} ELSE {})

(* The grant a coordinate has, given the type its action tuple was written *)
(* with: what GrantLifecycle calls its standing.                           *)
Standing(tuples, k, type) ==
    CASE ActionTuple(k) \notin tuples -> "none"
      [] ActionTuple(k) \in tuples /\ type # "one_time" -> "durable"
      [] ActionTuple(k) \in tuples /\ type = "one_time" /\ Marker(k) \in tuples -> "one_time"
      [] OTHER -> "claimed"
=============================================================================
