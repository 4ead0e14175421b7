-------------------------- MODULE PermissionGrants --------------------------
(***************************************************************************)
(* Check, grant and revoke of PermissionsService                           *)
(* (pillars/permissions/src/permissions.service.ts) over the OpenFGA       *)
(* store.  A check of a one-time grant is four requests to OpenFGA: the    *)
(* action tuple, the marker, delete the marker, delete the action tuple.   *)
(* Grants and revocations are one request each.  Calls of different        *)
(* replicas, and of one replica, interleave between requests; a request    *)
(* may fail, or take effect although its reply is lost; a replica may die  *)
(* between two requests.                                                   *)
(***************************************************************************)
EXTENDS Naturals, FiniteSets, OpenFgaStore

CONSTANTS
    Caller,      \* checks in flight
    Key,         \* coordinates: a subject, an action and a resource
    ByRole,      \* coordinates the subject also holds through a role
    MaxIssued,   \* bound on the one-time grants of a coordinate
    MaxAllowed,  \* bound: MaxAllowed allowed checks stand for "or more"
    MaxFaults    \* bound on failed requests and crashes

ASSUME GrantAssumption ==
    /\ ByRole \subseteq Key
    /\ MaxIssued \in Nat
    /\ MaxAllowed \in Nat
    /\ MaxFaults \in Nat

VARIABLES
    tuples,      \* tuples in the store
    lapsed,      \* coordinates whose action tuple has passed its expiry_time
    pc,          \* the request each check makes next
    target,      \* the coordinate each check is about
    faults,      \* failed requests and crashes so far
    \* history
    origin,      \* grant type that wrote the coordinate's action tuple
    written,     \* grant types ever written for the coordinate
    issued,      \* one-time grants written
    consumed,    \* one-time markers claimed by a check that answers "allowed"
    allowed,     \* checks answered "allowed", up to MaxAllowed
    revoked      \* coordinates whose revocation was answered since their last grant

store == <<tuples, lapsed, origin>>
calls == <<pc, target>>
history == <<written, issued, consumed, allowed, revoked>>
vars == <<store, calls, faults, history>>

Place == {"idle", "check", "marker", "consume", "cleanup"}

Tuple == {ActionTuple(k) : k \in Key} \union {Marker(k) : k \in Key}

TypeOK ==
    /\ tuples \in SUBSET Tuple
    /\ lapsed \in SUBSET Key
    /\ pc \in [Caller -> Place]
    /\ target \in [Caller -> Key]
    /\ faults \in 0..MaxFaults
    /\ origin \in [Key -> GrantType \union {"none"}]
    /\ written \in [Key -> SUBSET GrantType]
    /\ issued \in [Key -> 0..MaxIssued]
    /\ consumed \in [Key -> 0..MaxIssued]
    /\ allowed \in [Key -> 0..MaxAllowed]
    /\ revoked \in SUBSET Key

Init ==
    /\ tuples = {}
    /\ lapsed = {}
    /\ pc = [c \in Caller |-> "idle"]
    /\ target \in [Caller -> Key]
    /\ faults = 0
    /\ origin = [k \in Key |-> "none"]
    /\ written = [k \in Key |-> {}]
    /\ issued = [k \in Key |-> 0]
    /\ consumed = [k \in Key |-> 0]
    /\ allowed = [k \in Key |-> 0]
    /\ revoked = {}

-----------------------------------------------------------------------------
(* One Write request.                                                      *)

Write(writes, deletes) ==
    /\ Accepts(tuples, writes, deletes)
    /\ tuples' = Applied(tuples, writes, deletes)

Fault == faults < MaxFaults /\ faults' = faults + 1

Goto(c, place) == pc' = [pc EXCEPT ![c] = place]

-----------------------------------------------------------------------------
(* PermissionsService.grant and revoke, called by AccessRequestService.    *)

(* The write is refused as a whole when the action tuple exists, even one  *)
(* whose condition has expired.  A lost reply changes only what the caller *)
(* is told.                                                                *)
Grant(k, type) ==
    /\ type = "one_time" => issued[k] < MaxIssued
    /\ Write(TuplesOf(k, type), {})
    /\ origin' = [origin EXCEPT ![k] = type]
    /\ written' = [written EXCEPT ![k] = @ \union {type}]
    /\ issued' = [issued EXCEPT ![k] = IF type = "one_time" THEN @ + 1 ELSE @]
    /\ lapsed' = lapsed \ {k}
    /\ revoked' = revoked \ {k}
    /\ UNCHANGED <<calls, faults, consumed, allowed>>

(* A temporary grant's expiry_time passes. *)
Expire(k) ==
    /\ ActionTuple(k) \in tuples
    /\ origin[k] = "temporary"
    /\ k \notin lapsed
    /\ lapsed' = lapsed \union {k}
    /\ UNCHANGED <<tuples, origin, calls, faults, history>>

(* revoke deletes both tuples in one request.  Refused (revoked: false,    *)
(* nothing deleted) unless both are present.                               *)
Revoke(k) ==
    /\ \/ /\ Write({}, {ActionTuple(k), Marker(k)})
          /\ origin' = [origin EXCEPT ![k] = "none"]
          /\ lapsed' = lapsed \ {k}
       \/ /\ ~Accepts(tuples, {}, {ActionTuple(k), Marker(k)})
          /\ UNCHANGED store
    /\ revoked' = revoked \union {k}
    /\ UNCHANGED <<calls, faults, written, issued, consumed, allowed>>

-----------------------------------------------------------------------------
(* POST /permissions/check                                                 *)

Permitted(k) ==
    k \in ByRole \/ (ActionTuple(k) \in tuples /\ k \notin lapsed)

Allow(k) ==
    allowed' = [allowed EXCEPT ![k] = IF @ < MaxAllowed THEN @ + 1 ELSE @]

StartCheck(c, k) ==
    /\ pc[c] = "idle"
    /\ target' = [target EXCEPT ![c] = k]
    /\ Goto(c, "check")
    /\ UNCHANGED <<store, faults, history>>

(* openFgaCheck on the action itself. *)
CheckAction(c) ==
    /\ pc[c] = "check"
    /\ Goto(c, IF Permitted(target[c]) THEN "marker" ELSE "idle")
    /\ UNCHANGED <<store, target, faults, history>>

(* No marker: the grant is taken for a permanent or temporary one. *)
CheckMarker(c) ==
    /\ pc[c] = "marker"
    /\ \/ /\ Marker(target[c]) \in tuples
          /\ Goto(c, "consume")
          /\ UNCHANGED allowed
       \/ /\ Marker(target[c]) \notin tuples
          /\ Goto(c, "idle")
          /\ Allow(target[c])
    /\ UNCHANGED <<store, target, faults, written, issued, consumed, revoked>>

(* Faulty variants: the outcome of the deletion is ignored; the clean-up   *)
(* runs although the marker was not ours.                                  *)
Consume_Unchecked(c) ==
    /\ pc[c] = "consume"
    /\ tuples' = tuples \ {Marker(target[c])}
    /\ consumed' = [consumed EXCEPT ![target[c]] = @ + 1]
    /\ Goto(c, "cleanup")
    /\ UNCHANGED <<lapsed, origin, target, faults, written, issued, allowed, revoked>>

Consume_AlwaysCleansUp(c) ==
    /\ pc[c] = "consume"
    /\ tuples' = tuples \ {Marker(target[c])}
    /\ Goto(c, "cleanup")
    /\ UNCHANGED <<lapsed, origin, target, faults, history>>

(* Delete the marker first: whoever fails to delete it is denied. *)
Consume(c) ==
    /\ pc[c] = "consume"
    /\ \/ /\ Write({}, {Marker(target[c])})
          /\ consumed' = [consumed EXCEPT ![target[c]] = @ + 1]
          /\ Goto(c, "cleanup")
       \/ /\ ~Accepts(tuples, {}, {Marker(target[c])})
          /\ Goto(c, "idle")
          /\ UNCHANGED <<tuples, consumed>>
    /\ UNCHANGED <<lapsed, origin, target, faults, written, issued, allowed, revoked>>

(* Faulty variant: no clean-up. *)
Cleanup_Skipped(c) ==
    /\ pc[c] = "cleanup"
    /\ Goto(c, "idle")
    /\ Allow(target[c])
    /\ UNCHANGED <<store, target, faults, written, issued, consumed, revoked>>

(* Best effort: the response is "allowed" whatever OpenFGA answers. *)
Cleanup(c) ==
    /\ pc[c] = "cleanup"
    /\ \/ /\ Write({}, {ActionTuple(target[c])})
          /\ origin' = [origin EXCEPT ![target[c]] = "none"]
          /\ lapsed' = lapsed \ {target[c]}
       \/ /\ ~Accepts(tuples, {}, {ActionTuple(target[c])})
          /\ UNCHANGED <<tuples, origin, lapsed>>
    /\ Goto(c, "idle")
    /\ Allow(target[c])
    /\ UNCHANGED <<target, faults, written, issued, consumed, revoked>>

-----------------------------------------------------------------------------
(* Faults                                                                  *)

(* A request gets no answer or the replica dies: the check answers denied, *)
(* or never.                                                               *)
Abandon(c) ==
    /\ pc[c] # "idle"
    /\ Fault
    /\ Goto(c, "idle")
    /\ UNCHANGED <<store, target, history>>

(* The marker is deleted, but the reply is lost and the check denied. *)
ConsumeUnacknowledged(c) ==
    /\ pc[c] = "consume"
    /\ Fault
    /\ Write({}, {Marker(target[c])})
    /\ Goto(c, "idle")
    /\ UNCHANGED <<lapsed, origin, target, history>>

(* OpenFGA answers the clean-up with an error: openFgaWrite returns false  *)
(* and the check is allowed all the same.                                  *)
CleanupRefused(c) ==
    /\ pc[c] = "cleanup"
    /\ Fault
    /\ Goto(c, "idle")
    /\ Allow(target[c])
    /\ UNCHANGED <<store, target, written, issued, consumed, revoked>>

-----------------------------------------------------------------------------
Next ==
    \/ \E k \in Key : Expire(k) \/ Revoke(k) \/ \E type \in GrantType : Grant(k, type)
    \/ \E c \in Caller :
         \/ \E k \in Key : StartCheck(c, k)
         \/ CheckAction(c) \/ CheckMarker(c) \/ Consume(c) \/ Cleanup(c)
         \/ Abandon(c) \/ ConsumeUnacknowledged(c) \/ CleanupRefused(c)

Spec == Init /\ [][Next]_vars

-----------------------------------------------------------------------------
(* Properties                                                              *)

(* However many checks race for it, a one-time marker is claimed by at     *)
(* most one of them, lost replies and crashes included.                    *)
ConsumedAtMostOnce == \A k \in Key : consumed[k] <= issued[k]

(* The clean-up after a claimed marker only ever deletes the tuple its own *)
(* one-time grant wrote, never a permanent or temporary grant that came in *)
(* between; two clean-ups of one coordinate never overlap.                 *)
CleanupSparesOthers ==
    \A c \in Caller : pc[c] = "cleanup" =>
        /\ origin[target[c]] \notin {"permanent", "temporary"}
        /\ \A d \in Caller : pc[d] = "cleanup" /\ target[d] = target[c] => d = c

(* What is left of a one-time grant whose marker is gone, and that no      *)
(* check is cleaning up: an action tuple that allows every later check.    *)
Residue ==
    {k \in Key : /\ ActionTuple(k) \in tuples /\ origin[k] = "one_time" /\ Marker(k) \notin tuples
                 /\ \A c \in Caller : ~(pc[c] = "cleanup" /\ target[c] = k)}

(* The clean-up is best effort, and what escapes it is bounded: each       *)
(* failed or unanswered request, or crash, leaves at most one one-time     *)
(* grant behind, and races alone leave none.  A marker never outlives the  *)
(* grant it was written with.                                              *)
ResidueIsPaidFor ==
    /\ Cardinality(Residue) <= faults
    /\ \A k \in Key : Marker(k) \in tuples => ActionTuple(k) \in tuples /\ origin[k] = "one_time"

(* Through races, lost replies, failed requests and crashes, the tuples of *)
(* every coordinate go only through the life of a grant: a claim is of a   *)
(* one-time grant that stands, and what a clean-up or a revocation removes *)
(* is that grant and never a permanent or temporary one.                   *)
Lifecycle ==
    INSTANCE GrantLifecycle
        WITH standing <- [k \in Key |-> Standing(tuples, k, origin[k])]

ImplementsLifecycle == Lifecycle!Spec

(* What pillars/permissions/README.md promises of one-time grants: the     *)
(* first successful check uses the grant up.  A coordinate that only ever  *)
(* had one-time grants is allowed at most once per grant.                  *)
OneTimeSingleUse ==
    \A k \in Key \ ByRole :
        faults = 0 /\ k \notin revoked /\ written[k] \subseteq {"one_time"} =>
            allowed[k] <= issued[k]
=============================================================================
