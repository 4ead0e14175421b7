----------------------- MODULE PermissionGrantsProofs -----------------------
(***************************************************************************)
(* Proofs about PermissionGrants for any number of checks, coordinates,    *)
(* grants and faults.                                                      *)
(***************************************************************************)
EXTENDS PermissionGrants, FiniteSetTheorems, TLAPS

(* A marker never stands without the one-time action tuple it was written  *)
(* with; and while a check cleans up, that tuple is still there, so nobody *)
(* can have written the coordinate anew.                                   *)
StoreInv ==
    /\ \A k \in Key : Marker(k) \in tuples =>
         origin[k] = "one_time" /\ ActionTuple(k) \in tuples
    /\ \A c \in Caller : pc[c] = "cleanup" =>
         /\ origin[target[c]] = "one_time"
         /\ ActionTuple(target[c]) \in tuples
         /\ Marker(target[c]) \notin tuples

(* A marker still in the store has not been consumed. *)
CountInv ==
    \A k \in Key :
        IF Marker(k) \in tuples THEN consumed[k] < issued[k] ELSE consumed[k] <= issued[k]

ResidueInv == IsFiniteSet(Residue) /\ Cardinality(Residue) <= faults

Inv == TypeOK /\ StoreInv /\ CountInv /\ ResidueInv /\ CleanupSparesOthers

USE GrantAssumption

LEMMA TupleNames ==
  ASSUME NEW j \in Key, NEW k \in Key
  PROVE  /\ ActionTuple(k) \in Tuple /\ Marker(k) \in Tuple
         /\ ActionTuple(k) # Marker(j)
         /\ ActionTuple(k) = ActionTuple(j) <=> k = j
         /\ Marker(k) = Marker(j) <=> k = j
  BY DEF ActionTuple, Marker, Tuple

(* The residue may shrink at any time, and grow by one with each fault. *)
LEMMA ResidueShrinks ==
  ASSUME ResidueInv, faults \in Nat, faults' \in Nat, faults' >= faults, Residue' \subseteq Residue
  PROVE  ResidueInv'
<1>1. IsFiniteSet(Residue') /\ Cardinality(Residue') <= Cardinality(Residue)
  BY FS_Subset DEF ResidueInv
<1>2. Cardinality(Residue) \in Nat /\ Cardinality(Residue') \in Nat
  BY <1>1, FS_CardinalityType DEF ResidueInv
<1> QED
  BY <1>1, <1>2 DEF ResidueInv

LEMMA ResidueGrows ==
  ASSUME ResidueInv, faults \in Nat, faults' = faults + 1, NEW k, Residue' \subseteq Residue \union {k}
  PROVE  ResidueInv'
<1>1. IsFiniteSet(Residue \union {k}) /\ Cardinality(Residue \union {k}) <= Cardinality(Residue) + 1
  <2>1. IsFiniteSet(Residue) /\ Cardinality(Residue) \in Nat
    BY FS_CardinalityType DEF ResidueInv
  <2>2. /\ IsFiniteSet(Residue \union {k})
        /\ Cardinality(Residue \union {k}) = IF k \in Residue THEN Cardinality(Residue) ELSE Cardinality(Residue) + 1
    BY <2>1, FS_AddElement, Zenon
  <2> QED
    BY <2>1, <2>2
<1>2. IsFiniteSet(Residue') /\ Cardinality(Residue') <= Cardinality(Residue \union {k})
  BY <1>1, FS_Subset
<1>3. Cardinality(Residue) \in Nat /\ Cardinality(Residue') \in Nat /\ Cardinality(Residue \union {k}) \in Nat
  BY <1>1, <1>2, FS_CardinalityType DEF ResidueInv
<1> QED
  BY <1>1, <1>2, <1>3 DEF ResidueInv

LEMMA InvInit == Init => Inv
<1> SUFFICES ASSUME Init PROVE Inv
  OBVIOUS
<1>1. Residue = {}
  BY DEF Init, Residue
<1>2. ResidueInv
  BY <1>1, FS_EmptySet DEF Init, ResidueInv
<1> QED
  BY <1>2 DEF Init, Inv, TypeOK, StoreInv, CountInv, CleanupSparesOthers, Place

(* Steps that leave the store alone and move no check in or out of         *)
(* clean-up.                                                               *)
LEMMA QuietStep ==
  ASSUME Inv, TypeOK', UNCHANGED <<tuples, origin, issued, consumed>>, faults' >= faults,
         \A c \in Caller : pc[c] = "cleanup" <=> pc'[c] = "cleanup",
         \A c \in Caller : pc[c] = "cleanup" => target'[c] = target[c]
  PROVE  Inv'
<1>1. Residue' = Residue
  BY DEF Residue
<1>2. ResidueInv'
  BY <1>1, ResidueShrinks DEF Inv, TypeOK
<1> QED
  BY <1>2 DEF Inv, TypeOK, StoreInv, CountInv, CleanupSparesOthers

LEMMA InvStep == Inv /\ [Next]_vars => Inv'
<1> SUFFICES ASSUME Inv, [Next]_vars PROVE Inv'
  OBVIOUS
<1>t. TypeOK
  BY DEF Inv
<1> USE DEF Write, Accepts, Applied, Goto, Fault, Allow
<1>1. ASSUME NEW k \in Key, Expire(k) PROVE Inv'
  <2>1. TypeOK'
    BY <1>1, <1>t DEF TypeOK, Expire, calls, history
  <2> QED
    BY <1>1, <1>t, <2>1, QuietStep DEF Expire, calls, history, TypeOK
<1>2. ASSUME NEW k \in Key, NEW type \in GrantType, Grant(k, type) PROVE Inv'
  <2>1. TuplesOf(k, type) \subseteq Tuple /\ ActionTuple(k) \in TuplesOf(k, type)
        /\ \A j \in Key : /\ ActionTuple(j) \in TuplesOf(k, type) => j = k
                          /\ Marker(j) \in TuplesOf(k, type) => j = k /\ type = "one_time"
    BY TupleNames DEF TuplesOf
  <2>2. TypeOK'
    <3>1. tuples' \in SUBSET Tuple
      BY <1>2, <1>t, <2>1 DEF TypeOK, Grant
    <3>2. issued' \in [Key -> 0..MaxIssued]
      BY <1>2, <1>t DEF TypeOK, Grant
    <3>3. origin' \in [Key -> GrantType \union {"none"}] /\ written' \in [Key -> SUBSET GrantType]
      BY <1>2, <1>t DEF TypeOK, Grant
    <3>4. /\ lapsed' = lapsed \ {k} /\ revoked' = revoked \ {k}
          /\ UNCHANGED <<pc, target, faults, consumed, allowed>>
      BY <1>2 DEF Grant, calls
    <3> QED
      BY <1>t, <3>1, <3>2, <3>3, <3>4 DEF TypeOK
  <2>3. ActionTuple(k) \notin tuples /\ Marker(k) \notin tuples
    BY <1>2, <2>1 DEF Grant, Inv, StoreInv
  <2>4. \A c \in Caller : pc[c] = "cleanup" => target[c] # k
    BY <2>3 DEF Inv, StoreInv
  <2>5. /\ tuples' = tuples \union TuplesOf(k, type)
        /\ type = "one_time" <=> Marker(k) \in TuplesOf(k, type)
        /\ UNCHANGED <<pc, target, faults, consumed>>
        /\ origin' = [origin EXCEPT ![k] = type]
        /\ issued' = [issued EXCEPT ![k] = IF type = "one_time" THEN @ + 1 ELSE @]
    BY <1>2, TupleNames DEF Grant, TuplesOf, calls
  <2>6. StoreInv'
    <3>1. ASSUME NEW j \in Key, Marker(j) \in tuples'
          PROVE  origin'[j] = "one_time" /\ ActionTuple(j) \in tuples'
      BY <1>t, <2>1, <2>3, <2>5, <3>1 DEF Inv, StoreInv, TypeOK
    <3>2. ASSUME NEW c \in Caller, pc[c] = "cleanup"
          PROVE  /\ origin'[target[c]] = "one_time"
                 /\ ActionTuple(target[c]) \in tuples'
                 /\ Marker(target[c]) \notin tuples'
      BY <1>t, <2>1, <2>4, <2>5, <3>2 DEF Inv, StoreInv, TypeOK
    <3> QED
      BY <2>5, <3>1, <3>2 DEF StoreInv, ActionTuple, Marker
  <2>7. CountInv'
    BY <1>t, <2>1, <2>3, <2>5 DEF Inv, CountInv, TypeOK
  <2>8. ResidueInv'
    <3>1. Residue' \subseteq Residue
      BY <1>t, <2>1, <2>4, <2>5 DEF Residue, TypeOK
    <3> QED
      BY <2>5, <3>1, ResidueShrinks DEF Inv, TypeOK
  <2>9. CleanupSparesOthers'
    BY <1>t, <2>4, <2>5 DEF Inv, CleanupSparesOthers, TypeOK
  <2> QED
    BY <2>2, <2>6, <2>7, <2>8, <2>9 DEF Inv
<1>3. ASSUME NEW k \in Key, Revoke(k) PROVE Inv'
  <2>1. TypeOK'
    BY <1>3, <1>t DEF TypeOK, Revoke, store, calls
  <2>2. CASE UNCHANGED store
    BY <1>3, <1>t, <2>1, <2>2, QuietStep DEF Revoke, store, calls, TypeOK
  <2>3. CASE Write({}, {ActionTuple(k), Marker(k)}) /\ origin' = [origin EXCEPT ![k] = "none"]
    <3>1. Marker(k) \in tuples /\ tuples' = tuples \ {ActionTuple(k), Marker(k)}
          /\ UNCHANGED <<pc, target, faults, issued, consumed>>
      BY <1>3, <2>3 DEF Revoke, calls
    <3>2. \A c \in Caller : pc[c] = "cleanup" => target[c] # k
      BY <3>1 DEF Inv, StoreInv
    <3>3. StoreInv' /\ CountInv'
      BY <1>t, <2>3, <3>1, <3>2, TupleNames DEF Inv, StoreInv, CountInv, TypeOK
    <3>4. Residue' \subseteq Residue /\ CleanupSparesOthers'
      BY <1>t, <2>3, <3>1, <3>2, TupleNames DEF Inv, Residue, CleanupSparesOthers, TypeOK
    <3>5. ResidueInv'
      BY <3>1, <3>4, ResidueShrinks DEF Inv, TypeOK
    <3> QED
      BY <2>1, <3>3, <3>4, <3>5 DEF Inv
  <2> QED
    BY <1>3, <2>2, <2>3 DEF Revoke
<1>4. ASSUME NEW c \in Caller, NEW k \in Key, StartCheck(c, k) PROVE Inv'
  <2>1. TypeOK'
    BY <1>4, <1>t DEF TypeOK, StartCheck, store, history, Place
  <2> QED
    BY <1>4, <1>t, <2>1, QuietStep DEF StartCheck, store, history, TypeOK
<1>5. ASSUME NEW c \in Caller, CheckAction(c) PROVE Inv'
  <2>1. TypeOK'
    BY <1>5, <1>t DEF TypeOK, CheckAction, store, history, Place
  <2> QED
    BY <1>5, <1>t, <2>1, QuietStep DEF CheckAction, store, history, TypeOK
<1>6. ASSUME NEW c \in Caller, CheckMarker(c) PROVE Inv'
  <2>1. TypeOK'
    BY <1>6, <1>t DEF TypeOK, CheckMarker, store, Place
  <2> QED
    BY <1>6, <1>t, <2>1, QuietStep DEF CheckMarker, store, TypeOK
<1>7. ASSUME NEW c \in Caller, Consume(c) PROVE Inv'
  <2>1. CASE Marker(target[c]) \notin tuples
    <3>1. Goto(c, "idle") /\ UNCHANGED <<tuples, origin, issued, consumed, target, faults,
                                         lapsed, written, allowed, revoked>>
      BY <1>7, <2>1 DEF Consume
    <3>2. TypeOK'
      BY <1>t, <3>1 DEF TypeOK, Place
    <3> QED
      BY <1>7, <1>t, <3>1, <3>2, QuietStep DEF Consume, TypeOK
  <2>2. CASE Marker(target[c]) \in tuples
    <3>1. /\ tuples' = tuples \ {Marker(target[c])}
          /\ consumed' = [consumed EXCEPT ![target[c]] = @ + 1]
          /\ pc' = [pc EXCEPT ![c] = "cleanup"]
          /\ UNCHANGED <<target, faults, origin, issued, lapsed, written, allowed, revoked>>
      BY <1>7, <2>2 DEF Consume
    <3>2. target[c] \in Key /\ consumed[target[c]] < issued[target[c]]
          /\ origin[target[c]] = "one_time" /\ ActionTuple(target[c]) \in tuples
      BY <1>t, <2>2 DEF Inv, CountInv, StoreInv, TypeOK
    <3>3. TypeOK'
      BY <1>t, <3>1, <3>2 DEF TypeOK, Place
    <3>4. \A d \in Caller : pc[d] = "cleanup" => target[d] # target[c]
      BY <2>2 DEF Inv, StoreInv
    <3>5. StoreInv' /\ CountInv'
      BY <1>t, <3>1, <3>2, TupleNames DEF Inv, StoreInv, CountInv, TypeOK
    <3>6. Residue' \subseteq Residue /\ CleanupSparesOthers'
      BY <1>t, <3>1, <3>2, <3>4, TupleNames DEF Inv, Residue, CleanupSparesOthers, TypeOK
    <3>7. ResidueInv'
      BY <3>1, <3>6, ResidueShrinks DEF Inv, TypeOK
    <3> QED
      BY <3>3, <3>5, <3>6, <3>7 DEF Inv
  <2> QED
    BY <2>1, <2>2
<1>8. ASSUME NEW c \in Caller, Cleanup(c) PROVE Inv'
  <2>1. pc[c] = "cleanup" /\ target[c] \in Key /\ ActionTuple(target[c]) \in tuples
    BY <1>8, <1>t DEF Cleanup, Inv, StoreInv, TypeOK
  <2>2. /\ tuples' = tuples \ {ActionTuple(target[c])}
        /\ origin' = [origin EXCEPT ![target[c]] = "none"]
        /\ pc' = [pc EXCEPT ![c] = "idle"]
        /\ UNCHANGED <<target, faults, issued, consumed>>
    BY <1>8, <2>1 DEF Cleanup
  <2>3. TypeOK'
    BY <1>8, <1>t, <2>1, <2>2 DEF Cleanup, TypeOK, Place
  <2>4. \A d \in Caller : pc'[d] = "cleanup" => pc[d] = "cleanup" /\ target[d] # target[c]
    BY <1>t, <2>1, <2>2 DEF Inv, CleanupSparesOthers, TypeOK
  <2>5. Marker(target[c]) \notin tuples
    BY <2>1 DEF Inv, StoreInv
  <2>6. StoreInv' /\ CountInv'
    BY <1>t, <2>1, <2>2, <2>4, <2>5, TupleNames DEF Inv, StoreInv, CountInv, TypeOK
  <2>7. Residue' \subseteq Residue /\ CleanupSparesOthers'
    BY <1>t, <2>1, <2>2, <2>4, TupleNames DEF Inv, Residue, CleanupSparesOthers, TypeOK
  <2>8. ResidueInv'
    BY <2>2, <2>7, ResidueShrinks DEF Inv, TypeOK
  <2> QED
    BY <2>3, <2>6, <2>7, <2>8 DEF Inv
(* Faults: the residue they leave is no longer anyone's to clean up. *)
<1>9. ASSUME NEW c \in Caller, Abandon(c) \/ CleanupRefused(c) PROVE Inv'
  <2>1. /\ pc' = [pc EXCEPT ![c] = "idle"]
        /\ faults' = faults + 1
        /\ UNCHANGED <<tuples, lapsed, origin, target, written, issued, consumed, revoked>>
    BY <1>9 DEF Abandon, CleanupRefused, store, history
  <2>2. TypeOK'
    BY <1>9, <1>t, <2>1 DEF Abandon, CleanupRefused, TypeOK, Place, history
  <2>3. Residue' \subseteq Residue \union {target[c]}
    BY <1>t, <2>1 DEF Residue, TypeOK
  <2>4. ResidueInv'
    BY <1>t, <2>1, <2>3, ResidueGrows DEF Inv, TypeOK
  <2> QED
    BY <1>t, <2>1, <2>2, <2>4
       DEF Inv, TypeOK, StoreInv, CountInv, CleanupSparesOthers
<1>10. ASSUME NEW c \in Caller, ConsumeUnacknowledged(c) PROVE Inv'
  <2>1. /\ Marker(target[c]) \in tuples /\ target[c] \in Key /\ pc[c] = "consume"
        /\ tuples' = tuples \ {Marker(target[c])}
        /\ pc' = [pc EXCEPT ![c] = "idle"]
        /\ faults' = faults + 1 /\ faults < MaxFaults
        /\ UNCHANGED <<lapsed, origin, target, history>>
    BY <1>10, <1>t DEF ConsumeUnacknowledged, TypeOK
  <2>2. TypeOK'
    BY <1>t, <2>1 DEF TypeOK, Place, history
  <2>3. Residue' \subseteq Residue \union {target[c]}
    BY <1>t, <2>1, TupleNames DEF Residue, TypeOK
  <2>4. StoreInv' /\ CountInv'
    BY <1>t, <2>1, TupleNames DEF Inv, StoreInv, CountInv, TypeOK, history
  <2>5. ResidueInv'
    BY <1>t, <2>1, <2>3, ResidueGrows DEF Inv, TypeOK
  <2>6. CleanupSparesOthers'
    BY <1>t, <2>1 DEF Inv, CleanupSparesOthers, TypeOK
  <2> QED
    BY <2>2, <2>4, <2>5, <2>6 DEF Inv
<1>11. CASE UNCHANGED vars
  BY <1>11 DEF Residue, vars, store, calls, history, Inv, TypeOK, StoreInv, CountInv, ResidueInv,
     CleanupSparesOthers
<1> QED
  BY <1>1, <1>2, <1>3, <1>4, <1>5, <1>6, <1>7, <1>8, <1>9, <1>10, <1>11 DEF Next

LEMMA InvAlways == Spec => []Inv
<1>1. Init => Inv
  BY InvInit
<1>2. Inv /\ [Next]_vars => Inv'
  BY InvStep
<1> QED
  BY <1>1, <1>2, PTL DEF Spec

(* The tuples, the checks and the counts stay in their types. *)
THEOREM TypeCorrect == Spec => []TypeOK
<1>1. Inv => TypeOK
  BY DEF Inv
<1> QED
  BY <1>1, InvAlways, PTL

(* A one-time marker is claimed by at most one check. *)
THEOREM ConsumeCorrect == Spec => []ConsumedAtMostOnce
<1>1. Inv => ConsumedAtMostOnce
  BY DEF Inv, TypeOK, CountInv, ConsumedAtMostOnce
<1> QED
  BY <1>1, InvAlways, PTL

(* A clean-up deletes only its own grant's tuple, and is alone. *)
THEOREM CleanupCorrect == Spec => []CleanupSparesOthers
<1>1. Inv => CleanupSparesOthers
  BY DEF Inv
<1> QED
  BY <1>1, InvAlways, PTL

(* Each fault leaves at most one one-time grant without its marker. *)
THEOREM ResidueCorrect == Spec => []ResidueIsPaidFor
<1>1. Inv => ResidueIsPaidFor
  BY DEF Inv, StoreInv, ResidueInv, ResidueIsPaidFor
<1> QED
  BY <1>1, InvAlways, PTL

-----------------------------------------------------------------------------
(* The life of a grant                                                     *)

Stand(k) == Standing(tuples, k, origin[k])

(* A step that concerns one coordinate's tuples only. *)
LEMMA OneMoves ==
  ASSUME NEW k \in Key,
         \A j \in Key : j # k =>
            /\ origin'[j] = origin[j]
            /\ ActionTuple(j) \in tuples' <=> ActionTuple(j) \in tuples
            /\ Marker(j) \in tuples' <=> Marker(j) \in tuples
  PROVE  [j \in Key |-> Stand(j)]' = [[j \in Key |-> Stand(j)] EXCEPT ![k] = Stand(k)']
<1>1. \A j \in Key : j # k => Stand(j)' = Stand(j)
  BY DEF Stand, Standing
<1> QED
  BY <1>1

(* Every step moves one coordinate along the life of a grant, or none.     *)
LEMMA LifecycleStep ==
  Inv /\ [Next]_vars =>
    [\E k \in Key : Lifecycle!Give(k) \/ Lifecycle!Take(k) \/ Lifecycle!Claim(k) \/ Lifecycle!Clear(k)]_
      ([k \in Key |-> Stand(k)])
<1> DEFINE Moves == [\E k \in Key : Lifecycle!Give(k) \/ Lifecycle!Take(k) \/ Lifecycle!Claim(k)
                                      \/ Lifecycle!Clear(k)]_([k \in Key |-> Stand(k)])
<1> SUFFICES ASSUME Inv, [Next]_vars PROVE Moves
  OBVIOUS
<1>t. TypeOK /\ StoreInv
  BY DEF Inv
<1> USE DEF Write, Accepts, Applied
<1>1. CASE UNCHANGED <<tuples, origin>>
  BY <1>1 DEF Stand, Standing
<1>2. ASSUME NEW k \in Key, NEW from, NEW to, Stand(k) = from, Stand(k)' = to,
             [j \in Key |-> Stand(j)]' = [[j \in Key |-> Stand(j)] EXCEPT ![k] = Stand(k)']
      PROVE  Lifecycle!Move(k, from, to)
  BY <1>2 DEF Lifecycle!Move, Stand
<1>3. ASSUME NEW k \in Key, NEW type \in GrantType, Grant(k, type) PROVE Moves
  <2>1. /\ tuples' = tuples \union TuplesOf(k, type) /\ origin' = [origin EXCEPT ![k] = type]
        /\ ActionTuple(k) \notin tuples
        /\ \A j \in Key : ActionTuple(j) \in TuplesOf(k, type) <=> j = k
        /\ \A j \in Key : Marker(j) \in TuplesOf(k, type) <=> j = k /\ type = "one_time"
    BY <1>3, TupleNames DEF Grant, TuplesOf
  <2>2. [j \in Key |-> Stand(j)]' = [[j \in Key |-> Stand(j)] EXCEPT ![k] = Stand(k)']
    BY <1>t, <2>1, OneMoves DEF TypeOK
  <2>3. Stand(k) = "none" /\ Stand(k)' \in {"durable", "one_time"}
    BY <1>t, <2>1 DEF Stand, Standing, TypeOK
  <2>4. Lifecycle!Give(k)
    BY <1>2, <2>2, <2>3 DEF Lifecycle!Give
  <2> QED
    BY <2>4
<1>4. ASSUME NEW k \in Key, Revoke(k) PROVE Moves
  <2>1. CASE UNCHANGED store
    BY <1>1, <2>1 DEF store
  <2>2. CASE Write({}, {ActionTuple(k), Marker(k)}) /\ origin' = [origin EXCEPT ![k] = "none"]
    <3>1. /\ ActionTuple(k) \in tuples /\ Marker(k) \in tuples
          /\ tuples' = tuples \ {ActionTuple(k), Marker(k)}
      BY <2>2
    <3>2. [j \in Key |-> Stand(j)]' = [[j \in Key |-> Stand(j)] EXCEPT ![k] = Stand(k)']
      BY <1>t, <2>2, <3>1, TupleNames, OneMoves DEF TypeOK
    <3>3. Stand(k) = "one_time" /\ Stand(k)' = "none"
      BY <1>t, <3>1 DEF Stand, Standing, StoreInv
    <3>4. Lifecycle!Take(k)
      BY <1>2, <3>2, <3>3 DEF Lifecycle!Take
    <3> QED
      BY <3>4
  <2> QED
    BY <1>4, <2>1, <2>2 DEF Revoke
<1>5. ASSUME NEW c \in Caller, Consume(c) \/ ConsumeUnacknowledged(c) PROVE Moves
  <2>1. CASE UNCHANGED tuples
    BY <1>1, <1>5, <2>1 DEF Consume, ConsumeUnacknowledged
  <2>2. CASE Write({}, {Marker(target[c])})
    <3>1. PICK k \in Key : Marker(k) \in tuples /\ tuples' = tuples \ {Marker(k)} /\ UNCHANGED origin
      BY <1>5, <1>t, <2>2 DEF Consume, ConsumeUnacknowledged, TypeOK
    <3>2. [j \in Key |-> Stand(j)]' = [[j \in Key |-> Stand(j)] EXCEPT ![k] = Stand(k)']
      BY <3>1, TupleNames, OneMoves
    <3>3. Stand(k) = "one_time" /\ Stand(k)' = "claimed"
      BY <1>t, <3>1, TupleNames DEF Stand, Standing, StoreInv
    <3>4. Lifecycle!Claim(k)
      BY <1>2, <3>1, <3>2, <3>3 DEF Lifecycle!Claim
    <3> QED
      BY <3>4
  <2> QED
    BY <1>5, <2>1, <2>2 DEF Consume, ConsumeUnacknowledged
<1>6. ASSUME NEW c \in Caller, Cleanup(c) PROVE Moves
  <2>1. PICK k \in Key : /\ ActionTuple(k) \in tuples /\ Marker(k) \notin tuples
                         /\ origin[k] = "one_time"
                         /\ tuples' = tuples \ {ActionTuple(k)}
                         /\ origin' = [origin EXCEPT ![k] = "none"]
    BY <1>6, <1>t DEF Cleanup, StoreInv, TypeOK
  <2>2. [j \in Key |-> Stand(j)]' = [[j \in Key |-> Stand(j)] EXCEPT ![k] = Stand(k)']
    BY <1>t, <2>1, TupleNames, OneMoves DEF TypeOK
  <2>3. Stand(k) = "claimed" /\ Stand(k)' = "none"
    BY <2>1 DEF Stand, Standing
  <2>4. Lifecycle!Clear(k)
    BY <1>2, <2>2, <2>3 DEF Lifecycle!Clear
  <2> QED
    BY <2>4
<1> QED
  BY <1>1, <1>3, <1>4, <1>5, <1>6
     DEF Next, vars, store, history, Expire, StartCheck, CheckAction, CheckMarker, Abandon, CleanupRefused

(* The permission service implements the life of a grant. *)
THEOREM LifecycleRefinement == Spec => ImplementsLifecycle
<1>1. Init => Lifecycle!NoGrants
  BY DEF Init, Lifecycle!NoGrants, Standing
<1>2. Inv /\ [Next]_vars =>
        [\E k \in Key : Lifecycle!Give(k) \/ Lifecycle!Take(k) \/ Lifecycle!Claim(k) \/ Lifecycle!Clear(k)]_
          ([k \in Key |-> Standing(tuples, k, origin[k])])
  BY LifecycleStep DEF Stand
<1> QED
  BY <1>1, <1>2, InvAlways, PTL DEF Spec, ImplementsLifecycle, Lifecycle!Spec

-----------------------------------------------------------------------------
(* One use per grant, when checks of a coordinate do not overlap           *)

OneAtATime ==
    \A c, d \in Caller : pc[c] # "idle" /\ pc[d] # "idle" /\ target[c] = target[d] => c = d

SingleUse ==
    \A k \in Key \ ByRole :
        faults = 0 /\ written[k] \subseteq {"one_time"} => allowed[k] <= issued[k]

(* A grant whose marker stands, or that a check has found or claimed, has  *)
(* not been counted as allowed.                                            *)
Reserved(k) ==
    Marker(k) \in tuples \/ \E c \in Caller : pc[c] \in {"marker", "cleanup"} /\ target[c] = k

UseOf(k) ==
    faults = 0 /\ written[k] \subseteq {"one_time"} =>
        IF Reserved(k) THEN allowed[k] < issued[k] ELSE allowed[k] <= issued[k]

WrittenInv == \A k \in Key : ActionTuple(k) \in tuples => origin[k] \in written[k]

UseInv == \A k \in Key \ ByRole : UseOf(k)

LEMMA WrittenStep == Inv /\ WrittenInv /\ [Next]_vars => WrittenInv'
<1> SUFFICES ASSUME Inv, WrittenInv, [Next]_vars PROVE WrittenInv'
  OBVIOUS
<1>t. TypeOK
  BY DEF Inv
<1> USE DEF Write, Accepts, Applied, WrittenInv
<1>1. CASE UNCHANGED <<origin, written>> /\ tuples' \subseteq tuples
  BY <1>1
<1>2. ASSUME NEW k \in Key, NEW type \in GrantType, Grant(k, type) PROVE WrittenInv'
  <2>1. \A j \in Key : j # k => ActionTuple(j) \notin TuplesOf(k, type)
    BY TupleNames DEF TuplesOf
  <2>2. tuples' = tuples \union TuplesOf(k, type) /\ origin' = [origin EXCEPT ![k] = type]
        /\ written' = [written EXCEPT ![k] = @ \union {type}]
    BY <1>2 DEF Grant
  <2> QED
    BY <1>t, <2>1, <2>2 DEF TypeOK
<1>3. ASSUME NEW k \in Key, tuples' \subseteq tuples \ {ActionTuple(k)},
             origin' = [origin EXCEPT ![k] = "none"], UNCHANGED written
      PROVE  WrittenInv'
  BY <1>t, <1>3 DEF TypeOK
<1>4. ASSUME NEW k \in Key, Revoke(k) PROVE WrittenInv'
  BY <1>1, <1>3, <1>4 DEF Revoke, store
<1>5. ASSUME NEW c \in Caller, Cleanup(c) PROVE WrittenInv'
  BY <1>1, <1>3, <1>5, <1>t DEF Cleanup, TypeOK
<1>6. ASSUME NEW c \in Caller, Consume(c) \/ ConsumeUnacknowledged(c) PROVE WrittenInv'
  BY <1>1, <1>6 DEF Consume, ConsumeUnacknowledged, history
<1> QED
  BY <1>1, <1>2, <1>4, <1>5, <1>6
     DEF Next, vars, store, history, Expire, StartCheck, CheckAction, CheckMarker, Abandon, CleanupRefused

(* Steps that allow nothing and issue nothing.                             *)
LEMMA UseKept ==
  ASSUME TypeOK, NEW k \in Key, UseOf(k), allowed'[k] = allowed[k], issued'[k] = issued[k],
         faults' = 0 => faults = 0, written[k] \subseteq written'[k],
         Reserved(k)' => Reserved(k)
  PROVE  UseOf(k)'
<1>1. allowed[k] \in Nat /\ issued[k] \in Nat
  BY DEF TypeOK
<1> QED
  BY <1>1 DEF UseOf

(* The check that counts as allowed held the reservation, and was alone.   *)
LEMMA UseSpent ==
  ASSUME TypeOK, OneAtATime, NEW c \in Caller, NEW k \in Key, UseOf(k),
         pc[c] \in {"marker", "cleanup"}, Goto(c, "idle"), Allow(target[c]),
         Marker(k) \in tuples' => Marker(k) \in tuples,
         Marker(target[c]) \notin tuples,
         UNCHANGED <<target, issued, faults, written>>
  PROVE  UseOf(k)'
<1>1. \A d \in Caller : pc'[d] = IF d = c THEN "idle" ELSE pc[d]
  BY DEF Goto, TypeOK
<1>2. CASE k # target[c]
  <2>1. allowed'[k] = allowed[k]
    BY <1>2 DEF Allow, TypeOK
  <2>2. Reserved(k)' => Reserved(k)
    BY <1>1 DEF Reserved
  <2> QED
    BY <2>1, <2>2, UseKept
<1>3. CASE k = target[c]
  <2>1. Reserved(k)
    BY <1>3 DEF Reserved
  <2>2. ~Reserved(k)'
    BY <1>1, <1>3 DEF Reserved, OneAtATime
  <2>3. allowed'[k] \in {allowed[k], allowed[k] + 1} /\ allowed[k] \in Nat /\ issued[k] \in Nat
    BY <1>3 DEF Allow, TypeOK
  <2> QED
    BY <2>1, <2>2, <2>3 DEF UseOf
<1> QED
  BY <1>2, <1>3

LEMMA UseStep == Inv /\ WrittenInv /\ OneAtATime /\ UseInv /\ [Next]_vars => UseInv'
<1> SUFFICES ASSUME Inv, WrittenInv, OneAtATime, UseInv, [Next]_vars, NEW k \in Key \ ByRole
             PROVE  UseOf(k)'
  BY DEF UseInv
<1>t. TypeOK /\ StoreInv /\ ResidueInv /\ UseOf(k) /\ k \in Key /\ faults \in Nat
  BY DEF Inv, UseInv, TypeOK
<1> USE DEF Write, Accepts, Applied
<1>1. ASSUME UNCHANGED <<pc, target, written, issued, allowed, faults>>, tuples' \subseteq tuples
      PROVE  UseOf(k)'
  BY <1>1, <1>t, UseKept DEF Reserved
(* A check moves to another place and leaves the coordinate's counts.      *)
<1>2. ASSUME NEW c \in Caller, NEW p \in Place, Goto(c, p), target' = [target EXCEPT ![c] = target'[c]],
             UNCHANGED <<written, issued, allowed, faults>>, tuples' \subseteq tuples,
             p \in {"marker", "cleanup"} /\ target'[c] = k => Reserved(k)
      PROVE  UseOf(k)'
  <2>1. \A d \in Caller : d # c => pc'[d] = pc[d] /\ target'[d] = target[d]
    BY <1>2, <1>t DEF Goto, TypeOK
  <2>2. pc'[c] = p
    BY <1>2, <1>t DEF Goto, TypeOK
  <2>3. Reserved(k)' => Reserved(k)
    BY <1>2, <2>1, <2>2 DEF Reserved
  <2> QED
    BY <1>2, <1>t, <2>3, UseKept
<1>3. ASSUME faults' = faults + 1 PROVE UseOf(k)'
  BY <1>3, <1>t DEF UseOf
<1>4. ASSUME NEW j \in Key, NEW type \in GrantType, Grant(j, type) PROVE UseOf(k)'
  <2>1. /\ \A i \in Key : Marker(i) \in tuples' => Marker(i) \in tuples \/ i = j
        /\ UNCHANGED <<pc, target, faults, allowed>>
    BY <1>4, TupleNames DEF Grant, TuplesOf, calls
  <2>2. CASE j # k
    <3>1. issued'[k] = issued[k] /\ written'[k] = written[k]
      BY <1>4, <1>t, <2>2 DEF Grant, TypeOK
    <3> QED
      BY <1>t, <2>1, <2>2, <3>1, UseKept DEF Reserved
  <2>3. CASE j = k
    <3>1. /\ type \in written'[k] /\ written[k] \subseteq written'[k]
          /\ type = "one_time" => issued'[k] = issued[k] + 1
      BY <1>4, <1>t, <2>3 DEF Grant, TypeOK
    <3>2. allowed[k] \in Nat /\ issued[k] \in Nat
      BY <1>t DEF TypeOK
    <3>3. ASSUME faults' = 0, written'[k] \subseteq {"one_time"}
          PROVE  allowed'[k] < issued'[k]
      <4>1. faults = 0 /\ written[k] \subseteq {"one_time"} /\ type = "one_time"
        BY <2>1, <3>1, <3>3
      <4>2. allowed[k] <= issued[k]
        BY <1>t, <3>2, <4>1 DEF UseOf
      <4> QED
        BY <2>1, <3>1, <3>2, <4>1, <4>2
    <3>4. issued'[k] \in Nat /\ allowed'[k] \in Nat
      BY <2>1, <2>3, <1>4, <1>t, <3>2 DEF Grant, TypeOK
    <3> QED
      BY <3>3, <3>4 DEF UseOf
  <2> QED
    BY <2>2, <2>3
<1>5. ASSUME NEW c \in Caller, NEW j \in Key, StartCheck(c, j) PROVE UseOf(k)'
  <2>1. target' = [target EXCEPT ![c] = target'[c]]
    BY <1>5, <1>t DEF StartCheck, TypeOK
  <2> QED
    BY <1>2, <1>5, <2>1 DEF StartCheck, store, history, Place
(* The action tuple found is a one-time grant's, and no clean-up of        *)
(* another check is pending: its marker stands.                            *)
<1>6. ASSUME NEW c \in Caller, CheckAction(c) PROVE UseOf(k)'
  <2>1. CASE faults = 0 /\ written[k] \subseteq {"one_time"}
    <3>1. CASE target[c] = k /\ Permitted(k)
      <4>1. ActionTuple(k) \in tuples /\ origin[k] = "one_time"
        BY <2>1, <3>1, <1>t DEF Permitted, WrittenInv
      <4>2. \A d \in Caller : ~(pc[d] = "cleanup" /\ target[d] = k)
        BY <1>6, <3>1 DEF CheckAction, OneAtATime
      <4>3. Residue = {}
        <5>1. Cardinality(Residue) \in Nat /\ Cardinality(Residue) <= 0
          BY <1>t, <2>1, FS_CardinalityType DEF ResidueInv
        <5> QED
          BY <1>t, <5>1, FS_EmptySet DEF ResidueInv
      <4>4. Reserved(k)
        BY <1>t, <4>1, <4>2, <4>3 DEF Residue, Reserved
      <4> QED
        BY <1>2, <1>6, <1>t, <4>4 DEF CheckAction, store, history, Place, TypeOK
    <3>2. CASE target[c] # k
      BY <1>2, <1>6, <1>t, <3>2 DEF CheckAction, store, history, Place, TypeOK
    <3>3. CASE target[c] = k /\ ~Permitted(k)
      BY <1>2, <1>6, <1>t, <3>3 DEF CheckAction, store, history, Place, TypeOK
    <3> QED
      BY <3>1, <3>2, <3>3
  <2>2. CASE ~(faults = 0 /\ written[k] \subseteq {"one_time"})
    BY <1>6, <2>2 DEF CheckAction, history, UseOf
  <2> QED
    BY <2>1, <2>2
<1>7. ASSUME NEW c \in Caller, CheckMarker(c) PROVE UseOf(k)'
  <2>1. CASE Marker(target[c]) \in tuples
    BY <1>2, <1>7, <1>t, <2>1 DEF CheckMarker, store, Place, TypeOK
  <2>2. CASE Marker(target[c]) \notin tuples
    BY <1>7, <1>t, <2>2, UseSpent DEF CheckMarker, store
  <2> QED
    BY <2>1, <2>2
<1>8. ASSUME NEW c \in Caller, Consume(c) PROVE UseOf(k)'
  <2>1. CASE Marker(target[c]) \in tuples
    <3>1. Goto(c, "cleanup") /\ tuples' \subseteq tuples /\ UNCHANGED <<target, written, issued, allowed, faults>>
      BY <1>8, <2>1 DEF Consume
    <3>2. target[c] = k => Reserved(k)
      BY <2>1 DEF Reserved
    <3> QED
      BY <1>2, <1>t, <3>1, <3>2 DEF Place, TypeOK
  <2>2. CASE Marker(target[c]) \notin tuples
    BY <1>2, <1>8, <1>t, <2>2 DEF Consume, Place, TypeOK
  <2> QED
    BY <2>1, <2>2
<1>9. ASSUME NEW c \in Caller, Cleanup(c) PROVE UseOf(k)'
  <2>1. tuples' \subseteq tuples /\ Marker(target[c]) \notin tuples
    BY <1>9, <1>t DEF Cleanup, StoreInv
  <2> QED
    BY <1>9, <1>t, <2>1, UseSpent DEF Cleanup
<1>10. ASSUME NEW j \in Key, Expire(j) \/ Revoke(j) PROVE UseOf(k)'
  BY <1>1, <1>10 DEF Expire, Revoke, calls, history, store
<1>11. ASSUME NEW c \in Caller, Abandon(c) \/ ConsumeUnacknowledged(c) \/ CleanupRefused(c) PROVE UseOf(k)'
  BY <1>3, <1>11 DEF Abandon, ConsumeUnacknowledged, CleanupRefused, Fault
<1>12. CASE UNCHANGED vars
  BY <1>1, <1>12 DEF vars, store, calls, history
<1> QED
  BY <1>4, <1>5, <1>6, <1>7, <1>8, <1>9, <1>10, <1>11, <1>12 DEF Next

(* As long as two checks of one coordinate are never under way together    *)
(* and no request fails, a coordinate that only ever had one-time grants   *)
(* is allowed at most once per grant, revocations and new grants in        *)
(* between included: overlapping checks are what OneTimeSingleUse fails on.*)
THEOREM SerialUse == Spec /\ []OneAtATime => []SingleUse
<1>1. Init => WrittenInv /\ UseInv
  BY TupleNames DEF Init, WrittenInv, UseInv, UseOf, Reserved
<1>2. UseInv /\ Inv => SingleUse
  BY DEF UseInv, UseOf, SingleUse, Inv, TypeOK
<1> QED
  BY <1>1, <1>2, WrittenStep, UseStep, InvAlways, PTL DEF Spec
=============================================================================
