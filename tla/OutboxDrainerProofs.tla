------------------------ MODULE OutboxDrainerProofs ------------------------
(***************************************************************************)
(* Proofs about OutboxDrainer for any number of replicas, rows and tables, *)
(* any batch size, lease and bounds.                                       *)
(***************************************************************************)
EXTENDS OutboxDrainer, TLAPS

(* What ties a drain's memory to the tables and the topic. *)
MemoryInv ==
    /\ \A w \in Worker :
         /\ pc[w] \notin Draining => batch[w] = {} /\ age[w] = 0
         /\ \A r \in batch[w] :
              pc[w] = "sent" /\ IsNext(r, batch[w]) =>
                  copies[r] > 0 /\ r \notin Malformed
    /\ \A r \in Row : claim[r] # None =>
         r \in committed /\ r \notin processed /\ r \notin failed

(* The columns of a row are written in the order the contract expects. *)
RowInv ==
    /\ \A w \in Worker : batch[w] \subseteq committed
    /\ processed \subseteq committed /\ failed \subseteq committed
    /\ processed \intersect Malformed = {}

Inv == TypeOK /\ MemoryInv /\ RowInv /\ OutcomeIsTrue /\ LeaseHeld

USE RowAssumption, WorkerAssumption, BoundAssumption

(* Every step keeps every variable within its type. *)
LEMMA TypeInit == Init => TypeOK
  BY DEF Init, TypeOK, Place, MaxClaimAge

LEMMA TypeStep == TypeOK /\ [Next]_vars => TypeOK'
<1> SUFFICES ASSUME TypeOK, [Next]_vars PROVE TypeOK'
  OBVIOUS
<1> USE DEF TypeOK, MaxClaimAge
<1>1. ASSUME NEW r \in Row, Commit(r) PROVE TypeOK'
  BY <1>1 DEF Commit, drainVars, faultVars
<1>2. ASSUME NEW w \in Worker, StartDrain(w) \/ BeginPublish(w) \/ SendRejected(w) \/ Restart(w)
      PROVE TypeOK'
  BY <1>2 DEF StartDrain, BeginPublish, SendRejected, Restart, Goto, Place, tableVars, faultVars
<1>3. ASSUME NEW w \in Worker, FindCandidates(w) PROVE TypeOK'
  BY <1>3 DEF FindCandidates, IsOldest, ClaimableAt, Goto, Place, tableVars, faultVars
<1>4. ASSUME NEW w \in Worker, ClaimRow(w) PROVE TypeOK'
  BY <1>4 DEF ClaimRow, faultVars
<1>5. ASSUME NEW w \in Worker, SourceDone(w) PROVE TypeOK'
  <2>1. CASE source[w] < NumSources
    BY <1>5, <2>1 DEF SourceDone, EndDrain, Goto, Place, tableVars, faultVars
  <2>2. CASE source[w] = NumSources
    <3>1. EndDrain(w, "idle") /\ UNCHANGED <<tableVars, copies, faultVars>>
      BY <1>5, <2>2 DEF SourceDone
    <3> QED
      BY <3>1 DEF EndDrain, Goto, Place, tableVars, faultVars
  <2> QED
    BY <1>5, <2>1, <2>2 DEF SourceDone
<1>6. ASSUME NEW w \in Worker, Quarantine(w) PROVE TypeOK'
  <2>1. PICK r \in batch[w] : Handled(w, r) /\ ((ClearClaim(r) /\ failed' = failed \union {r})
                                \/ UNCHANGED <<failed, claim, claimAge>>)
    BY <1>6 DEF Quarantine
  <2>2. r \in Row /\ failed' \in SUBSET Row /\ batch' \in [Worker -> SUBSET Row]
    BY <2>1 DEF Handled
  <2> QED
    BY <1>6, <2>1, <2>2 DEF Quarantine, ClearClaim, faultVars
<1>13. ASSUME NEW w \in Worker, MarkPublished(w) PROVE TypeOK'
  <2>1. PICK r \in batch[w] : Handled(w, r) /\ ((ClearClaim(r) /\ processed' = processed \union {r})
                                \/ UNCHANGED <<processed, claim, claimAge>>)
    BY <1>13 DEF MarkPublished
  <2>2. r \in Row /\ processed' \in SUBSET Row /\ batch' \in [Worker -> SUBSET Row]
    BY <2>1 DEF Handled
  <2>3. pc' \in [Worker -> Place]
    BY <1>13 DEF MarkPublished, Goto, Place
  <2> QED
    BY <1>13, <2>1, <2>2, <2>3 DEF MarkPublished, ClearClaim, faultVars
<1>7. ASSUME NEW w \in Worker, Send(w) PROVE TypeOK'
  BY <1>7 DEF Send, AddCopy, Goto, Place, tableVars, faultVars
<1>14. ASSUME NEW w \in Worker, SendUnacknowledged(w) PROVE TypeOK'
  BY <1>14 DEF SendUnacknowledged, AddCopy, Goto, Place, tableVars
<1>8. ASSUME NEW w \in Worker, ReleaseAndAbort(w) PROVE TypeOK'
  BY <1>8 DEF ReleaseAndAbort, ClearClaim, EndDrain, Goto, Place, faultVars
<1>9. ASSUME NEW w \in Worker, SendRefused(w) PROVE TypeOK'
  BY <1>9 DEF SendRefused, Goto, Place, tableVars
<1>10. ASSUME NEW w \in Worker, DrainError(w) PROVE TypeOK'
  BY <1>10 DEF DrainError, EndDrain, Goto, Place, tableVars
<1>15. ASSUME NEW w \in Worker, Crash(w) PROVE TypeOK'
  BY <1>15 DEF Crash, EndDrain, Goto, Place, tableVars
<1>11. CASE Tick
  BY <1>11 DEF Tick, Older, Draining, Place, faultVars
<1>12. CASE UNCHANGED vars
  BY <1>12 DEF vars, tableVars, drainVars, faultVars
<1> QED
  BY <1>1, <1>2, <1>3, <1>4, <1>5, <1>6, <1>7, <1>8, <1>9, <1>10, <1>11, <1>12,
     <1>13, <1>14, <1>15
     DEF Next, DrainStep, Fault

(* The variables of every replica and of every table stay in their types. *)
THEOREM TypeCorrect == SafetySpec => []TypeOK
<1>1. Init => TypeOK
  BY TypeInit
<1>2. TypeOK /\ [Next]_vars => TypeOK'
  BY TypeStep
<1> QED
  BY <1>1, <1>2, PTL DEF SafetySpec

-----------------------------------------------------------------------------
(* The inductive invariant                                                 *)

LEMMA InvInit == Init => Inv
<1> SUFFICES ASSUME Init PROVE Inv
  OBVIOUS
<1>1. TypeOK
  BY TypeInit
<1> QED
  BY <1>1 DEF Init, Inv, MemoryInv, RowInv, OutcomeIsTrue, LeaseHeld, Draining, Place

(* A step that moves one drain and touches neither a column nor a batch. *)
LEMMA QuietStep ==
  ASSUME Inv, TypeOK', NEW w \in Worker, NEW p \in Place \ {"sent"}, Goto(w, p),
         pc[w] \in Draining \/ (batch[w] = {} /\ age[w] = 0),
         p \notin Draining => batch[w] = {} /\ age[w] = 0,
         UNCHANGED <<tableVars, copies, batch, age>>
  PROVE  Inv'
  BY DEF Inv, MemoryInv, RowInv, OutcomeIsTrue, LeaseHeld,
         Goto, TypeOK, tableVars, IsNext, Draining, Place

(* The end of a drain leaves it with nothing in hand. *)
LEMMA EndStep ==
  ASSUME Inv, TypeOK', NEW w \in Worker, NEW p \in {"idle", "down"}, EndDrain(w, p),
         UNCHANGED <<tableVars, copies>>
  PROVE  Inv'
  BY DEF Inv, MemoryInv, RowInv, OutcomeIsTrue, LeaseHeld,
         EndDrain, Goto, TypeOK, tableVars, IsNext, Draining, Place

(* Every step of every replica preserves the invariant. *)
LEMMA InvStep == Inv /\ [Next]_vars => Inv'
<1> SUFFICES ASSUME Inv, [Next]_vars PROVE Inv'
  OBVIOUS
<1>t. TypeOK /\ TypeOK'
  BY TypeStep DEF Inv
<1>m. \A w \in Worker : pc[w] \in Draining \/ (batch[w] = {} /\ age[w] = 0)
  BY DEF Inv, MemoryInv
<1> DEFINE Moved(w, p) == Goto(w, p) /\ UNCHANGED <<tableVars, copies, batch, age>>
<1>q. ASSUME NEW w \in Worker, NEW p \in Draining \ {"sent"}, Moved(w, p) PROVE Inv'
  <2>1. p \in Place \ {"sent"} /\ p \in Draining
    BY DEF Draining
  <2> QED
    BY QuietStep, <1>t, <1>m, <1>q, <2>1
<1>1. ASSUME NEW r \in Row, Commit(r) PROVE Inv'
  BY <1>1, <1>t DEF Inv, MemoryInv, RowInv, OutcomeIsTrue, LeaseHeld, Commit, drainVars, faultVars
<1>3. ASSUME NEW w \in Worker, StartDrain(w) PROVE Inv'
  <2>1. Moved(w, "find") /\ "find" \in Draining \ {"sent"}
    BY <1>3 DEF StartDrain, Draining, Place
  <2> QED
    BY <2>1, <1>q
<1>4. ASSUME NEW w \in Worker, FindCandidates(w) PROVE Inv'
  <2>1. Moved(w, "claim") /\ "claim" \in Draining \ {"sent"}
    BY <1>4 DEF FindCandidates, Draining, Place
  <2> QED
    BY <2>1, <1>q
<1>5. ASSUME NEW w \in Worker, BeginPublish(w) PROVE Inv'
  <2>1. Moved(w, "publish") /\ "publish" \in Draining \ {"sent"}
    BY <1>5 DEF BeginPublish, Draining, Place
  <2> QED
    BY <2>1, <1>q
<1>6. ASSUME NEW w \in Worker, SendRejected(w) \/ SendRefused(w) PROVE Inv'
  <2>1. Moved(w, "unsent") /\ "unsent" \in Draining \ {"sent"}
    BY <1>6 DEF SendRejected, SendRefused, Draining, Place
  <2> QED
    BY <2>1, <1>q
<1>8. ASSUME NEW w \in Worker, Restart(w) PROVE Inv'
  <2>1. Moved(w, "idle") /\ "idle" \in Place \ {"sent"}
    BY <1>8 DEF Restart, Place
  <2>2. batch[w] = {} /\ age[w] = 0
    BY <1>8 DEF Restart, Inv, MemoryInv, Draining
  <2> QED
    BY QuietStep, <1>t, <2>1, <2>2
<1>10. ASSUME NEW w \in Worker, DrainError(w) PROVE Inv'
  BY EndStep, <1>t, <1>10 DEF DrainError
<1>11. ASSUME NEW w \in Worker, Crash(w) PROVE Inv'
  BY EndStep, <1>t, <1>11 DEF Crash
<1>12. ASSUME NEW w \in Worker, SourceDone(w) PROVE Inv'
  <2>1. CASE source[w] < NumSources
    <3>1. Moved(w, "find") /\ "find" \in Draining \ {"sent"}
      BY <1>12, <1>t, <2>1 DEF SourceDone, TypeOK, Draining, Place
    <3> QED
      BY <3>1, <1>q
  <2>2. CASE source[w] = NumSources
    <3>1. EndDrain(w, "idle") /\ UNCHANGED <<tableVars, copies>>
      BY <1>12, <2>2 DEF SourceDone
    <3> QED
      BY <3>1, EndStep, <1>t
  <2> QED
    BY <1>12, <2>1, <2>2 DEF SourceDone
<1>13. ASSUME NEW w \in Worker, ClaimRow(w) PROVE Inv'
  <2>1. PICK r \in candidates[w] :
          /\ \/ /\ Claimable(r, w)
                /\ claim' = [claim EXCEPT ![r] = w]
                /\ claimAge' = [claimAge EXCEPT ![r] = age[w]]
                /\ batch' = [batch EXCEPT ![w] = @ \union {r}]
             \/ UNCHANGED <<claim, claimAge, batch>>
    BY <1>13 DEF ClaimRow
  <2>2. r \in Row /\ UNCHANGED <<committed, processed, failed, copies, pc, age>> /\ pc[w] = "claim"
    BY <1>13, <1>t DEF ClaimRow, TypeOK
  <2>3. MemoryInv'
    BY <2>1, <2>2, <1>t DEF Inv, MemoryInv, TypeOK, Claimable, IsNext, Draining, Place
  <2>4. RowInv' /\ OutcomeIsTrue'
    BY <2>1, <2>2, <1>t DEF Inv, RowInv, OutcomeIsTrue, TypeOK, Claimable
  <2>5. LeaseHeld'
    BY <2>1, <2>2, <1>t DEF Inv, LeaseHeld, TypeOK, Claimable
  <2> QED
    BY <1>t, <2>3, <2>4, <2>5 DEF Inv
<1>14. ASSUME NEW w \in Worker, Quarantine(w) PROVE Inv'
  <2>1. PICK r \in batch[w] :
          /\ r \in Malformed
          /\ \/ HoldsClaim(w, r) /\ failed' = failed \union {r} /\ ClearClaim(r)
             \/ ~HoldsClaim(w, r) /\ UNCHANGED <<failed, claim, claimAge>>
          /\ Handled(w, r)
    BY <1>14 DEF Quarantine
  <2>2. r \in Row /\ UNCHANGED <<committed, processed, copies, pc, age>> /\ pc[w] = "publish"
    BY <1>14, <1>t DEF Quarantine, TypeOK
  <2>3. MemoryInv'
    BY <2>1, <2>2, <1>t DEF Inv, MemoryInv, TypeOK, Handled, ClearClaim, HoldsClaim, IsNext,
       Draining, Place
  <2>4. RowInv' /\ OutcomeIsTrue'
    BY <2>1, <2>2, <1>t DEF Inv, RowInv, OutcomeIsTrue, TypeOK, Handled, HoldsClaim
  <2>5. LeaseHeld'
    BY <2>1, <2>2, <1>t DEF Inv, LeaseHeld, TypeOK, Handled, ClearClaim, HoldsClaim
  <2> QED
    BY <1>t, <2>3, <2>4, <2>5 DEF Inv
<1>15. ASSUME NEW w \in Worker, Send(w) \/ SendUnacknowledged(w) PROVE Inv'
  <2>1. PICK r \in batch[w] : IsNext(r, batch[w]) /\ r \notin Malformed /\ AddCopy(r)
    BY <1>15 DEF Send, SendUnacknowledged
  <2>2. PICK p \in {"sent", "unsent"} : Goto(w, p)
    BY <1>15 DEF Send, SendUnacknowledged
  <2>3. r \in Row /\ UNCHANGED <<tableVars, batch, age>> /\ pc[w] = "publish"
    BY <1>15, <1>t DEF Send, SendUnacknowledged, TypeOK
  <2>4. \A q \in Row : copies[q] > 0 => copies'[q] > 0
    BY <2>1, <2>3, <1>t DEF AddCopy, TypeOK
  <2>5. copies'[r] > 0
    BY <2>1, <2>3, <1>t DEF AddCopy, TypeOK
  <2>6. MemoryInv'
    <3>1. \A q \in batch[w] : IsNext(q, batch[w]) => q = r
      BY <2>1, <2>3, <1>t DEF IsNext, TypeOK
    <3> QED
      BY <2>1, <2>2, <2>3, <2>4, <2>5, <3>1, <1>t
         DEF Inv, MemoryInv, TypeOK, Goto, IsNext, Draining, Place, tableVars
  <2>7. RowInv' /\ OutcomeIsTrue'
    BY <2>3, <2>4, <1>t DEF Inv, RowInv, OutcomeIsTrue, TypeOK, tableVars
  <2>8. LeaseHeld'
    BY <2>3 DEF Inv, LeaseHeld, tableVars
  <2> QED
    BY <1>t, <2>6, <2>7, <2>8 DEF Inv
<1>17. ASSUME NEW w \in Worker, MarkPublished(w) PROVE Inv'
  <2>1. PICK r \in batch[w] :
          /\ IsNext(r, batch[w])
          /\ \/ HoldsClaim(w, r) /\ processed' = processed \union {r} /\ ClearClaim(r)
             \/ ~HoldsClaim(w, r) /\ UNCHANGED <<processed, claim, claimAge>>
          /\ Handled(w, r)
    BY <1>17 DEF MarkPublished
  <2>2. r \in Row /\ UNCHANGED <<committed, failed, copies, age>> /\ pc[w] = "sent"
        /\ Goto(w, "publish")
    BY <1>17, <1>t DEF MarkPublished, TypeOK
  <2>3. copies[r] > 0 /\ r \notin Malformed /\ r \in committed
    BY <2>1, <2>2, <1>t DEF Inv, MemoryInv, RowInv, TypeOK
  <2>4. MemoryInv'
    BY <2>1, <2>2, <1>t DEF Inv, MemoryInv, TypeOK, Handled, ClearClaim, HoldsClaim, IsNext,
       Goto, Draining, Place
  <2>5. RowInv' /\ OutcomeIsTrue'
    BY <2>1, <2>2, <2>3, <1>t DEF Inv, RowInv, OutcomeIsTrue, TypeOK, Handled
  <2>6. LeaseHeld'
    BY <2>1, <2>2, <1>t DEF Inv, LeaseHeld, TypeOK, Handled, ClearClaim, HoldsClaim
  <2> QED
    BY <1>t, <2>4, <2>5, <2>6 DEF Inv
<1>18. ASSUME NEW w \in Worker, ReleaseAndAbort(w) PROVE Inv'
  <2>1. PICK r \in batch[w] :
          \/ HoldsClaim(w, r) /\ ClearClaim(r)
          \/ UNCHANGED <<claim, claimAge>>
    BY <1>18 DEF ReleaseAndAbort
  <2>2. r \in Row /\ UNCHANGED <<committed, processed, failed, copies>> /\ EndDrain(w, "idle")
    BY <1>18, <1>t DEF ReleaseAndAbort, TypeOK
  <2>3. MemoryInv'
    BY <2>1, <2>2, <1>t DEF Inv, MemoryInv, TypeOK, ClearClaim, EndDrain, IsNext, Goto,
       Draining, Place
  <2>4. RowInv' /\ OutcomeIsTrue'
    BY <2>2, <1>t DEF Inv, RowInv, OutcomeIsTrue, TypeOK, EndDrain
  <2>5. LeaseHeld'
    BY <2>1, <2>2, <1>t DEF Inv, LeaseHeld, TypeOK, ClearClaim, HoldsClaim, EndDrain
  <2> QED
    BY <1>t, <2>3, <2>4, <2>5 DEF Inv
<1>19. ASSUME Tick PROVE Inv'
  <2>1. UNCHANGED <<committed, processed, failed, claim, copies, pc, batch>>
    BY <1>19 DEF Tick
  <2>2. MemoryInv' /\ RowInv' /\ OutcomeIsTrue'
    BY <1>19, <2>1, <1>t DEF Inv, MemoryInv, RowInv, OutcomeIsTrue, TypeOK, Tick, IsNext
  <2>3. ASSUME NEW w \in Worker, NEW r \in batch[w], age'[w] <= Lease
        PROVE  claim[r] = w /\ claimAge'[r] = age'[w] /\ r \notin processed \union failed
    <3>1. r \in Row /\ pc[w] \in Draining /\ age'[w] = age[w] + 1 /\ age[w] <= Lease
      BY <1>19, <2>3, <1>t DEF Inv, MemoryInv, TypeOK, Tick
    <3>2. claim[r] = w /\ claimAge[r] = age[w] /\ r \notin processed \union failed
      BY <3>1 DEF Inv, LeaseHeld
    <3>3. claimAge[r] < MaxClaimAge
      BY <3>1, <3>2, <1>t DEF TypeOK, MaxClaimAge
    <3>4. claimAge'[r] = claimAge[r] + 1
      BY <1>19, <3>1, <3>2, <3>3 DEF Tick, Older
    <3> QED
      BY <3>1, <3>2, <3>4
  <2>4. LeaseHeld'
    BY <2>1, <2>3 DEF LeaseHeld
  <2> QED
    BY <1>t, <2>2, <2>4 DEF Inv
<1>20. CASE UNCHANGED vars
  BY <1>20, <1>t DEF Inv, MemoryInv, RowInv, OutcomeIsTrue, LeaseHeld,
     vars, tableVars, drainVars, IsNext
<1> QED
  BY <1>1, <1>3, <1>4, <1>5, <1>6, <1>8, <1>10, <1>11, <1>12, <1>13, <1>14,
     <1>15, <1>17, <1>18, <1>19, <1>20 DEF Next, DrainStep, Fault
-----------------------------------------------------------------------------
(* Safety                                                                  *)

LEMMA InvAlways == SafetySpec => []Inv
<1>1. Init => Inv
  BY InvInit
<1>2. Inv /\ [Next]_vars => Inv'
  BY InvStep
<1> QED
  BY <1>1, <1>2, PTL DEF SafetySpec

(* Whatever the replicas, crashes and slow drains: published means the     *)
(* topic has a copy, quarantined means malformed, never both.              *)
THEOREM OutcomeCorrect == SafetySpec => []OutcomeIsTrue
<1>1. Inv => OutcomeIsTrue
  BY DEF Inv
<1> QED
  BY <1>1, InvAlways, PTL

(* A drain within its lease holds every row of its batch. *)
THEOREM LeaseCorrect == SafetySpec => []LeaseHeld
<1>1. Inv => LeaseHeld
  BY DEF Inv
<1> QED
  BY <1>1, InvAlways, PTL

(* Two replicas have one row in hand only after a lease was outrun. *)
THEOREM NoSharing == SafetySpec => []NoSharedRow
<1>1. Inv => NoSharedRow
  <2> SUFFICES ASSUME Inv, NEW v \in Worker, NEW w \in Worker, v # w,
                      NEW r \in batch[v] \intersect batch[w],
                      ~(age[v] > Lease \/ age[w] > Lease)
               PROVE  FALSE
    BY DEF NoSharedRow
  <2>1. age[v] <= Lease /\ age[w] <= Lease
    BY DEF Inv, TypeOK
  <2> QED
    BY <2>1 DEF Inv, LeaseHeld
<1> QED
  BY <1>1, InvAlways, PTL

(* No step changes the outcome of a settled row or claims it again. *)
THEOREM SettledCorrect == SafetySpec => SettledIsFinal
<1> DEFINE Final == /\ processed \subseteq processed'
                    /\ failed \subseteq failed'
                    /\ \A r \in processed \union failed : claim'[r] = None
<1>1. Inv /\ Inv' /\ [Next]_vars => [Final]_vars
  <2> SUFFICES ASSUME Inv, Inv', Next PROVE Final
    OBVIOUS
  <2>1. processed \subseteq processed' /\ failed \subseteq failed'
    BY DEF Next, DrainStep, Fault, Commit, StartDrain, FindCandidates, ClaimRow,
       BeginPublish, SourceDone, Quarantine, Send, SendRejected, MarkPublished,
       ReleaseAndAbort, SendRefused, SendUnacknowledged, DrainError, Crash, Restart,
       Tick, tableVars
  <2>2. \A r \in processed' \union failed' : claim'[r] = None
    BY DEF Inv, TypeOK, MemoryInv
  <2> QED
    BY <2>1, <2>2
<1> QED
  BY <1>1, InvAlways, PTL DEF SafetySpec, SettledIsFinal

-----------------------------------------------------------------------------
(* Duplicates                                                              *)

(* The copy of r that no fault has paid for: r is marked, or the replica   *)
(* that sent it is about to mark it.                                       *)
Covered(r) ==
    r \in processed \/ \E w \in Worker : pc[w] = "sent" /\ IsNext(r, batch[w])

CopyInv ==
    MaxDrain <= Lease =>
        \A r \in Row : \/ copies[r] <= losses
                       \/ copies[r] <= losses + 1 /\ Covered(r)

LEMMA CopyStep == Inv /\ Inv' /\ CopyInv /\ [Next]_vars => CopyInv'
<1> SUFFICES ASSUME Inv, Inv', CopyInv, [Next]_vars, MaxDrain <= Lease, NEW r \in Row
             PROVE  copies'[r] <= losses' \/ (copies'[r] <= losses' + 1 /\ Covered(r)')
  BY DEF CopyInv
<1>t. TypeOK /\ TypeOK'
  BY DEF Inv
<1>h. copies[r] <= losses \/ (copies[r] <= losses + 1 /\ Covered(r))
  BY DEF CopyInv
<1>l. \A w \in Worker : \A q \in batch[w] : claim[q] = w /\ q \notin processed
  BY <1>t DEF Inv, LeaseHeld, TypeOK
<1>1. ASSUME UNCHANGED <<copies, losses, processed>>,
             \A w \in Worker : pc[w] = "sent" => pc'[w] = "sent" /\ batch'[w] = batch[w]
      PROVE  copies'[r] <= losses' \/ (copies'[r] <= losses' + 1 /\ Covered(r)')
  BY <1>1, <1>h DEF Covered, IsNext
<1>2. ASSUME NEW q \in Row, Commit(q)
      PROVE  copies'[r] <= losses' \/ (copies'[r] <= losses' + 1 /\ Covered(r)')
  BY <1>1, <1>2 DEF Commit, drainVars, faultVars
<1>3. ASSUME NEW w \in Worker, StartDrain(w) \/ FindCandidates(w) \/ BeginPublish(w)
                               \/ SendRejected(w) \/ Restart(w)
      PROVE  copies'[r] <= losses' \/ (copies'[r] <= losses' + 1 /\ Covered(r)')
  BY <1>1, <1>3, <1>t DEF StartDrain, FindCandidates, BeginPublish, SendRejected, Restart,
     Goto, TypeOK, tableVars, faultVars
<1>4. ASSUME NEW w \in Worker, SendRefused(w)
      PROVE  copies'[r] <= losses' \/ (copies'[r] <= losses' + 1 /\ Covered(r)')
  BY <1>1, <1>4, <1>t DEF SendRefused, Goto, TypeOK, tableVars
<1>5. ASSUME NEW w \in Worker, ClaimRow(w)
      PROVE  copies'[r] <= losses' \/ (copies'[r] <= losses' + 1 /\ Covered(r)')
  <2>1. UNCHANGED <<copies, losses, processed, pc>> /\ pc[w] = "claim"
    BY <1>5 DEF ClaimRow, faultVars
  <2>2. \A v \in Worker : v # w => batch'[v] = batch[v]
    BY <1>5, <1>t DEF ClaimRow, TypeOK
  <2> QED
    BY <1>1, <2>1, <2>2
<1>6. ASSUME NEW w \in Worker, SourceDone(w)
      PROVE  copies'[r] <= losses' \/ (copies'[r] <= losses' + 1 /\ Covered(r)')
  <2>1. UNCHANGED <<copies, losses, processed>> /\ pc[w] # "sent"
    BY <1>6 DEF SourceDone, tableVars, faultVars
  <2>2. \A v \in Worker : v # w => pc'[v] = pc[v] /\ batch'[v] = batch[v]
    BY <1>6, <1>t DEF SourceDone, EndDrain, Goto, TypeOK
  <2> QED
    BY <1>1, <2>1, <2>2
<1>7. ASSUME NEW w \in Worker, Quarantine(w)
      PROVE  copies'[r] <= losses' \/ (copies'[r] <= losses' + 1 /\ Covered(r)')
  BY <1>1, <1>7, <1>t DEF Quarantine, Handled, TypeOK, faultVars
<1>8. ASSUME NEW w \in Worker, ReleaseAndAbort(w)
      PROVE  copies'[r] <= losses' \/ (copies'[r] <= losses' + 1 /\ Covered(r)')
  BY <1>1, <1>8, <1>t DEF ReleaseAndAbort, EndDrain, Goto, TypeOK, faultVars
(* The send: the row it copies is in no other drain's hand. *)
<1>9. ASSUME NEW w \in Worker, Send(w)
      PROVE  copies'[r] <= losses' \/ (copies'[r] <= losses' + 1 /\ Covered(r)')
  <2>1. PICK q \in batch[w] : IsNext(q, batch[w]) /\ AddCopy(q)
    BY <1>9 DEF Send
  <2>2. pc[w] = "publish" /\ Goto(w, "sent") /\ UNCHANGED <<processed, batch, losses>>
    BY <1>9 DEF Send, tableVars, faultVars
  <2>3. CASE r = q
    <3>1. ~Covered(r)
      BY <2>1, <2>2, <2>3, <1>l DEF Covered, IsNext
    <3>2. copies[r] <= losses /\ copies'[r] <= copies[r] + 1
      BY <3>1, <1>h, <2>1, <2>3, <1>t DEF AddCopy, TypeOK
    <3>3. Covered(r)'
      BY <2>1, <2>2, <2>3, <1>t DEF Covered, Goto, IsNext, TypeOK
    <3> QED
      BY <2>2, <3>2, <3>3, <1>t DEF TypeOK
  <2>4. CASE r # q
    <3>1. copies'[r] = copies[r]
      BY <2>1, <2>4, <1>t DEF AddCopy, TypeOK
    <3>2. Covered(r) => Covered(r)'
      BY <2>2, <1>t DEF Covered, Goto, IsNext, TypeOK
    <3> QED
      BY <3>1, <3>2, <2>2, <1>h
  <2> QED
    BY <2>3, <2>4
(* A lost acknowledgement pays for its copy. *)
<1>10. ASSUME NEW w \in Worker, SendUnacknowledged(w)
       PROVE  copies'[r] <= losses' \/ (copies'[r] <= losses' + 1 /\ Covered(r)')
  <2>1. PICK q \in batch[w] : AddCopy(q)
    BY <1>10 DEF SendUnacknowledged
  <2>2. pc[w] = "publish" /\ Goto(w, "unsent") /\ UNCHANGED <<processed, batch>>
        /\ losses' = losses + 1
    BY <1>10 DEF SendUnacknowledged, tableVars
  <2>3. copies'[r] <= copies[r] + 1
    BY <2>1, <1>t DEF AddCopy, TypeOK
  <2>4. Covered(r) => Covered(r)'
    BY <2>2, <1>t DEF Covered, Goto, IsNext, TypeOK
  <2> QED
    BY <2>2, <2>3, <2>4, <1>h, <1>t DEF TypeOK
(* Within the lease the mark always finds its claim. *)
<1>11. ASSUME NEW w \in Worker, MarkPublished(w)
       PROVE  copies'[r] <= losses' \/ (copies'[r] <= losses' + 1 /\ Covered(r)')
  <2>1. PICK q \in batch[w] :
          /\ IsNext(q, batch[w])
          /\ HoldsClaim(w, q) => processed' = processed \union {q}
          /\ ~HoldsClaim(w, q) => processed' = processed
          /\ Handled(w, q)
    BY <1>11 DEF MarkPublished
  <2>2. UNCHANGED <<copies, losses>> /\ Goto(w, "publish")
    BY <1>11 DEF MarkPublished, faultVars
  <2>3. processed' = processed \union {q}
    BY <2>1, <1>l DEF HoldsClaim
  <2>4. IsNext(r, batch[w]) => r = q
    BY <2>1, <1>t DEF IsNext, TypeOK
  <2>5. Covered(r) => Covered(r)'
    BY <2>1, <2>2, <2>3, <2>4, <1>t DEF Covered, Goto, Handled, IsNext, TypeOK
  <2> QED
    BY <2>2, <2>5, <1>h
(* A drain that dies between sending and marking pays with its loss. *)
<1>12. ASSUME NEW w \in Worker, DrainError(w) \/ Crash(w)
       PROVE  copies'[r] <= losses' \/ (copies'[r] <= losses' + 1 /\ Covered(r)')
  BY <1>12, <1>h, <1>t DEF DrainError, Crash, TypeOK
<1>13. ASSUME Tick
       PROVE  copies'[r] <= losses' \/ (copies'[r] <= losses' + 1 /\ Covered(r)')
  BY <1>1, <1>13 DEF Tick, faultVars
<1>14. ASSUME UNCHANGED vars
       PROVE  copies'[r] <= losses' \/ (copies'[r] <= losses' + 1 /\ Covered(r)')
  BY <1>1, <1>14 DEF vars, tableVars, drainVars, faultVars
<1> QED
  BY <1>2, <1>3, <1>4, <1>5, <1>6, <1>7, <1>8, <1>9, <1>10, <1>11, <1>12, <1>13, <1>14
     DEF Next, DrainStep, Fault

(* When drains finish within the lease, replicas alone never duplicate an  *)
(* event: each extra copy is paid for by a fault.                          *)
THEOREM DuplicatesCorrect == SafetySpec => []DuplicatesArePaidFor
<1>1. Init => CopyInv
  BY DEF Init, CopyInv
<1>2. Inv /\ CopyInv => DuplicatesArePaidFor
  BY DEF Inv, TypeOK, CopyInv, DuplicatesArePaidFor
<1> QED
  BY <1>1, <1>2, CopyStep, InvAlways, PTL DEF SafetySpec
-----------------------------------------------------------------------------
(* Refinement of the delivery contract                                     *)

(* A step that leaves the four columns the contract sees is invisible. *)
LEMMA Stutter ==
  ASSUME UNCHANGED <<committed, processed, failed, copies>>
  PROVE  UNCHANGED Contract!vars
  BY DEF Contract!vars, outcome

LEMMA OutcomeOf ==
  ASSUME NEW r \in Row
  PROVE  /\ r \in processed => outcome[r] = "published"
         /\ r \in failed \ processed => outcome[r] = "quarantined"
         /\ r \in committed \ (processed \union failed) => outcome[r] = "pending"
         /\ r \notin committed \union processed \union failed => outcome[r] = "absent"
  BY DEF outcome

LEMMA RefinesInit == Init => Contract!Init
  BY DEF Init, Contract!Init, outcome

LEMMA RefinesStep == Inv /\ [Next]_vars => [Contract!Next]_(Contract!vars)
<1> SUFFICES ASSUME Inv, [Next]_vars PROVE Contract!Next \/ UNCHANGED Contract!vars
  OBVIOUS
<1>t. TypeOK /\ RowInv /\ OutcomeIsTrue
  BY DEF Inv
<1>1. ASSUME NEW r \in Row, Commit(r) PROVE Contract!Next
  <2>1. outcome[r] = "absent"
    BY <1>1, <1>t, OutcomeOf DEF Commit, RowInv
  <2>2. outcome' = [outcome EXCEPT ![r] = "pending"]
    BY <1>1, <1>t DEF Commit, RowInv, outcome
  <2>3. UNCHANGED copies
    BY <1>1 DEF Commit
  <2> QED
    BY <2>1, <2>2, <2>3 DEF Contract!Next, Contract!Commit
<1>2. ASSUME NEW w \in Worker,
             StartDrain(w) \/ FindCandidates(w) \/ ClaimRow(w) \/ BeginPublish(w)
             \/ SourceDone(w) \/ SendRejected(w) \/ ReleaseAndAbort(w) \/ Restart(w)
             \/ SendRefused(w) \/ DrainError(w) \/ Crash(w)
      PROVE  UNCHANGED Contract!vars
  <2>1. UNCHANGED <<committed, processed, failed, copies>>
    BY <1>2 DEF StartDrain, FindCandidates, ClaimRow, BeginPublish, SourceDone,
       SendRejected, ReleaseAndAbort, Restart, SendRefused, DrainError, Crash, tableVars
  <2> QED
    BY <2>1, Stutter
<1>3. ASSUME NEW w \in Worker, Send(w) \/ SendUnacknowledged(w) PROVE Contract!Next
  <2>1. PICK r \in batch[w] : r \notin Malformed /\ AddCopy(r)
    BY <1>3 DEF Send, SendUnacknowledged
  <2>2. r \in Row /\ r \in committed /\ r \notin failed
    BY <2>1, <1>t DEF TypeOK, RowInv, OutcomeIsTrue
  <2>3. outcome[r] \in {"pending", "published"}
    BY <2>2, OutcomeOf
  <2>4. outcome' = outcome
    BY <1>3 DEF Send, SendUnacknowledged, tableVars, outcome
  <2>5. Contract!Deliver(r)
    BY <2>1, <2>3, <2>4 DEF Contract!Deliver, AddCopy
  <2> QED
    BY <2>2, <2>5 DEF Contract!Next
<1>4. ASSUME NEW w \in Worker, Quarantine(w) PROVE Contract!Next \/ UNCHANGED Contract!vars
  <2>1. PICK r \in batch[w] :
          /\ r \in Malformed
          /\ \/ HoldsClaim(w, r) /\ failed' = failed \union {r}
             \/ UNCHANGED failed
    BY <1>4 DEF Quarantine
  <2>2. r \in Row /\ r \in committed /\ UNCHANGED <<committed, processed, copies>>
    BY <1>4, <1>t DEF Quarantine, TypeOK, RowInv
  <2>3. CASE UNCHANGED failed
    BY <2>2, <2>3, Stutter
  <2>4. CASE HoldsClaim(w, r) /\ failed' = failed \union {r}
    <3>1. r \notin processed /\ r \notin failed
      <4>1. claim[r] # None
        BY <2>4 DEF HoldsClaim
      <4> QED
        BY <2>2, <4>1 DEF Inv, MemoryInv
    <3>2. outcome[r] = "pending"
      BY <2>2, <3>1, OutcomeOf
    <3>3. outcome' = [outcome EXCEPT ![r] = "quarantined"]
      BY <2>2, <2>4, <3>1 DEF outcome
    <3>4. Contract!Quarantine(r)
      BY <2>1, <2>2, <3>2, <3>3 DEF Contract!Quarantine
    <3> QED
      BY <2>2, <3>4 DEF Contract!Next
  <2> QED
    BY <2>1, <2>3, <2>4
<1>5. ASSUME NEW w \in Worker, MarkPublished(w) PROVE Contract!Next \/ UNCHANGED Contract!vars
  <2>1. PICK r \in batch[w] :
          /\ IsNext(r, batch[w])
          /\ \/ HoldsClaim(w, r) /\ processed' = processed \union {r}
             \/ UNCHANGED processed
    BY <1>5 DEF MarkPublished
  <2>2. r \in Row /\ r \in committed /\ UNCHANGED <<committed, failed, copies>>
    BY <1>5, <1>t DEF MarkPublished, TypeOK, RowInv
  <2>3. CASE UNCHANGED processed
    BY <2>2, <2>3, Stutter
  <2>4. CASE HoldsClaim(w, r) /\ processed' = processed \union {r}
    <3>1. r \notin processed /\ r \notin failed /\ copies[r] > 0
      <4>1. claim[r] # None
        BY <2>4 DEF HoldsClaim
      <4> QED
        BY <1>5, <2>1, <2>2, <4>1 DEF MarkPublished, Inv, MemoryInv
    <3>2. outcome[r] = "pending"
      BY <2>2, <3>1, OutcomeOf
    <3>3. outcome' = [outcome EXCEPT ![r] = "published"]
      BY <2>2, <2>4, <3>1 DEF outcome
    <3>4. Contract!Publish(r)
      BY <2>2, <3>1, <3>2, <3>3 DEF Contract!Publish
    <3> QED
      BY <2>2, <3>4 DEF Contract!Next
  <2> QED
    BY <2>1, <2>3, <2>4
<1>6. ASSUME Tick \/ UNCHANGED vars PROVE UNCHANGED Contract!vars
  <2>1. UNCHANGED <<committed, processed, failed, copies>>
    BY <1>6 DEF Tick, vars, tableVars
  <2> QED
    BY <2>1, Stutter
<1> QED
  BY <1>1, <1>2, <1>3, <1>4, <1>5, <1>6 DEF Next, DrainStep, Fault

(* The drainer, with any number of replicas crashing and overrunning their *)
(* leases, implements at-least-once delivery.                              *)
THEOREM Refinement == SafetySpec => ImplementsDelivery
<1>1. Init => Contract!Init
  BY RefinesInit
<1>2. Inv /\ [Next]_vars => [Contract!Next]_(Contract!vars)
  BY RefinesStep
<1> QED
  BY <1>1, <1>2, InvAlways, PTL DEF SafetySpec, ImplementsDelivery, Contract!SafetySpec
=============================================================================
