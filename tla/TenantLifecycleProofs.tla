----------------------- MODULE TenantLifecycleProofs -----------------------
(***************************************************************************)
(* Proofs about TenantLifecycle, for any number of requests, persons,      *)
(* attempts and any limit and lifetime.                                    *)
(***************************************************************************)
EXTENDS TenantLifecycle, FiniteSetTheorems, TLAPS

USE LifecycleAssumption

Trying == [at : {"count", "insert"}, base : Base, attempt : 1..MaxAttempts, attempts : 1..MaxAttempts,
           person : Person, selfService : BOOLEAN, seen : SUBSET TenantRow]
Tried == [at : {"done"}, answer : {"created", "taken", "quota", "failed"}, base : Base,
          attempts : 1..MaxAttempts, person : Person]

(* Every candidate before the present one is taken, and tenants stay; what *)
(* a transaction that counted has seen leaves room for one more.           *)
CreationInv(c) ==
    /\ creation[c].at \in {"count", "insert"} =>
         /\ creation[c].attempt <= creation[c].attempts
         /\ \A n \in 1..creation[c].attempt - 1 : Taken(candidate(creation[c].base, n))
    /\ creation[c].at = "insert" /\ creation[c].selfService =>
         /\ creation[c].seen \subseteq tenants
         /\ Cardinality({t \in creation[c].seen : t.owner = creation[c].person}) < MaxOwned
    /\ creation[c].at = "done" /\ creation[c].answer = "taken" =>
         \A n \in 1..creation[c].attempts : Taken(candidate(creation[c].base, n))

CreateInv == QuotaHolds /\ \A c \in Creator : CreationInv(c)

(* A pending row that an invitation's sweep has met had not expired.       *)
InvitingInv(q) ==
    /\ inviting[q].at \in {"find", "insert"} =>
         /\ inviting[q].swept \subseteq DOMAIN invitations
         /\ \A i \in inviting[q].swept \intersect Pending : invitations[i].expiresAt > inviting[q].now
    /\ inviting[q].at = "conflict" =>
         /\ inviting[q].with \in DOMAIN invitations
         /\ invitations[inviting[q].with].expiresAt > inviting[q].now \/ inviting[q].with \notin inviting[q].swept

Told(i) == {r \in Revoker : revoking[r].at = "revoked" /\ revoking[r].row = i}
RowInv(i) ==
    /\ invitations[i].responses = IF invitations[i].status = "pending" THEN 0 ELSE 1
    /\ IF invitations[i].status = "revoked" THEN \E r \in Revoker : Told(i) = {r} ELSE Told(i) = {}

InviteInv ==
    /\ \A q \in Inviter : InvitingInv(q)
    /\ \A i \in DOMAIN invitations : RowInv(i)
    /\ \A r \in Revoker : revoking[r].at # "idle" => revoking[r].row \in DOMAIN invitations

LifecycleInv == LifecycleTypeOK /\ CreateInv /\ InviteInv

-----------------------------------------------------------------------------
(* Creations                                                               *)

createVars == <<tenants, creation>>
inviteVars == <<invitations, inviting, revoking, clock>>

CreateTypeOK ==
    /\ tenants \subseteq TenantRow /\ IsFiniteSet(tenants)
    /\ \A t \in tenants, u \in tenants : t.slug = u.slug => t = u
    /\ creation \in [Creator -> Creation]

(* A creation that asks for a transaction or has one.                      *)
LEMMA AtTrying ==
  ASSUME CreateTypeOK, NEW c \in Creator, creation[c].at \in {"count", "insert"}
  PROVE  creation[c] \in Trying
<1>1. creation[c] \in Creation
  BY DEF CreateTypeOK
<1> QED
  BY <1>1 DEF Creation, Trying

(* Only one creation moves, and tenants only come.                         *)
LEMMA CreateFrame ==
  ASSUME CreateTypeOK, CreateInv, NEW c \in Creator, NEW next \in Creation,
         creation' = [creation EXCEPT ![c] = next],
         tenants \subseteq tenants', QuotaHolds', CreationInv(c)'
  PROVE  CreateInv' /\ creation' \in [Creator -> Creation]
<1>1. creation' \in [Creator -> Creation]
  BY DEF CreateTypeOK
<1>2. ASSUME NEW d \in Creator \ {c} PROVE CreationInv(d)'
  <2>1. creation'[d] = creation[d] /\ CreationInv(d)
    BY DEF CreateTypeOK, CreateInv
  <2>2. \A slug : Taken(slug) => Taken(slug)'
    BY DEF Taken
  <2> QED
    BY <2>1, <2>2 DEF CreationInv
<1> QED
  BY <1>1, <1>2 DEF CreateInv

LEMMA DoneStep ==
  ASSUME CreateTypeOK, CreateInv, NEW c \in Creator, creation[c].at \in {"count", "insert"},
         NEW answer \in {"created", "taken", "quota", "failed"}, Done(c, answer),
         tenants \subseteq tenants', QuotaHolds',
         answer = "taken" => /\ creation[c].attempt = creation[c].attempts
                             /\ Taken(candidateSlug(c))
  PROVE  CreateInv' /\ creation' \in [Creator -> Creation]
<1> DEFINE next == [at |-> "done", answer |-> answer, base |-> creation[c].base,
                    attempts |-> creation[c].attempts, person |-> creation[c].person]
<1>1. creation[c] \in Trying
  BY AtTrying
<1>2. next \in Creation
  BY <1>1 DEF Trying, Creation
<1>3. creation' = [creation EXCEPT ![c] = next] /\ creation'[c] = next
  BY DEF Done, CreateTypeOK
<1>4. next.at = "done" /\ next.answer = answer /\ next.base = creation[c].base /\ next.attempts = creation[c].attempts
  OBVIOUS
<1> HIDE DEF next
<1>5. ASSUME answer = "taken", NEW n \in 1..creation[c].attempts
      PROVE  \E t \in tenants' : t.slug = candidate(creation[c].base, n)
  <2>1. n \in 1..creation[c].attempt - 1 \/ n = creation[c].attempt
    BY <1>1, <1>5 DEF Trying
  <2>2. \E t \in tenants : t.slug = candidate(creation[c].base, n)
    BY <1>5, <2>1 DEF CreateInv, CreationInv, candidateSlug, Taken
  <2> QED
    BY <2>2
<1>6. CreationInv(c)'
  BY <1>3, <1>4, <1>5 DEF CreationInv, Taken, candidate
<1> QED
  BY <1>2, <1>3, <1>6, CreateFrame

(* A committed self-service tenant was counted: whatever its owner had     *)
(* before, the transaction saw.                                            *)
LEMMA QuotaStep ==
  ASSUME CreateTypeOK, CreateInv, NEW c \in Creator, Commit(c)
  PROVE  QuotaHolds'
<1> DEFINE Made(person) == {t \in Owned(person) : t.selfService}
<1>1. creation[c] \in Trying /\ creation[c].at = "insert"
  BY AtTrying DEF Commit
<1>2. PICK p \in Person : p = creation[c].person
  BY <1>1 DEF Trying
<1>3. PICK new : /\ new = [slug |-> candidateSlug(c), owner |-> creation[c].person, selfService |-> creation[c].selfService]
                 /\ tenants' = tenants \union {new}
  BY DEF Commit
<1>4. new.owner = p /\ new.selfService = creation[c].selfService /\ creation[c].selfService \in BOOLEAN
  BY <1>1, <1>2, <1>3 DEF Trying
<1>5. \A person \in Person : ~(person = p /\ creation[c].selfService) => Made(person)' = Made(person)
  BY <1>3, <1>4 DEF Owned
<1>6. ASSUME creation[c].selfService PROVE Cardinality(Made(p)') <= MaxOwned
  <2>1. PICK counted : counted = {t \in creation[c].seen : t.owner = p}
    OBVIOUS
  <2>2. counted \in SUBSET tenants /\ Cardinality(counted) < MaxOwned
    BY <1>1, <1>2, <1>6, <2>1 DEF CreateInv, CreationInv
  <2>3. IsFiniteSet(counted)
    BY <2>2, FS_Subset DEF CreateTypeOK
  <2>4. Made(p) \subseteq counted
    BY <1>1, <1>2, <1>6, <2>1 DEF Commit, Unserializable, Owned
  <2>5. Made(p)' \in SUBSET (counted \union {new})
    BY <1>3, <2>4 DEF Owned
  <2>6. IsFiniteSet(counted \union {new})
    BY <2>3, FS_AddElement
  <2>7. Cardinality(counted) \in Nat
    BY <2>3, FS_CardinalityType
  <2>8. Cardinality(counted \union {new}) <= Cardinality(counted) + 1 /\ Cardinality(counted \union {new}) \in Nat
    <3>1. Cardinality(counted \union {new}) = IF new \in counted THEN Cardinality(counted) ELSE Cardinality(counted) + 1
      BY <2>3, FS_AddElement
    <3> QED
      BY <2>7, <3>1
  <2>9. Cardinality(Made(p)') <= Cardinality(counted \union {new}) /\ IsFiniteSet(Made(p)')
    BY <2>5, <2>6, FS_Subset
  <2>10. Cardinality(Made(p)') \in Nat
    BY <2>9, FS_CardinalityType
  <2> HIDE DEF Made
  <2> QED
    BY <2>2, <2>7, <2>8, <2>9, <2>10, LifecycleAssumption
<1>7. ASSUME NEW person \in Person PROVE Cardinality(Made(person)') <= MaxOwned
  <2>1. CASE person = p /\ creation[c].selfService
    BY <1>6, <2>1
  <2>2. CASE ~(person = p /\ creation[c].selfService)
    BY <1>5, <2>2 DEF CreateInv, QuotaHolds
  <2> QED
    BY <2>1, <2>2
<1> QED
  BY <1>7 DEF QuotaHolds

LEMMA CreateStep ==
  ASSUME CreateTypeOK, CreateInv, CreateNext \/ UNCHANGED createVars
  PROVE  CreateTypeOK' /\ CreateInv'
<1>1. CASE UNCHANGED createVars
  BY <1>1 DEF createVars, CreateTypeOK, CreateInv, CreationInv, QuotaHolds, Owned, Taken
<1>2. ASSUME UNCHANGED tenants PROVE QuotaHolds' /\ (creation' \in [Creator -> Creation] => CreateTypeOK')
  BY <1>2 DEF CreateTypeOK, CreateInv, QuotaHolds, Owned
<1>3. ASSUME NEW c \in Creator, NEW p \in Person, NEW s \in BOOLEAN, Create(c, p, s) PROVE CreateTypeOK' /\ CreateInv'
  <2>1. PICK explicit \in BOOLEAN : \E base \in IF explicit THEN Slug ELSE {slugify(n) : n \in Name} :
          creation' = [creation EXCEPT ![c] =
              [at |-> IF s THEN "count" ELSE "insert", base |-> base, attempt |-> 1,
               attempts |-> IF explicit THEN 1 ELSE MaxAttempts,
               person |-> p, selfService |-> s, seen |-> {}]]
    BY <1>3 DEF Create
  <2>2. PICK base \in Base :
          creation' = [creation EXCEPT ![c] =
              [at |-> IF s THEN "count" ELSE "insert", base |-> base, attempt |-> 1,
               attempts |-> IF explicit THEN 1 ELSE MaxAttempts,
               person |-> p, selfService |-> s, seen |-> {}]]
    BY <2>1 DEF Base
  <2> DEFINE next == [at |-> IF s THEN "count" ELSE "insert", base |-> base, attempt |-> 1,
                      attempts |-> IF explicit THEN 1 ELSE MaxAttempts,
                      person |-> p, selfService |-> s, seen |-> {}]
  <2>3. next \in Trying
    BY DEF Trying
  <2>4. next.at = (IF s THEN "count" ELSE "insert") /\ next.attempt = 1 /\ (next.selfService <=> s)
    OBVIOUS
  <2>5. creation' = [creation EXCEPT ![c] = next] /\ creation'[c] = next
    BY <2>2 DEF CreateTypeOK
  <2> HIDE DEF next
  <2>6. next.attempts \in 1..MaxAttempts /\ next \in Creation
    BY <2>3 DEF Trying, Creation
  <2>7. CreationInv(c)'
    BY <2>4, <2>5, <2>6 DEF CreationInv
  <2> QED
    BY <1>2, <1>3, <2>5, <2>6, <2>7, CreateFrame DEF Create
<1>4. ASSUME NEW c \in Creator, CountOwned(c) PROVE CreateTypeOK' /\ CreateInv'
  <2>1. creation[c] \in Trying /\ creation[c].at = "count" /\ UNCHANGED tenants
    BY <1>4, AtTrying DEF CountOwned
  <2>2. CASE Done(c, "quota")
    BY <1>2, <2>1, <2>2, DoneStep
  <2>3. CASE /\ ~(Cardinality(Owned(creation[c].person)) >= MaxOwned)
             /\ creation' = [creation EXCEPT ![c].at = "insert", ![c].seen = tenants]
    <3> DEFINE next == [creation[c] EXCEPT !.at = "insert", !.seen = tenants]
    <3>1. next \in Trying /\ next.at = "insert" /\ next.seen = tenants /\ next.base = creation[c].base
          /\ next.attempt = creation[c].attempt /\ next.attempts = creation[c].attempts /\ next.person = creation[c].person
      BY <2>1 DEF Trying, CreateTypeOK
    <3>2. creation' = [creation EXCEPT ![c] = next] /\ creation'[c] = next
      BY <2>1, <2>3 DEF CreateTypeOK
    <3> HIDE DEF next
    <3>3. Cardinality(Owned(creation[c].person)) < MaxOwned
      <4>1. IsFiniteSet(Owned(creation[c].person))
        BY FS_Subset DEF CreateTypeOK, Owned
      <4> QED
        BY <2>3, <4>1, FS_CardinalityType
    <3>4. CreationInv(c)'
      BY <2>1, <3>1, <3>2, <3>3, ZenonT(60) DEF CreateInv, CreationInv, Taken, Owned
    <3>5. next \in Creation
      BY <3>1 DEF Trying, Creation
    <3> QED
      BY <1>2, <2>1, <3>2, <3>4, <3>5, CreateFrame
  <2> QED
    BY <1>4, <2>2, <2>3 DEF CountOwned
<1>5. ASSUME NEW c \in Creator, Commit(c) PROVE CreateTypeOK' /\ CreateInv'
  <2> DEFINE new == [slug |-> candidateSlug(c), owner |-> creation[c].person, selfService |-> creation[c].selfService]
  <2>1. creation[c] \in Trying /\ creation[c].at = "insert" /\ tenants' = tenants \union {new} /\ Done(c, "created")
    BY <1>5, AtTrying DEF Commit
  <2>2. new \in TenantRow /\ new.slug = candidateSlug(c)
    BY <2>1 DEF Trying, TenantRow, candidateSlug
  <2>3. \A t \in tenants : t.slug # new.slug
    BY <1>5, <2>2 DEF Commit, Taken
  <2> HIDE DEF new
  <2>4. CreateInv' /\ creation' \in [Creator -> Creation]
    BY <1>5, <2>1, QuotaStep, DoneStep
  <2>5. tenants' \subseteq TenantRow /\ IsFiniteSet(tenants') /\ \A t \in tenants', u \in tenants' : t.slug = u.slug => t = u
    BY <2>1, <2>2, <2>3, FS_AddElement DEF CreateTypeOK
  <2> QED
    BY <2>4, <2>5 DEF CreateTypeOK
<1>6. ASSUME NEW c \in Creator, SlugConflict(c) PROVE CreateTypeOK' /\ CreateInv'
  <2>1. creation[c] \in Trying /\ creation[c].at = "insert" /\ UNCHANGED tenants /\ Taken(candidateSlug(c))
        /\ creation[c].attempt <= creation[c].attempts
    BY <1>6, AtTrying DEF SlugConflict, CreateInv, CreationInv
  <2>2. CASE creation[c].attempt >= creation[c].attempts /\ Done(c, "taken")
    <3>1. creation[c].attempt = creation[c].attempts
      BY <2>1, <2>2 DEF Trying
    <3> QED
      BY <1>2, <2>1, <2>2, <3>1, DoneStep
  <2>3. CASE /\ creation[c].attempt < creation[c].attempts
             /\ creation' = [creation EXCEPT ![c].attempt = @ + 1,
                                             ![c].at = IF creation[c].selfService THEN "count" ELSE "insert"]
    <3> DEFINE next == [creation[c] EXCEPT !.attempt = @ + 1, !.at = IF creation[c].selfService THEN "count" ELSE "insert"]
    <3>1. next \in Trying /\ next.at = (IF creation[c].selfService THEN "count" ELSE "insert")
          /\ next.base = creation[c].base /\ next.selfService = creation[c].selfService
          /\ next.attempt = creation[c].attempt + 1 /\ next.attempts = creation[c].attempts
      <4>1. creation[c].attempt + 1 \in 1..MaxAttempts
        BY <2>1, <2>3 DEF Trying
      <4> QED
        BY <2>1, <4>1 DEF Trying
    <3>2. creation' = [creation EXCEPT ![c] = next] /\ creation'[c] = next
      BY <2>1, <2>3 DEF CreateTypeOK
    <3> HIDE DEF next
    <3>3. ASSUME NEW n \in 1..creation[c].attempt PROVE Taken(candidate(creation[c].base, n))
      <4>1. n \in 1..creation[c].attempt - 1 \/ n = creation[c].attempt
        BY <2>1, <3>3 DEF Trying
      <4> QED
        BY <2>1, <4>1 DEF CreateInv, CreationInv, candidateSlug
    <3>4. next.attempt <= next.attempts /\ 1..next.attempt - 1 = 1..creation[c].attempt
      BY <2>1, <2>3, <3>1 DEF Trying
    <3>5. \A n \in 1..next.attempt - 1 : \E t \in tenants' : t.slug = candidate(next.base, n)
      BY <2>1, <3>1, <3>3, <3>4 DEF Taken, candidate
    <3>6. CreationInv(c)'
      <4>1. next.at = "insert" => ~next.selfService
        BY <3>1
      <4>2. next.at # "done"
        BY <3>1
      <4> QED
        BY <3>2, <3>4, <3>5, <4>1, <4>2 DEF CreationInv, Taken, candidate
    <3>7. next \in Creation
      BY <3>1 DEF Trying, Creation
    <3> QED
      BY <1>2, <2>1, <3>2, <3>6, <3>7, CreateFrame
  <2>4. creation[c].attempt \in Nat /\ creation[c].attempts \in Nat
    BY <2>1 DEF Trying
  <2> QED
    BY <1>6, <2>2, <2>3, <2>4 DEF SlugConflict, Retry
<1>7. ASSUME NEW c \in Creator, SerializationFailure(c) PROVE CreateTypeOK' /\ CreateInv'
  BY <1>2, <1>7, DoneStep DEF SerializationFailure
<1> QED
  BY <1>1, <1>3, <1>4, <1>5, <1>6, <1>7 DEF CreateNext

-----------------------------------------------------------------------------
(* Invitations                                                             *)

InviteTypeOK ==
    /\ invitations \in Seq(Invitation)
    /\ \A i \in DOMAIN invitations, j \in DOMAIN invitations :
         invitations[i].status = "pending" /\ invitations[j].status = "pending" => i = j
    /\ inviting \in [Inviter -> Inviting] /\ revoking \in [Revoker -> Revoking]
    /\ clock \in 0..MaxClock

(* Rows stay, keep their time, and never become pending again.             *)
Kept ==
    /\ DOMAIN invitations \subseteq DOMAIN invitations'
    /\ \A i \in DOMAIN invitations :
         /\ invitations'[i].expiresAt = invitations[i].expiresAt
         /\ invitations'[i].status = "pending" => invitations[i].status = "pending"

LEMMA InvitingKept ==
  ASSUME Kept, NEW q \in Inviter, inviting'[q] = inviting[q], InvitingInv(q)
  PROVE  InvitingInv(q)'
<1>1. CASE inviting[q].at \in {"find", "insert"}
  <2>1. inviting[q].swept \subseteq DOMAIN invitations
        /\ \A i \in inviting[q].swept \intersect Pending : invitations[i].expiresAt > inviting[q].now
    BY <1>1 DEF InvitingInv
  <2>2. ASSUME NEW i \in inviting[q].swept \intersect Pending' PROVE invitations'[i].expiresAt > inviting[q].now
    BY <2>1, <2>2 DEF Kept, Pending
  <2>3. inviting[q].swept \subseteq DOMAIN invitations'
    BY <2>1 DEF Kept
  <2> QED
    BY <1>1, <2>2, <2>3 DEF InvitingInv
<1>2. CASE inviting[q].at = "conflict"
  BY <1>2 DEF InvitingInv, Kept
<1> QED
  BY <1>1, <1>2 DEF InvitingInv

(* Statements of an inviting request that write no row.                    *)
LEMMA InvitingFrame ==
  ASSUME InviteTypeOK, InviteInv, NEW q \in Inviter, NEW next \in Inviting,
         inviting' = [inviting EXCEPT ![q] = next], InvitingInv(q)', Kept
  PROVE  inviting' \in [Inviter -> Inviting] /\ \A p \in Inviter : InvitingInv(p)'
<1>1. inviting' \in [Inviter -> Inviting]
  BY DEF InviteTypeOK
<1>2. ASSUME NEW p \in Inviter \ {q} PROVE InvitingInv(p)'
  <2>1. inviting'[p] = inviting[p] /\ InvitingInv(p)
    BY DEF InviteTypeOK, InviteInv
  <2> QED
    BY <2>1, InvitingKept
<1> QED
  BY <1>1, <1>2

LEMMA RowKept ==
  ASSUME NEW i, invitations'[i] = invitations[i], UNCHANGED revoking, RowInv(i)
  PROVE  RowInv(i)'
BY DEF RowInv, Told

(* A row that leaves pending is answered for the first time.               *)
LEMMA LeaveOnce ==
  ASSUME InviteTypeOK, InviteInv, NEW i \in Pending, NEW status \in Status \ {"pending"}
  PROVE  /\ i \in DOMAIN invitations /\ Told(i) = {}
         /\ Leave(i, status) \in Invitation
         /\ Leave(i, status).status = status /\ Leave(i, status).responses = 1
         /\ Leave(i, status).expiresAt = invitations[i].expiresAt
<1>1. i \in DOMAIN invitations /\ invitations[i].status = "pending"
  BY DEF Pending
<1>2. invitations[i] \in Invitation
  BY <1>1 DEF InviteTypeOK
<1>3. invitations[i].responses = 0 /\ Told(i) = {}
  BY <1>1 DEF InviteInv, RowInv
<1> DEFINE left == [invitations[i] EXCEPT !.status = status, !.responses = @ + 1]
<1>4. left = [status |-> status, expiresAt |-> invitations[i].expiresAt, responses |-> 1]
  <2>1. PICK time \in Nat : invitations[i] = [status |-> "pending", expiresAt |-> time, responses |-> 0]
    BY <1>1, <1>2, <1>3 DEF Invitation
  <2>2. invitations[i].responses + 1 = 1
    BY <1>3
  <2>3. left = [[status |-> "pending", expiresAt |-> time, responses |-> 0] EXCEPT !.status = status, !.responses = 1]
    BY <2>1, <2>2
  <2>4. invitations[i].expiresAt = time
    BY <2>1
  <2> HIDE DEF left
  <2> QED
    BY <2>3, <2>4
<1>5. left.status = status /\ left.responses = 1 /\ left.expiresAt = invitations[i].expiresAt
  BY <1>4
<1>6. left \in Invitation
  BY <1>2, <1>4 DEF Invitation
<1>7. Leave(i, status) = left
  BY DEF Leave
<1> HIDE DEF left
<1> QED
  BY <1>1, <1>3, <1>5, <1>6, <1>7

LEMMA SweepStep ==
  ASSUME InviteTypeOK, InviteInv, NEW q \in Inviter, Sweep(q)
  PROVE  InviteTypeOK' /\ InviteInv'
<1> DEFINE now == inviting[q].now
           next == [at |-> "find", now |-> now, swept |-> DOMAIN invitations]
           Late(i) == i \in Pending /\ Overdue(i, now)
<1>1. inviting[q] \in Inviting /\ inviting[q].at = "sweep" /\ invitations \in Seq(Invitation)
  BY DEF Sweep, InviteTypeOK
<1>2. now \in Nat
  BY <1>1 DEF Inviting
<1>3. /\ invitations' = [i \in DOMAIN invitations |-> IF Late(i) THEN Leave(i, "expired") ELSE invitations[i]]
      /\ inviting' = [inviting EXCEPT ![q] = next] /\ UNCHANGED <<revoking, clock>>
  BY DEF Sweep, UNMADE
<1>4. ASSUME NEW i \in DOMAIN invitations
      PROVE  /\ invitations'[i] = (IF Late(i) THEN Leave(i, "expired") ELSE invitations[i])
             /\ invitations'[i] \in Invitation /\ invitations[i] \in Invitation
             /\ invitations'[i].expiresAt = invitations[i].expiresAt
             /\ invitations'[i].status = "pending" => invitations[i].status = "pending" /\ ~Late(i)
  <2>1. invitations[i] \in Invitation
    BY <1>1
  <2>2. CASE Late(i)
    BY <1>3, <2>1, <2>2, LeaveOnce DEF Status
  <2>3. CASE ~Late(i)
    BY <1>3, <2>1, <2>3
  <2> QED
    BY <2>2, <2>3
<1>5. invitations' \in Seq(Invitation) /\ DOMAIN invitations' = DOMAIN invitations
  BY <1>1, <1>3, <1>4
<1>6. Kept
  BY <1>4, <1>5 DEF Kept
<1>7. next \in Inviting
  <2>1. DOMAIN invitations \subseteq Nat
    BY <1>1
  <2> QED
    BY <1>2, <2>1 DEF Inviting
<1>8. InvitingInv(q)'
  <2>1. inviting'[q] = next
    BY <1>3 DEF InviteTypeOK
  <2>2. ASSUME NEW i \in DOMAIN invitations', invitations'[i].status = "pending" PROVE invitations'[i].expiresAt > now
    <3>1. i \in DOMAIN invitations /\ i \in Pending /\ ~Late(i)
      BY <1>4, <1>5, <2>2 DEF Pending
    <3>2. invitations[i].expiresAt \in Nat /\ ~(invitations[i].expiresAt <= now)
      BY <1>4, <3>1 DEF Invitation, Overdue
    <3> QED
      BY <1>2, <1>4, <3>1, <3>2
  <2>3. next.at = "find" /\ next.swept = DOMAIN invitations' /\ next.now = now
    BY <1>5
  <2> HIDE DEF next, now
  <2> QED
    BY <2>1, <2>2, <2>3 DEF InvitingInv, Pending
<1>9. inviting' \in [Inviter -> Inviting] /\ \A p \in Inviter : InvitingInv(p)'
  BY <1>3, <1>6, <1>7, <1>8, InvitingFrame
<1>10. ASSUME NEW i \in DOMAIN invitations PROVE RowInv(i)'
  <2>1. CASE Late(i)
    <3>1. Told(i)' = {} /\ invitations'[i].responses = 1 /\ invitations'[i].status = "expired"
      BY <1>3, <1>4, <2>1, LeaveOnce DEF Status, Told
    <3> QED
      BY <3>1 DEF RowInv
  <2>2. CASE ~Late(i)
    BY <1>3, <1>4, <2>2, RowKept DEF InviteInv
  <2> QED
    BY <2>1, <2>2
<1>11. \A r \in Revoker : revoking'[r].at # "idle" => revoking'[r].row \in DOMAIN invitations'
  BY <1>3, <1>5 DEF InviteInv
<1>12. \A i \in DOMAIN invitations', j \in DOMAIN invitations' :
         invitations'[i].status = "pending" /\ invitations'[j].status = "pending" => i = j
  BY <1>4, <1>5 DEF InviteTypeOK
<1> QED
  BY <1>3, <1>5, <1>9, <1>10, <1>11, <1>12 DEF InviteTypeOK, InviteInv

LEMMA ConflictFound ==
  ASSUME InviteTypeOK, InviteInv, NEW q \in Inviter, inviting[q].at \in {"find", "insert"},
         NEW i \in Pending, Conflict(q, i), UNCHANGED invitations
  PROVE  inviting' \in [Inviter -> Inviting] /\ \A p \in Inviter : InvitingInv(p)'
<1> DEFINE next == [at |-> "conflict", now |-> inviting[q].now, swept |-> inviting[q].swept, with |-> i]
<1>1. inviting[q] \in Inviting /\ i \in DOMAIN invitations /\ invitations \in Seq(Invitation)
  BY DEF InviteTypeOK, Pending
<1>2. inviting[q].now \in Nat /\ inviting[q].swept \in SUBSET Nat
  BY <1>1 DEF Inviting
<1>3. next \in Inviting /\ next.at = "conflict" /\ next.now = inviting[q].now
      /\ next.swept = inviting[q].swept /\ next.with = i
  BY <1>1, <1>2 DEF Inviting
<1>4. inviting' = [inviting EXCEPT ![q] = next] /\ inviting'[q] = next
  BY DEF Conflict, InviteTypeOK
<1> HIDE DEF next
<1>5. invitations[i].expiresAt > inviting[q].now \/ i \notin inviting[q].swept
  BY DEF InviteInv, InvitingInv
<1>6. InvitingInv(q)'
  BY <1>1, <1>3, <1>4, <1>5 DEF InvitingInv
<1>7. Kept
  BY DEF Kept
<1> QED
  BY <1>3, <1>4, <1>6, <1>7, InvitingFrame

LEMMA InsertStep ==
  ASSUME InviteTypeOK, InviteInv, NEW q \in Inviter, InsertInvitation(q), Pending = {}
  PROVE  InviteTypeOK' /\ InviteInv'
<1> DEFINE row == [status |-> "pending", expiresAt |-> inviting[q].expiresAt, responses |-> 0]
           last == Len(invitations) + 1
<1>1. inviting[q] \in Inviting /\ inviting[q].at = "insert" /\ invitations \in Seq(Invitation)
  BY DEF InsertInvitation, InviteTypeOK
<1>2. inviting[q].expiresAt \in Nat
  BY <1>1 DEF Inviting
<1>3. row \in Invitation /\ row.status = "pending" /\ row.responses = 0
  BY <1>2 DEF Invitation, Status
<1>4. invitations' = Append(invitations, row) /\ inviting' = [inviting EXCEPT ![q] = [at |-> "created"]]
      /\ UNCHANGED <<revoking, clock>>
  BY DEF InsertInvitation, UNMADE
<1> HIDE DEF row
<1>5. /\ invitations' \in Seq(Invitation) /\ DOMAIN invitations' = DOMAIN invitations \union {last}
      /\ last \notin DOMAIN invitations /\ invitations'[last] = row
      /\ \A i \in DOMAIN invitations : invitations'[i] = invitations[i]
  BY <1>1, <1>3, <1>4
<1> HIDE DEF last
<1>6. Kept
  BY <1>5 DEF Kept
<1>7. InvitingInv(q)'
  BY <1>4 DEF InvitingInv, InviteTypeOK
<1>8. inviting' \in [Inviter -> Inviting] /\ \A p \in Inviter : InvitingInv(p)'
  BY <1>4, <1>6, <1>7, InvitingFrame DEF Inviting
<1>9. ASSUME NEW i \in DOMAIN invitations' PROVE RowInv(i)'
  <2>1. CASE i \in DOMAIN invitations
    BY <1>4, <1>5, <2>1, RowKept DEF InviteInv
  <2>2. CASE i = last
    <3>1. Told(i)' = {}
      BY <1>4, <1>5, <2>2 DEF Told, InviteInv
    <3> QED
      BY <1>3, <1>5, <2>2, <3>1 DEF RowInv
  <2> QED
    BY <1>5, <2>1, <2>2
<1>10. \A r \in Revoker : revoking'[r].at # "idle" => revoking'[r].row \in DOMAIN invitations'
  BY <1>4, <1>5 DEF InviteInv
<1>11. \A i \in DOMAIN invitations', j \in DOMAIN invitations' :
         invitations'[i].status = "pending" /\ invitations'[j].status = "pending" => i = j
  BY <1>5 DEF Pending
<1> QED
  BY <1>4, <1>5, <1>8, <1>9, <1>10, <1>11 DEF InviteTypeOK, InviteInv

(* The update conditional on pending lets one revocation through.          *)
LEMMA CommitRevokeStep ==
  ASSUME InviteTypeOK, InviteInv, NEW r \in Revoker, CommitRevoke(r)
  PROVE  InviteTypeOK' /\ InviteInv'
<1>1. revoking[r] \in Revoking /\ revoking[r].at = "found" /\ UNCHANGED <<inviting, clock>> /\ invitations \in Seq(Invitation)
  BY DEF CommitRevoke, InviteTypeOK, UNMADE
<1>2. PICK i \in DOMAIN invitations : i = revoking[r].row
  BY <1>1 DEF InviteInv
<1>3. CASE StillPending(i)
  <2>1. i \in Pending
    BY <1>3 DEF StillPending, Pending
  <2>2. invitations' = [invitations EXCEPT ![i] = Leave(i, "revoked")] /\ revoking' = [revoking EXCEPT ![r].at = "revoked"]
    BY <1>2, <1>3 DEF CommitRevoke
  <2>3. Told(i) = {} /\ Leave(i, "revoked") \in Invitation /\ Leave(i, "revoked").status = "revoked"
        /\ Leave(i, "revoked").responses = 1 /\ Leave(i, "revoked").expiresAt = invitations[i].expiresAt
    BY <2>1, LeaveOnce DEF Status
  <2>4. /\ invitations' \in Seq(Invitation) /\ DOMAIN invitations' = DOMAIN invitations
        /\ invitations'[i] = Leave(i, "revoked")
        /\ \A j \in DOMAIN invitations \ {i} : invitations'[j] = invitations[j]
    BY <1>1, <1>2, <2>2, <2>3
  <2>5. Kept
    BY <2>3, <2>4 DEF Kept
  <2>6. \A q \in Inviter : InvitingInv(q)'
    BY <1>1, <2>5, InvitingKept DEF InviteInv
  <2>7. /\ revoking' \in [Revoker -> Revoking] /\ revoking'[r].at = "revoked" /\ revoking'[r].row = i
        /\ \A s \in Revoker \ {r} : revoking'[s] = revoking[s]
    BY <1>1, <1>2, <2>2 DEF InviteTypeOK, Revoking
  <2>8. RowInv(i)'
    <3>1. Told(i)' = {r}
      BY <2>3, <2>7 DEF Told
    <3> QED
      BY <2>3, <2>4, <3>1 DEF RowInv
  <2>9. ASSUME NEW j \in DOMAIN invitations \ {i} PROVE RowInv(j)'
    <3>1. Told(j)' = Told(j)
      BY <1>1, <2>7 DEF Told
    <3> QED
      BY <2>4, <3>1 DEF RowInv, InviteInv
  <2>10. \A s \in Revoker : revoking'[s].at # "idle" => revoking'[s].row \in DOMAIN invitations'
    BY <1>2, <2>4, <2>7 DEF InviteInv
  <2>11. \A j \in DOMAIN invitations', k \in DOMAIN invitations' :
           invitations'[j].status = "pending" /\ invitations'[k].status = "pending" => j = k
    BY <2>3, <2>4 DEF InviteTypeOK
  <2> QED
    BY <1>1, <2>4, <2>6, <2>7, <2>8, <2>9, <2>10, <2>11 DEF InviteTypeOK, InviteInv
<1>4. CASE ~StillPending(i)
  <2>1. UNCHANGED invitations /\ revoking' = [revoking EXCEPT ![r].at = "refused"]
    BY <1>2, <1>4 DEF CommitRevoke
  <2>2. /\ revoking' \in [Revoker -> Revoking] /\ revoking'[r].at = "refused" /\ revoking'[r].row = i
        /\ \A s \in Revoker \ {r} : revoking'[s] = revoking[s]
    BY <1>1, <1>2, <2>1 DEF InviteTypeOK, Revoking
  <2>3. \A j : Told(j)' = Told(j)
    BY <1>1, <2>2 DEF Told
  <2>4. \A j \in DOMAIN invitations : RowInv(j)'
    BY <2>1, <2>3 DEF RowInv, InviteInv
  <2>5. \A q \in Inviter : InvitingInv(q)'
    BY <1>1, <2>1, InvitingKept DEF InviteInv, Kept
  <2> QED
    BY <1>1, <1>2, <2>1, <2>2, <2>4, <2>5 DEF InviteTypeOK, InviteInv
<1> QED
  BY <1>3, <1>4

(* A step that writes no row and answers no revocation.                    *)
LEMMA RowsUntouched ==
  ASSUME InviteTypeOK, InviteInv, UNCHANGED <<invitations, revoking, clock>>,
         inviting' \in [Inviter -> Inviting], \A p \in Inviter : InvitingInv(p)'
  PROVE  InviteTypeOK' /\ InviteInv'
<1>1. \A i \in DOMAIN invitations : RowInv(i)'
  BY RowKept DEF InviteInv
<1> QED
  BY <1>1 DEF InviteTypeOK, InviteInv

LEMMA InviteStep ==
  ASSUME InviteTypeOK, InviteInv, InviteNext
  PROVE  InviteTypeOK' /\ InviteInv'
<1> USE DEF UNMADE
<1>1. ASSUME NEW q \in Inviter, Invite(q) PROVE InviteTypeOK' /\ InviteInv'
  <2> DEFINE next == [at |-> "sweep", now |-> clock]
  <2>1. next \in Inviting /\ next.at = "sweep" /\ inviting' = [inviting EXCEPT ![q] = next] /\ inviting'[q] = next
    BY <1>1 DEF Invite, Inviting, InviteTypeOK
  <2> HIDE DEF next
  <2>2. Kept /\ InvitingInv(q)'
    BY <1>1, <2>1 DEF Invite, Kept, InvitingInv
  <2> QED
    BY <1>1, <2>1, <2>2, InvitingFrame, RowsUntouched DEF Invite
<1>2. ASSUME NEW q \in Inviter, FindPending(q) PROVE InviteTypeOK' /\ InviteInv'
  <2>1. inviting[q] \in Inviting /\ inviting[q].at = "find" /\ UNCHANGED <<invitations, revoking, clock>>
    BY <1>2 DEF FindPending, InviteTypeOK
  <2>2. CASE Pending = {}
    <3> DEFINE next == [at |-> "insert", now |-> inviting[q].now, swept |-> inviting[q].swept, expiresAt |-> clock + Lifetime]
    <3>1. inviting[q].now \in Nat /\ inviting[q].swept \in SUBSET Nat /\ clock + Lifetime \in Nat
      BY <2>1 DEF Inviting, InviteTypeOK
    <3>2. next \in Inviting /\ next.at = "insert" /\ next.now = inviting[q].now /\ next.swept = inviting[q].swept
      BY <3>1 DEF Inviting
    <3>3. inviting' = [inviting EXCEPT ![q] = next] /\ inviting'[q] = next
      BY <1>2, <2>2 DEF FindPending, InviteTypeOK
    <3> HIDE DEF next
    <3>4. InvitingInv(q)'
      BY <2>1, <3>2, <3>3 DEF InvitingInv, InviteInv, Pending
    <3>5. Kept
      BY <2>1 DEF Kept
    <3> QED
      BY <2>1, <3>2, <3>3, <3>4, <3>5, InvitingFrame, RowsUntouched
  <2>3. CASE \E i \in Pending : Conflict(q, i)
    BY <2>1, <2>3, ConflictFound, RowsUntouched
  <2> QED
    BY <1>2, <2>2, <2>3 DEF FindPending
<1>3. ASSUME NEW q \in Inviter, InsertInvitation(q) PROVE InviteTypeOK' /\ InviteInv'
  <2>1. CASE Pending = {}
    BY <1>3, <2>1, InsertStep
  <2>2. CASE Pending # {}
    <3>1. inviting[q].at = "insert" /\ UNCHANGED <<invitations, revoking, clock>> /\ \E i \in Pending : Conflict(q, i)
      BY <1>3, <2>2 DEF InsertInvitation
    <3> QED
      BY <3>1, ConflictFound, RowsUntouched
  <2> QED
    BY <2>1, <2>2
<1>4. ASSUME NEW r \in Revoker, Revoke(r) PROVE InviteTypeOK' /\ InviteInv'
  <2>1. PICK i \in DOMAIN invitations : revoking' = [revoking EXCEPT ![r] = [at |-> "found", row |-> i]]
    BY <1>4 DEF Revoke
  <2>2. revoking[r].at = "idle" /\ UNCHANGED <<invitations, inviting, clock>> /\ i \in Nat
    BY <1>4 DEF Revoke, InviteTypeOK
  <2>3. revoking' \in [Revoker -> Revoking] /\ revoking'[r] = [at |-> "found", row |-> i]
        /\ \A s \in Revoker \ {r} : revoking'[s] = revoking[s]
    BY <2>1, <2>2 DEF InviteTypeOK, Revoking
  <2>4. \A j : Told(j)' = Told(j)
    BY <2>2, <2>3 DEF Told
  <2>5. \A j \in DOMAIN invitations : RowInv(j)'
    BY <2>2, <2>4 DEF RowInv, InviteInv
  <2>6. \A q \in Inviter : InvitingInv(q)'
    BY <2>2, InvitingKept DEF InviteInv, Kept
  <2> QED
    BY <2>2, <2>3, <2>5, <2>6 DEF InviteTypeOK, InviteInv
<1> QED
  BY <1>1, <1>2, <1>3, <1>4, SweepStep, CommitRevokeStep DEF InviteNext

-----------------------------------------------------------------------------
(* The module                                                              *)

LEMMA TypeParts ==
  LifecycleTypeOK <=> CreateTypeOK /\ InviteTypeOK
BY DEF LifecycleTypeOK, CreateTypeOK, InviteTypeOK

LEMMA LifecycleStarts ==
  LifecycleInit => LifecycleInv
<1> SUFFICES ASSUME LifecycleInit PROVE LifecycleInv
  OBVIOUS
<1>1. \A p \in Person : Cardinality({t \in Owned(p) : t.selfService}) = 0
  <2>1. \A p \in Person : {t \in Owned(p) : t.selfService} = {}
    BY DEF LifecycleInit, Owned
  <2> QED
    BY <2>1, FS_EmptySet
<1>2. CreateTypeOK
  BY FS_EmptySet DEF LifecycleInit, CreateTypeOK, Creation
<1>3. CreateInv
  BY <1>1 DEF LifecycleInit, CreateInv, CreationInv, QuotaHolds
<1>4. InviteTypeOK
  BY DEF LifecycleInit, InviteTypeOK, Inviting, Revoking
<1>5. InviteInv
  BY DEF LifecycleInit, InviteInv, InvitingInv
<1> QED
  BY <1>2, <1>3, <1>4, <1>5, TypeParts DEF LifecycleInv

LEMMA LifecycleStep ==
  LifecycleInv /\ [LifecycleNext]_lifecycleVars => LifecycleInv'
<1> SUFFICES ASSUME LifecycleInv, [LifecycleNext]_lifecycleVars PROVE LifecycleInv'
  OBVIOUS
<1>1. CreateTypeOK /\ CreateInv /\ InviteTypeOK /\ InviteInv
  BY TypeParts DEF LifecycleInv
<1>0. CreateTypeOK' /\ CreateInv' /\ InviteTypeOK' /\ InviteInv' => LifecycleInv'
  BY DEF LifecycleInv, LifecycleTypeOK, CreateTypeOK, InviteTypeOK
<1>2. ASSUME UNCHANGED inviteVars PROVE InviteTypeOK' /\ InviteInv'
  <2>1. \A i \in DOMAIN invitations : RowInv(i)'
    BY <1>1, <1>2, RowKept DEF InviteInv, inviteVars
  <2>2. \A q \in Inviter : InvitingInv(q)'
    BY <1>1, <1>2, InvitingKept DEF InviteInv, Kept, inviteVars
  <2> QED
    BY <1>1, <1>2, <2>1, <2>2 DEF InviteTypeOK, InviteInv, inviteVars
<1>3. CASE CreateNext
  <2>1. UNCHANGED inviteVars
    BY <1>3 DEF CreateNext, Create, CountOwned, Commit, SlugConflict, SerializationFailure, UNUSED, inviteVars
  <2> QED
    BY <1>1, <1>2, <1>3, <2>1, CreateStep, <1>0
<1>4. CASE InviteNext
  <2>1. UNCHANGED createVars
    BY <1>4 DEF InviteNext, Invite, Sweep, FindPending, InsertInvitation, Revoke, CommitRevoke, UNMADE, createVars
  <2> QED
    BY <1>1, <1>4, <2>1, CreateStep, InviteStep, <1>0
<1>5. CASE TimePasses
  <2>1. UNCHANGED createVars /\ UNCHANGED <<invitations, inviting, revoking>> /\ clock' \in 0..MaxClock
    BY <1>1, <1>5 DEF TimePasses, createVars, InviteTypeOK
  <2>2. \A i \in DOMAIN invitations : RowInv(i)'
    BY <1>1, <2>1, RowKept DEF InviteInv
  <2>3. \A q \in Inviter : InvitingInv(q)'
    BY <1>1, <2>1, InvitingKept DEF InviteInv, Kept
  <2>4. InviteTypeOK' /\ InviteInv'
    BY <1>1, <2>1, <2>2, <2>3 DEF InviteTypeOK, InviteInv
  <2> QED
    BY <1>1, <2>1, <2>4, CreateStep, <1>0
<1>6. CASE UNCHANGED lifecycleVars
  <2>1. UNCHANGED createVars /\ UNCHANGED inviteVars
    BY <1>6 DEF lifecycleVars, createVars, inviteVars
  <2> QED
    BY <1>1, <1>2, <2>1, CreateStep, <1>0
<1> QED
  BY <1>3, <1>4, <1>5, <1>6 DEF LifecycleNext

LEMMA LifecycleInvHolds ==
  LifecycleSpec => []LifecycleInv
BY LifecycleStarts, LifecycleStep, PTL DEF LifecycleSpec

-----------------------------------------------------------------------------
(* Theorems                                                                *)

(* Rows and requests keep their shape: slugs are unique among tenants, one *)
(* invitation of an address is pending at most (the unique indexes).       *)
THEOREM LifecycleTypeCorrect ==
  LifecycleSpec => []LifecycleTypeOK
BY LifecycleInvHolds, PTL DEF LifecycleInv

(* createSelfServiceTenant: whatever requests of one user overlap, the     *)
(* count in a serializable transaction keeps the limit.                    *)
THEOREM QuotaCorrect ==
  LifecycleSpec => []QuotaHolds
<1>1. LifecycleInv => QuotaHolds
  BY DEF LifecycleInv, CreateInv
<1> QED
  BY <1>1, LifecycleInvHolds, PTL

(* A creation answers taken only when every slug it could try is, and an   *)
(* invitation answers conflict only for a row that stood in its way.       *)
THEOREM ConflictCorrect ==
  LifecycleSpec => []ConflictIsReal
<1>1. LifecycleInv => ConflictIsReal
  BY DEF LifecycleInv, CreateInv, CreationInv, InviteInv, InvitingInv, ConflictIsReal
<1> QED
  BY <1>1, LifecycleInvHolds, PTL

(* An invitation leaves pending once and one request is told that it       *)
(* revoked it, whatever the order of sweeps and revocations.               *)
THEOREM LeavesCorrect ==
  LifecycleSpec => []LeavesPendingOnce
<1>1. ASSUME LifecycleInv, NEW i \in DOMAIN invitations
      PROVE  /\ invitations[i].responses = IF invitations[i].status = "pending" THEN 0 ELSE 1
             /\ Cardinality(Told(i)) = IF invitations[i].status = "revoked" THEN 1 ELSE 0
  <2>1. RowInv(i)
    BY <1>1 DEF LifecycleInv, InviteInv
  <2> QED
    BY <2>1, FS_EmptySet, FS_Singleton DEF RowInv
<1>2. LifecycleInv => LeavesPendingOnce
  BY <1>1 DEF LeavesPendingOnce, Told
<1> QED
  BY <1>2, LifecycleInvHolds, PTL
=============================================================================
