------------------------- MODULE TenantGroupsProofs -------------------------
(***************************************************************************)
(* Proofs about TenantGroups, for any number of requests, passes, users,   *)
(* updates and failures.                                                   *)
(***************************************************************************)
EXTENDS TenantGroups, SequenceTheorems, TLAPS

USE GroupAssumption

InHand == {"insert", "write", "ok", "failed", "guard", "revoke", "unmark", "delete"}

(* What a worker has in hand at its place.  Only the deletion of the whole *)
(* group gives a request a list, from which it takes what it revokes.      *)
WorkInv ==
    /\ \A w \in Worker : pc[w] \in InHand => job[w] \in Membership
    /\ \A p \in Pass : pc[p] \in {"idle", "next", "write", "ok", "failed"}
    /\ \A c \in Call :
         /\ pc[c] # "next"
         /\ todo[c] # {} => pc[c] = "members" \/ (pc[c] \in {"revoke", "unmark"} /\ job[c] \in todo[c])

WrittenInv ==
    /\ SyncedWasWritten
    /\ \A w \in Worker : pc[w] = "ok" => job[w].id \in written

(* A tuple stands exactly for a synced row. *)
Exact(u) == u \in tuples <=> rows[u] # None /\ rows[u].sync = "synced"

Holds(w, u) == job[w] # None /\ job[w].user = u
RowInHand(w, u) == rows[u] # None /\ rows[u].id = job[w].id
Deleting(c) == c \in Call /\ (pc[c] = "members" \/ todo[c] # {})

(* A worker knows the row it works on: what it holds or has listed is what *)
(* the table and OpenFGA still say, as long as nobody else meets the user. *)
Fits(w, u) ==
    /\ Holds(w, u) =>
         /\ pc[w] \in {"write", "ok", "failed", "delete"} => RowInHand(w, u) /\ rows[u].sync # "synced"
         /\ pc[w] \in {"guard", "revoke", "unmark"} => rows[u] # None /\ job[w] = Of(u)
         /\ pc[w] \in {"revoke", "unmark"} => rows[u].sync = "synced"
         /\ pc[w] = "ok" => u \in tuples
         /\ pc[w] = "unmark" => u \notin tuples
         /\ pc[w] \in {"write", "ok", "failed"} => \A member \in todo[w] : member.user # u
    /\ \A member \in todo[w] : member.user = u =>
         rows[u] # None /\ member = Of(u) /\ (rows[u].sync = "synced" <=> w \in Call)
    /\ Deleting(w) /\ rows[u] # None /\ rows[u].sync = "synced" => Of(u) \in todo[w]

(* Between its request to OpenFGA and its record of the answer. *)
Between(w, u) == pc[w] \in {"ok", "unmark"} /\ Holds(w, u)

Settled(u) ==
    /\ Exact(u) \/ \E w \in Worker : Between(w, u)
    /\ \A w \in Worker : Fits(w, u)

SettleInv == Contended \subseteq muddled /\ \A u \in User \ muddled : Settled(u)

(* EventsTellRows for the group and for one user.  The last event about    *)
(* the group tells its name.                                               *)
Named == {n \in DOMAIN outbox : outbox[n][1] \in {"created", "updated", "deleted"}}
GroupTold ==
    IF Named = {} THEN group = None
    ELSE \E n \in Named : (\A m \in Named : m <= n) /\ group = outbox[n][2]
DeletedOnce ==
    \A n \in DOMAIN outbox : outbox[n][1] = "deleted" => \A m \in n + 1..Len(outbox) : m \notin Named

About(u) == {n \in 1..Len(outbox) : outbox[n] \in {<<"member_added", u>>, <<"member_removed", u>>, <<"deleted", None>>}}
Added(u) == {n \in About(u) : outbox[n] = <<"member_added", u>>}
RowTold(u) ==
    /\ (rows[u] # None) <=> \E n \in Added(u) : \A m \in About(u) : m <= n
    /\ \A n \in 1..Len(outbox) : outbox[n] = <<"member_removed", u>> =>
           \E m \in Added(u) : m < n /\ \A k \in About(u) : ~(m < k /\ k < n)

EventInv == GroupTold /\ DeletedOnce /\ \A u \in User : RowTold(u)

Inv == TypeOK /\ WorkInv /\ WrittenInv /\ SettleInv /\ EventInv

-----------------------------------------------------------------------------
(* Types and places                                                        *)

LEMMA MuddleStep ==
  ASSUME TypeOK, WorkInv, [Next]_vars
  PROVE  /\ muddled' \in SUBSET User
         /\ muddled \subseteq muddled'
         /\ Contended' \subseteq muddled' \/ UNCHANGED vars
<1>1. Contended' \subseteq User
  BY DEF Contended
<1>2. CASE Remember
  BY <1>1, <1>2 DEF Remember, TypeOK
<1>3. ASSUME NEW w \in Worker, LoseAnswer(w) \/ Crash(w)
      PROVE  muddled' = muddled \union Contended' \union Unanswered(w) /\ Unanswered(w) \subseteq User
  <2>1. Unanswered(w) \subseteq User
    BY DEF Unanswered, WorkInv, InHand, Membership
  <2> QED
    BY <1>3, <2>1 DEF LoseAnswer, Crash
<1>4. CASE \E w \in Worker : LoseAnswer(w) \/ Crash(w)
  BY <1>1, <1>3, <1>4 DEF TypeOK
<1>5. CASE UNCHANGED vars
  BY <1>5 DEF vars, TypeOK
<1>6. Next => Remember \/ \E w \in Worker : LoseAnswer(w) \/ Crash(w)
  <2>1. ASSUME NEW c \in Call, CallStep(c) PROVE Remember
    BY <2>1 DEF CallStep, Insert, AddTuple, RecordSyncResult, GuardOwner, RevokeTuple, Unmark, DeleteRow,
       ListMembers, NextMember, DeleteGroup
  <2>2. ASSUME NEW p \in Pass, PassStep(p) PROVE Remember
    BY <2>2 DEF PassStep, StartPass, NextRow, AddTuple, RecordSyncResult
  <2> QED
    BY <2>1, <2>2 DEF Next, StartDelete, Update, Create, StartAdd, StartRemove, Outage, SetOwner
<1> QED
  BY <1>2, <1>4, <1>5, <1>6

(* The rows a worker may list. *)
LEMMA ListedTyped ==
  ASSUME TypeOK, NEW statuses
  PROVE  /\ Listed(statuses) \subseteq Membership
         /\ \A u \in User : rows[u] # None => Of(u) \in Membership
BY DEF TypeOK, Listed, Of, Row, Membership

LEMMA WorkStep ==
  ASSUME TypeOK, WorkInv, [Next]_vars
  PROVE  /\ pc' \in [Worker -> Place]
         /\ job' \in [Worker -> Membership \union {None}]
         /\ todo' \in [Worker -> SUBSET Membership]
         /\ WorkInv'
<1> DEFINE Good == /\ pc' \in [Worker -> Place]
                   /\ job' \in [Worker -> Membership \union {None}]
                   /\ todo' \in [Worker -> SUBSET Membership]
                   /\ WorkInv'
<1> USE DEF Worker, InHand, Place
<1>1. ASSUME NEW w \in Worker, Done(w) PROVE Good
  BY <1>1 DEF Done, TypeOK, WorkInv
<1>2. ASSUME NEW c \in Call, NEW member \in Membership, NEW place \in {"insert", "write", "guard"},
             Take(c, member, place), todo[c] = {}
      PROVE  Good
  BY <1>2 DEF Take, TypeOK, WorkInv
<1>3. ASSUME NEW c \in Call, NextMember(c) PROVE Good
  BY <1>3 DEF NextMember, Take, TypeOK, WorkInv
<1>4. ASSUME NEW w \in Worker, NEW place \in {"ok", "failed"}, pc[w] = "write", Goto(w, place) PROVE Good
  BY <1>4 DEF Goto, TypeOK, WorkInv
<1>5. ASSUME NEW c \in Call, GuardOwner(c) PROVE Good
  <2>1. CASE pc[c] = "guard" /\ Goto(c, IF job[c].sync = "synced" THEN "revoke" ELSE "delete")
    BY <2>1 DEF Goto, TypeOK, WorkInv
  <2>2. CASE pc[c] = "groupguard" /\ Goto(c, "list")
    BY <2>2 DEF Goto, TypeOK, WorkInv
  <2> QED
    BY <1>1, <1>5, <2>1, <2>2 DEF GuardOwner
<1>6. ASSUME NEW c \in Call, RevokeTuple(c) PROVE Good
  <2>1. CASE Goto(c, "unmark")
    BY <1>6, <2>1 DEF RevokeTuple, Goto, TypeOK, WorkInv
  <2> QED
    BY <1>1, <1>6, <2>1 DEF RevokeTuple
<1>7. ASSUME NEW c \in Call, Unmark(c) PROVE Good
  BY <1>7 DEF Unmark, TypeOK, WorkInv
<1>8. ASSUME NEW c \in Call, ListMembers(c) PROVE Good
  BY <1>8, ListedTyped DEF ListMembers, TypeOK, WorkInv
<1>9. ASSUME NEW c \in Call, Insert(c) PROVE Good
  <2>1. job[c].user \in User /\ todo[c] = {}
    BY <1>9 DEF Insert, WorkInv, Membership
  <2>2. [user |-> job[c].user, id |-> ids + 1, sync |-> "pending"] \in Membership
    BY <2>1 DEF TypeOK, Membership, SyncStatus
  <2> QED
    BY <1>1, <1>2, <1>9, <2>1, <2>2, ListedTyped DEF Insert
<1>10. ASSUME NEW c \in Call, NEW u \in User, StartAdd(c, u) \/ StartRemove(c, u) PROVE Good
  <2>1. todo[c] = {}
    BY <1>10 DEF StartAdd, StartRemove, WorkInv
  <2>2. [user |-> u, id |-> 0, sync |-> "pending"] \in Membership
    BY DEF Membership, SyncStatus
  <2> QED
    BY <1>2, <1>10, <2>1, <2>2, ListedTyped DEF StartAdd, StartRemove
<1>11. ASSUME NEW c \in Call, StartDelete(c) PROVE Good
  BY <1>11 DEF StartDelete, Goto, TypeOK, WorkInv
<1>12. ASSUME NEW p \in Pass, StartPass(p) PROVE Good
  BY <1>12, ListedTyped DEF StartPass, TypeOK, WorkInv
<1>13. ASSUME NEW p \in Pass, NextRow(p) PROVE Good
  BY <1>13 DEF NextRow, Goto, TypeOK, WorkInv
<1>14. ASSUME NEW w \in Worker, Crash(w) PROVE Good
  BY <1>14 DEF Crash, TypeOK, WorkInv
<1>15. CASE UNCHANGED work
  BY <1>15 DEF work, TypeOK, WorkInv
<1>16. ASSUME NEW w \in Worker, AddTuple(w) \/ RecordSyncResult(w) \/ Outage(w) \/ LoseAnswer(w) PROVE Good
  BY <1>1, <1>4, <1>16 DEF AddTuple, RecordSyncResult, Outage, LoseAnswer
<1>17. ASSUME NEW c \in Call, CallStep(c) PROVE Good
  BY <1>1, <1>3, <1>5, <1>6, <1>7, <1>8, <1>9, <1>16, <1>17 DEF CallStep, DeleteRow, DeleteGroup
<1>18. ASSUME NEW p \in Pass, PassStep(p) PROVE Good
  BY <1>12, <1>13, <1>16, <1>18 DEF PassStep
<1> QED
  BY <1>10, <1>11, <1>14, <1>15, <1>16, <1>17, <1>18 DEF Next, Update, Create, SetOwner, vars

(* Rows, events and OpenFGA's side of a step. *)
LEMMA SetSyncTyped ==
  ASSUME TypeOK, NEW u \in User, rows[u] # None, NEW status \in SyncStatus, SetSync(u, status)
  PROVE  /\ rows' \in [User -> Row \union {None}]
         /\ rows'[u] # None /\ rows'[u].id = rows[u].id /\ rows'[u].sync = status
         /\ \A v \in User \ {u} : rows'[v] = rows[v]
<1>1. rows[u] \in Row
  BY DEF TypeOK
<1>2. [rows[u] EXCEPT !.sync = status] \in Row /\ [rows[u] EXCEPT !.sync = status].id = rows[u].id
  BY <1>1 DEF Row
<1> QED
  BY <1>1, <1>2 DEF SetSync, TypeOK, Row

DataOK ==
    /\ group \in Name \union {None}
    /\ rows \in [User -> Row \union {None}]
    /\ ids \in Nat
    /\ \A u \in User : rows[u] # None => rows[u].id <= ids
    /\ outbox \in Seq(Event)

LEMMA DataStep ==
  ASSUME TypeOK, WorkInv, [Next]_vars
  PROVE  DataOK'
<1> USE DEF InHand
<1>1. CASE UNCHANGED local
  BY <1>1 DEF local, TypeOK, DataOK
<1>2. ASSUME NEW u \in User, rows[u] # None, NEW status \in SyncStatus, SetSync(u, status),
             UNCHANGED <<group, ids, outbox>>
      PROVE  DataOK'
  <2>1. \A v \in User : rows'[v] # None => rows[v] # None /\ rows'[v].id = rows[v].id
    BY <1>2, SetSyncTyped
  <2>2. rows' \in [User -> Row \union {None}]
    BY <1>2, SetSyncTyped
  <2> QED
    BY <1>2, <2>1, <2>2 DEF DataOK, TypeOK
<1>3. ASSUME NEW w \in Worker, RecordSyncResult(w) PROVE DataOK'
  <2>1. job[w].user \in User
    BY <1>3 DEF RecordSyncResult, WorkInv, Membership
  <2>2. CASE UNCHANGED rows
    BY <1>1, <1>3, <2>2 DEF RecordSyncResult, local
  <2> QED
    BY <1>2, <1>3, <2>1, <2>2 DEF RecordSyncResult, SameRow, SyncStatus
<1>4. ASSUME NEW c \in Call, Unmark(c) PROVE DataOK'
  <2>1. job[c].user \in User
    BY <1>4 DEF Unmark, WorkInv, Membership, Worker
  <2>2. CASE UNCHANGED rows
    BY <1>1, <1>4, <2>2 DEF Unmark, local
  <2> QED
    BY <1>2, <1>4, <2>1, <2>2 DEF Unmark, SameRow, SyncStatus
<1>5. ASSUME NEW c \in Call, Insert(c) PROVE DataOK'
  <2>1. job[c].user \in User
    BY <1>5 DEF Insert, WorkInv, Membership, Worker
  <2>2. CASE UNCHANGED <<rows, ids, outbox>>
    BY <1>1, <1>5, <2>2 DEF Insert, local
  <2>3. CASE /\ ids' = ids + 1
             /\ rows' = [rows EXCEPT ![job[c].user] = [id |-> ids + 1, sync |-> "pending"]]
             /\ outbox' = Append(outbox, <<"member_added", job[c].user>>)
    <3>1. <<"member_added", job[c].user>> \in Event
      BY <2>1 DEF Event
    <3>2. outbox' \in Seq(Event)
      BY <2>3, <3>1 DEF TypeOK
    <3>3. [id |-> ids + 1, sync |-> "pending"] \in Row
      BY DEF TypeOK, Row, SyncStatus
    <3>4. rows' \in [User -> Row \union {None}]
      BY <2>1, <2>3, <3>3 DEF TypeOK
    <3>5. \A u \in User : rows'[u] # None => rows'[u].id <= ids'
      <4>1. \A u \in User : rows[u] # None => rows[u].id \in Nat
        BY DEF TypeOK, Row
      <4> QED
        BY <2>1, <2>3, <4>1 DEF TypeOK
    <3> QED
      BY <1>5, <2>3, <3>2, <3>4, <3>5 DEF DataOK, TypeOK, Insert
  <2> QED
    BY <1>5, <2>2, <2>3 DEF Insert
<1>6. ASSUME NEW us, rows' = Without(us), NEW e \in Event, outbox' = Append(outbox, e),
             UNCHANGED ids, group' \in {group, None}
      PROVE  DataOK'
  BY <1>6 DEF Without, DataOK, TypeOK
<1>7. ASSUME NEW c \in Call, DeleteRow(c) \/ DeleteGroup(c) PROVE DataOK'
  <2>1. CASE UNCHANGED local
    BY <1>1, <2>1
  <2>2. DeleteRow(c) => job[c].user \in User
    BY <1>7 DEF DeleteRow, WorkInv, Membership, Worker
  <2>3. <<"deleted", None>> \in Event /\ (DeleteRow(c) => <<"member_removed", job[c].user>> \in Event)
    BY <2>2 DEF Event
  <2> QED
    BY <1>6, <1>7, <2>1, <2>3 DEF DeleteRow, DeleteGroup, local
<1>8. ASSUME NEW c \in Call, NEW name \in Name, Create(c, name) PROVE DataOK'
  <2>1. <<"created", name>> \in Event
    BY DEF Event
  <2> QED
    BY <1>8, <2>1 DEF Create, DataOK, TypeOK
<1>9. ASSUME NEW c \in Call, Update(c) PROVE DataOK'
  <2>1. <<"updated", group'>> \in Event /\ group' \in Name
    BY <1>9 DEF Event, Update
  <2> QED
    BY <1>9, <2>1 DEF Update, DataOK, TypeOK
<1>10. ASSUME NEW c \in Call, CallStep(c) PROVE DataOK'
  BY <1>1, <1>3, <1>4, <1>5, <1>7, <1>10
  DEF CallStep, AddTuple, GuardOwner, RevokeTuple, ListMembers, NextMember, Worker
<1>11. ASSUME NEW p \in Pass, PassStep(p) PROVE DataOK'
  BY <1>1, <1>3, <1>11 DEF PassStep, StartPass, NextRow, AddTuple, Worker
<1> QED
  BY <1>1, <1>8, <1>9, <1>10, <1>11
  DEF Next, StartDelete, StartAdd, StartRemove, Outage, LoseAnswer, Crash, SetOwner, vars

StoreOK ==
    /\ tuples \in SUBSET User
    /\ owner \in BOOLEAN
    /\ failures \in 0..MaxFailures
    /\ written \in SUBSET Nat

LEMMA StoreStep ==
  ASSUME TypeOK, WorkInv, [Next]_vars
  PROVE  StoreOK'
<1>1. ASSUME NEW w \in Worker, pc[w] \in InHand PROVE job[w].user \in User /\ job[w].id \in Nat
  BY <1>1 DEF WorkInv, Membership
<1>2. CASE UNCHANGED <<tuples, owner, written, failures>>
  BY <1>2 DEF TypeOK, StoreOK
<1>3. ASSUME NEW w \in Worker, pc[w] \in InHand, WriteTuple(w), UNCHANGED owner, UNCHANGED failures \/ Fail
      PROVE  StoreOK'
  <2>1. tuples' \in SUBSET User /\ written' \in SUBSET Nat
    BY <1>1, <1>3 DEF WriteTuple, Applied, TypeOK
  <2>2. failures' \in 0..MaxFailures
    BY <1>3 DEF Fail, TypeOK
  <2> QED
    BY <1>3, <2>1, <2>2 DEF TypeOK, StoreOK
<1>4. ASSUME NEW w \in Worker, DeleteTuple(w), UNCHANGED <<owner, written>>, UNCHANGED failures \/ Fail
      PROVE  StoreOK'
  BY <1>4 DEF DeleteTuple, Applied, Fail, TypeOK, StoreOK
<1>5. ASSUME Fail, UNCHANGED <<tuples, owner, written>> PROVE StoreOK'
  BY <1>5 DEF Fail, TypeOK, StoreOK
<1>6. ASSUME NEW w \in Worker, AddTuple(w) PROVE StoreOK'
  BY <1>2, <1>3, <1>6 DEF AddTuple, InHand
<1>7. ASSUME NEW c \in Call, RevokeTuple(c) PROVE StoreOK'
  BY <1>2, <1>4, <1>7 DEF RevokeTuple, Worker
<1>8. ASSUME NEW w \in Worker, Outage(w) \/ LoseAnswer(w) \/ Crash(w) PROVE StoreOK'
  BY <1>3, <1>4, <1>5, <1>8 DEF Outage, LoseAnswer, Crash, InHand, fga
<1>9. ASSUME NEW c \in Call, CallStep(c) PROVE StoreOK'
  BY <1>2, <1>6, <1>7, <1>9 DEF CallStep, Worker, fga, Insert, RecordSyncResult, GuardOwner, Unmark, DeleteRow,
     ListMembers, NextMember, DeleteGroup
<1>10. ASSUME NEW p \in Pass, PassStep(p) PROVE StoreOK'
  BY <1>2, <1>6, <1>10 DEF PassStep, Worker, fga, RecordSyncResult, StartPass, NextRow
<1>11. CASE SetOwner
  BY <1>11 DEF SetOwner, TypeOK, StoreOK
<1> QED
  BY <1>2, <1>8, <1>9, <1>10, <1>11 DEF Next, StartDelete, Update, Create, StartAdd, StartRemove, vars, fga

LEMMA TypeStep ==
  ASSUME TypeOK, WorkInv, [Next]_vars
  PROVE  TypeOK' /\ WorkInv'
BY MuddleStep, WorkStep, DataStep, StoreStep DEF DataOK, StoreOK, TypeOK

-----------------------------------------------------------------------------
(* Synced rows had their own tuple written                                 *)

LEMMA QuietWritten ==
  ASSUME WrittenInv, written \subseteq written',
         \A u \in User : rows'[u] # None /\ rows'[u].sync = "synced" =>
             (rows[u] # None /\ rows[u].sync = "synced" /\ rows[u].id = rows'[u].id) \/ rows'[u].id \in written',
         \A w \in Worker : pc'[w] = "ok" => (pc[w] = "ok" /\ job'[w] = job[w]) \/ job'[w].id \in written'
  PROVE  WrittenInv'
BY DEF WrittenInv, SyncedWasWritten

(* Nobody but the worker of a step moves. *)
OnlyMoves(w) ==
    \A v \in Worker \ {w} : pc'[v] = pc[v] /\ job'[v] = job[v] /\ todo'[v] = todo[v]

LEMMA Moves ==
  ASSUME TypeOK, NEW w \in Worker
  PROVE  /\ \A place : Goto(w, place) => OnlyMoves(w) /\ pc'[w] = place /\ job' = job /\ todo' = todo
         /\ \A member, place : Take(w, member, place) =>
              OnlyMoves(w) /\ pc'[w] = place /\ job'[w] = member /\ todo' = todo
         /\ Done(w) => OnlyMoves(w) /\ pc'[w] \in {"idle", "next"} /\ job'[w] = None
                       /\ todo'[w] = IF w \in Pass THEN todo[w] ELSE {}
BY DEF Goto, Take, Done, OnlyMoves, TypeOK

LEMMA WrittenStep ==
  ASSUME TypeOK, WorkInv, WrittenInv, [Next]_vars
  PROVE  WrittenInv'
<1> USE DEF InHand
<1>1. ASSUME NEW w \in Worker, OnlyMoves(w), pc'[w] # "ok", UNCHANGED <<rows, written>> PROVE WrittenInv'
  BY <1>1, QuietWritten DEF OnlyMoves
<1>2. ASSUME NEW w \in Worker, NEW place, Goto(w, place), place # "ok", UNCHANGED <<rows, written>> PROVE WrittenInv'
  BY <1>1, <1>2, Moves
<1>3. ASSUME NEW w \in Worker, NEW member, NEW place, Take(w, member, place), place # "ok", UNCHANGED <<rows, written>>
      PROVE  WrittenInv'
  BY <1>1, <1>3, Moves
<1>4. ASSUME NEW w \in Worker, Done(w), UNCHANGED <<rows, written>> PROVE WrittenInv'
  BY <1>1, <1>4, Moves
<1>5. ASSUME NEW w \in Worker, NEW place, WriteTuple(w), Goto(w, place), UNCHANGED rows PROVE WrittenInv'
  <2>1. written \subseteq written' /\ job[w].id \in written'
    BY <1>5 DEF WriteTuple
  <2> QED
    BY <1>5, <2>1, Moves, QuietWritten DEF OnlyMoves
<1>6. ASSUME NEW w \in Worker, AddTuple(w) PROVE WrittenInv'
  BY <1>2, <1>5, <1>6 DEF AddTuple, local
<1>7. ASSUME NEW w \in Worker, RecordSyncResult(w) PROVE WrittenInv'
  <2> DEFINE u == job[w].user
  <2>1. u \in User /\ Done(w) /\ UNCHANGED written
    BY <1>7 DEF RecordSyncResult, WorkInv, Membership
  <2>2. CASE UNCHANGED rows
    BY <1>4, <2>1, <2>2
  <2>3. CASE SameRow(w) /\ SetSync(u, IF pc[w] = "ok" THEN "synced" ELSE "failed")
    <3>1. /\ rows'[u] # None /\ rows'[u].id = rows[u].id /\ \A v \in User \ {u} : rows'[v] = rows[v]
          /\ rows'[u].sync = IF pc[w] = "ok" THEN "synced" ELSE "failed"
      BY <2>1, <2>3, SetSyncTyped DEF SameRow, SyncStatus
    <3>2. pc[w] = "ok" => rows'[u].id \in written
      BY <2>3, <3>1 DEF SameRow, WrittenInv
    <3>3. \A v \in User : rows'[v] # None /\ rows'[v].sync = "synced" =>
             (rows[v] # None /\ rows[v].sync = "synced" /\ rows[v].id = rows'[v].id) \/ rows'[v].id \in written'
      BY <2>1, <3>1, <3>2
    <3>4. \A v \in Worker : pc'[v] = "ok" => pc[v] = "ok" /\ job'[v] = job[v]
      BY <2>1, Moves DEF OnlyMoves
    <3> QED
      BY <2>1, <3>3, <3>4, QuietWritten
  <2> QED
    BY <1>7, <2>2, <2>3 DEF RecordSyncResult
<1>8. ASSUME NEW c \in Call, Unmark(c) PROVE WrittenInv'
  <2> DEFINE u == job[c].user
  <2>1. u \in User /\ UNCHANGED written /\ c \in Worker
    BY <1>8 DEF Unmark, WorkInv, Membership, Worker
  <2>2. \A v \in Worker : pc'[v] = "ok" => pc[v] = "ok" /\ job'[v] = job[v]
    BY <1>8, <2>1 DEF Unmark, TypeOK
  <2>3. \A v \in User : rows'[v] # None /\ rows'[v].sync = "synced" => rows[v] = rows'[v]
    <3>1. CASE UNCHANGED rows
      BY <3>1
    <3>2. CASE SameRow(c) /\ SetSync(u, "pending")
      BY <2>1, <3>2, SetSyncTyped DEF SameRow, SyncStatus
    <3> QED
      BY <1>8, <3>1, <3>2 DEF Unmark
  <2> QED
    BY <2>1, <2>2, <2>3, QuietWritten
<1>9. ASSUME NEW c \in Call, Insert(c) PROVE WrittenInv'
  <2>1. UNCHANGED written /\ c \in Worker
    BY <1>9 DEF Insert, Worker
  <2>2. CASE UNCHANGED rows
    BY <1>3, <1>4, <1>9, <2>1, <2>2 DEF Insert
  <2>3. CASE /\ rows' = [rows EXCEPT ![job[c].user] = [id |-> ids + 1, sync |-> "pending"]]
             /\ Take(c, [user |-> job[c].user, id |-> ids + 1, sync |-> "pending"], "write")
    <3>1. \A v \in User : rows'[v] # None /\ rows'[v].sync = "synced" => rows[v] = rows'[v]
      BY <2>3 DEF TypeOK
    <3> QED
      BY <2>1, <2>3, <3>1, Moves, QuietWritten DEF OnlyMoves
  <2> QED
    BY <1>9, <2>2, <2>3 DEF Insert
<1>10. ASSUME NEW c \in Call, DeleteRow(c) \/ DeleteGroup(c) PROVE WrittenInv'
  <2>1. UNCHANGED written /\ c \in Worker /\ Done(c)
    BY <1>10 DEF DeleteRow, DeleteGroup, Worker
  <2>2. \A v \in User : rows'[v] # None => rows[v] = rows'[v]
    BY <1>10 DEF DeleteRow, DeleteGroup, Without
  <2> QED
    BY <2>1, <2>2, Moves, QuietWritten DEF OnlyMoves
<1>11. ASSUME NEW w \in Worker, Outage(w) \/ LoseAnswer(w) PROVE WrittenInv'
  BY <1>2, <1>4, <1>5, <1>11 DEF Outage, LoseAnswer, local
<1>12. ASSUME NEW w \in Worker, pc' = [pc EXCEPT ![w] = "idle"] \/ pc' = [pc EXCEPT ![w] = "members"]
                                 \/ pc' = [pc EXCEPT ![w] = "next"] \/ pc' = [pc EXCEPT ![w] = "write"],
              \A v \in Worker \ {w} : job'[v] = job[v], UNCHANGED <<rows, written>>
       PROVE  WrittenInv'
  BY <1>12, QuietWritten DEF TypeOK
<1>13. ASSUME NEW w \in Worker, Crash(w) PROVE WrittenInv'
  BY <1>12, <1>13 DEF Crash, TypeOK, local
<1>14. ASSUME NEW p \in Pass, StartPass(p) \/ NextRow(p) PROVE WrittenInv'
  BY <1>2, <1>12, <1>14, ZenonT(60) DEF StartPass, NextRow, TypeOK, local, Worker
<1>15. ASSUME NEW c \in Call, ListMembers(c) \/ NextMember(c) \/ GuardOwner(c) \/ RevokeTuple(c) PROVE WrittenInv'
  BY <1>2, <1>3, <1>4, <1>12, <1>15 DEF ListMembers, NextMember, GuardOwner, RevokeTuple, TypeOK, local, Worker
<1>16. ASSUME NEW c \in Call, NEW u \in User, StartAdd(c, u) \/ StartRemove(c, u) \/ StartDelete(c) PROVE WrittenInv'
  BY <1>2, <1>3, <1>16 DEF StartAdd, StartRemove, StartDelete, local, Worker
<1>17. CASE UNCHANGED <<rows, written, work>>
  BY <1>17, QuietWritten DEF work
<1>18. ASSUME NEW c \in Call, CallStep(c) \/ StartDelete(c) PROVE WrittenInv'
  BY <1>2, <1>6, <1>7, <1>8, <1>9, <1>10, <1>15, <1>18 DEF CallStep, StartDelete, local, Worker
<1>19. ASSUME NEW p \in Pass, PassStep(p) PROVE WrittenInv'
  BY <1>6, <1>7, <1>14, <1>19 DEF PassStep, Worker
<1> QED
  BY <1>11, <1>13, <1>16, <1>17, <1>18, <1>19 DEF Next, Update, Create, SetOwner, vars, local

-----------------------------------------------------------------------------
(* Events and rows                                                         *)

LEMMA Appended ==
  ASSUME TypeOK, NEW e \in Event, outbox' = Append(outbox, e)
  PROVE  /\ Len(outbox) \in Nat /\ Len(outbox') = Len(outbox) + 1
         /\ DOMAIN outbox = 1..Len(outbox) /\ DOMAIN outbox' = 1..Len(outbox')
         /\ outbox'[Len(outbox) + 1] = e
         /\ \A n \in 1..Len(outbox) : outbox'[n] = outbox[n]
         /\ 1..Len(outbox') = (1..Len(outbox)) \union {Len(outbox) + 1}
<1>1. outbox \in Seq(Event)
  BY DEF TypeOK
<1>2. Len(outbox) \in Nat /\ Len(outbox') = Len(outbox) + 1
  BY <1>1
<1>3. 1..Len(outbox') = (1..Len(outbox)) \union {Len(outbox) + 1}
  BY <1>2
<1> QED
  BY <1>1, <1>2, <1>3

LEMMA GroupAppended ==
  ASSUME TypeOK, GroupTold, DeletedOnce, NEW e \in Event, outbox' = Append(outbox, e),
         IF e[1] \in {"created", "updated", "deleted"}
           THEN group' = e[2] /\ (outbox = <<>> \/ group # None)
           ELSE group' = group
  PROVE  GroupTold' /\ DeletedOnce'
<1> DEFINE last == Len(outbox) + 1
<1>1. /\ Len(outbox) \in Nat /\ Len(outbox') = last
      /\ DOMAIN outbox = 1..Len(outbox) /\ DOMAIN outbox' = 1..Len(outbox')
      /\ outbox'[last] = e
      /\ \A n \in 1..Len(outbox) : outbox'[n] = outbox[n]
      /\ 1..Len(outbox') = (1..Len(outbox)) \union {last}
  BY Appended
<1>2. CASE e[1] \notin {"created", "updated", "deleted"}
  <2>1. Named' = Named
    BY <1>1, <1>2 DEF Named
  <2>2. Named \subseteq 1..Len(outbox)
    BY <1>1 DEF Named
  <2>3. GroupTold'
    BY <1>1, <1>2, <2>1, <2>2 DEF GroupTold
  <2>4. DeletedOnce'
    BY <1>1, <1>2, <2>1, <2>2 DEF DeletedOnce
  <2> QED
    BY <2>3, <2>4
<1>3. CASE e[1] \in {"created", "updated", "deleted"}
  <2>1. Named' = Named \union {last}
    BY <1>1, <1>3 DEF Named
  <2>2. Named \subseteq 1..Len(outbox)
    BY <1>1 DEF Named
  <2>3. GroupTold'
    BY <1>1, <1>3, <2>1, <2>2 DEF GroupTold
  <2>4. ASSUME NEW n \in 1..Len(outbox), outbox[n][1] = "deleted" PROVE FALSE
    <3>1. n \in Named
      BY <1>1, <2>4 DEF Named
    <3>2. PICK k \in Named : (\A m \in Named : m <= k) /\ group = outbox[k][2]
      BY <3>1 DEF GroupTold
    <3>3. k = n
      BY <1>1, <2>2, <2>4, <3>1, <3>2 DEF DeletedOnce
    <3>4. outbox[n] = <<"deleted", None>>
      BY <1>1, <2>4 DEF TypeOK, Event
    <3> QED
      BY <1>1, <1>3, <2>4, <3>2, <3>3, <3>4
  <2>5. DeletedOnce'
    BY <1>1, <2>4 DEF DeletedOnce
  <2> QED
    BY <2>3, <2>5
<1> QED
  BY <1>2, <1>3

LEMMA UserAppended ==
  ASSUME TypeOK, NEW u \in User, RowTold(u), NEW e \in Event, outbox' = Append(outbox, e),
         CASE e = <<"member_added", u>>   -> rows'[u] # None
           [] e = <<"member_removed", u>> -> rows[u] # None /\ rows'[u] = None
           [] e = <<"deleted", None>>     -> rows'[u] = None
           [] OTHER                       -> rows'[u] # None <=> rows[u] # None
  PROVE  RowTold(u)'
<1> DEFINE last == Len(outbox) + 1
<1>1. /\ Len(outbox) \in Nat /\ Len(outbox') = last
      /\ outbox'[last] = e
      /\ \A n \in 1..Len(outbox) : outbox'[n] = outbox[n]
      /\ 1..Len(outbox') = (1..Len(outbox)) \union {last}
  BY Appended
<1> HIDE DEF last
<1>2. About(u) \subseteq 1..Len(outbox) /\ Added(u) \subseteq About(u)
  BY DEF About, Added
<1>3. CASE e \notin {<<"member_added", u>>, <<"member_removed", u>>, <<"deleted", None>>}
  <2>1. About(u)' = About(u) /\ Added(u)' = Added(u)
    BY <1>1, <1>2, <1>3 DEF About, Added
  <2> QED
    BY <1>1, <1>3, <2>1 DEF RowTold
<1>4. CASE e = <<"member_added", u>>
  <2>1. About(u)' = About(u) \union {last} /\ Added(u)' = Added(u) \union {last}
    BY <1>1, <1>2, <1>4 DEF About, Added
  <2>2. rows'[u] # None
    BY <1>4
  <2>3. \A n \in 1..Len(outbox') : outbox'[n] = <<"member_removed", u>> => n \in 1..Len(outbox)
    BY <1>1, <1>4
  <2>4. \A k \in About(u)' : k <= last /\ \A n \in 1..Len(outbox) : k < n => k \in About(u)
    BY <1>1, <1>2, <2>1 DEF last
  <2> QED
    BY <1>1, <1>2, <2>1, <2>2, <2>3, <2>4 DEF RowTold, last
<1>5. CASE e = <<"member_removed", u>>
  <2>1. About(u)' = About(u) \union {last} /\ Added(u)' = Added(u)
    BY <1>1, <1>2, <1>5 DEF About, Added
  <2>2. rows[u] # None /\ rows'[u] = None
    BY <1>5
  <2>3. PICK n \in Added(u) : \A m \in About(u) : m <= n
    BY <2>2 DEF RowTold
  <2>4. ~\E m \in Added(u)' : \A k \in About(u)' : k <= m
    BY <1>1, <1>2, <2>1 DEF last
  <2>5. n < last /\ \A k \in About(u)' : ~(n < k /\ k < last)
    BY <1>1, <1>2, <2>1, <2>3 DEF last
  <2>6. ASSUME NEW k \in 1..Len(outbox), outbox'[k] = <<"member_removed", u>>
        PROVE  \E m \in Added(u)' : m < k /\ \A l \in About(u)' : ~(m < l /\ l < k)
    BY <1>1, <1>2, <2>1, <2>6 DEF RowTold, last
  <2> QED
    BY <1>1, <2>1, <2>2, <2>4, <2>5, <2>6 DEF RowTold
<1>6. CASE e = <<"deleted", None>>
  <2>1. About(u)' = About(u) \union {last} /\ Added(u)' = Added(u)
    BY <1>1, <1>2, <1>6 DEF About, Added
  <2>2. rows'[u] = None
    BY <1>6
  <2>3. ~\E m \in Added(u)' : \A k \in About(u)' : k <= m
    BY <1>1, <1>2, <2>1 DEF last
  <2>4. ASSUME NEW k \in 1..Len(outbox'), outbox'[k] = <<"member_removed", u>>
        PROVE  \E m \in Added(u)' : m < k /\ \A l \in About(u)' : ~(m < l /\ l < k)
    BY <1>1, <1>2, <1>6, <2>1, <2>4 DEF RowTold, last
  <2> QED
    BY <2>2, <2>3, <2>4 DEF RowTold
<1> QED
  BY <1>3, <1>4, <1>5, <1>6

LEMMA NoEvent ==
  ASSUME EventInv, UNCHANGED <<group, outbox>>, \A u \in User : rows'[u] # None <=> rows[u] # None
  PROVE  EventInv'
BY DEF EventInv, GroupTold, DeletedOnce, Named, RowTold, About, Added

LEMMA EventStep ==
  ASSUME TypeOK, WorkInv, EventInv, [Next]_vars
  PROVE  EventInv'
<1>1. CASE UNCHANGED local
  BY <1>1, NoEvent DEF local
<1>2. ASSUME NEW w \in Worker, RecordSyncResult(w) PROVE EventInv'
  <2>1. job[w].user \in User
    BY <1>2 DEF RecordSyncResult, WorkInv, Membership, InHand
  <2>2. \A u \in User : rows'[u] # None <=> rows[u] # None
    BY <1>2, <2>1, SetSyncTyped DEF RecordSyncResult, SameRow, SyncStatus
  <2> QED
    BY <1>2, <2>2, NoEvent DEF RecordSyncResult
<1>3. ASSUME NEW c \in Call, Unmark(c) PROVE EventInv'
  <2>1. job[c].user \in User
    BY <1>3 DEF Unmark, WorkInv, Membership, InHand, Worker
  <2>2. \A u \in User : rows'[u] # None <=> rows[u] # None
    BY <1>3, <2>1, SetSyncTyped DEF Unmark, SameRow, SyncStatus
  <2> QED
    BY <1>3, <2>2, NoEvent DEF Unmark
<1>4. ASSUME NEW c \in Call, Insert(c) PROVE EventInv'
  <2> DEFINE u == job[c].user
             e == <<"member_added", u>>
  <2>1. u \in User
    BY <1>4 DEF Insert, WorkInv, Membership, InHand, Worker
  <2>2. CASE /\ rows' = [rows EXCEPT ![u] = [id |-> ids + 1, sync |-> "pending"]]
             /\ outbox' = Append(outbox, e) /\ group' = group
    <3>1. e \in Event /\ e[1] = "member_added"
      BY <2>1 DEF Event
    <3>2. [id |-> ids + 1, sync |-> "pending"] # None
      BY DEF TypeOK, Row, SyncStatus
    <3>3. GroupTold' /\ DeletedOnce'
      BY <2>2, <3>1, GroupAppended DEF EventInv
    <3>4. ASSUME NEW v \in User PROVE RowTold(v)'
      <4>1. e # <<"member_removed", v>> /\ e # <<"deleted", None>> /\ (e = <<"member_added", v>> => v = u)
        OBVIOUS
      <4>2. rows'[u] # None /\ (v # u => rows'[v] = rows[v])
        BY <2>1, <2>2, <3>2 DEF TypeOK
      <4> QED
        BY <2>2, <3>1, <4>1, <4>2, UserAppended DEF EventInv
    <3> QED
      BY <3>3, <3>4 DEF EventInv
  <2> QED
    BY <1>1, <1>4, <2>2 DEF Insert, local
<1>5. ASSUME NEW c \in Call, DeleteRow(c) PROVE EventInv'
  <2> DEFINE u == job[c].user
             e == <<"member_removed", u>>
  <2>1. u \in User /\ group' = group
    BY <1>5 DEF DeleteRow, WorkInv, Membership, InHand, Worker
  <2>2. CASE SameRow(c) /\ rows' = Without({u}) /\ outbox' = Append(outbox, e)
    <3>1. e \in Event /\ e[1] = "member_removed"
      BY <2>1 DEF Event
    <3>2. GroupTold' /\ DeletedOnce'
      BY <2>1, <2>2, <3>1, GroupAppended DEF EventInv
    <3>3. ASSUME NEW v \in User PROVE RowTold(v)'
      <4>1. e # <<"member_added", v>> /\ e # <<"deleted", None>> /\ (e = <<"member_removed", v>> => v = u)
        OBVIOUS
      <4>2. rows[u] # None /\ rows'[u] = None /\ (v # u => rows'[v] = rows[v])
        BY <2>1, <2>2 DEF SameRow, Without
      <4> QED
        BY <2>2, <3>1, <4>1, <4>2, UserAppended DEF EventInv
    <3> QED
      BY <3>2, <3>3 DEF EventInv
  <2> QED
    BY <1>1, <1>5, <2>2 DEF DeleteRow, local
<1>6. ASSUME NEW c \in Call, DeleteGroup(c) PROVE EventInv'
  <2> DEFINE e == <<"deleted", None>>
  <2>1. CASE group # None /\ group' = None /\ rows' = Without(User) /\ outbox' = Append(outbox, e)
    <3>1. e \in Event /\ e[1] = "deleted" /\ e[2] = None
      BY DEF Event
    <3>2. GroupTold' /\ DeletedOnce'
      BY <2>1, <3>1, GroupAppended DEF EventInv
    <3>3. ASSUME NEW v \in User PROVE RowTold(v)'
      <4>1. e # <<"member_added", v>> /\ e # <<"member_removed", v>>
        OBVIOUS
      <4>2. rows'[v] = None
        BY <2>1 DEF Without
      <4> QED
        BY <2>1, <3>1, <4>1, <4>2, UserAppended DEF EventInv
    <3> QED
      BY <3>2, <3>3 DEF EventInv
  <2> QED
    BY <1>1, <1>6, <2>1 DEF DeleteGroup, local
<1>7. ASSUME NEW kind \in {"created", "updated"}, NEW name \in Name, group' = name, rows' = rows,
             outbox' = Append(outbox, <<kind, name>>), outbox = <<>> \/ group # None
      PROVE  EventInv'
  <2> DEFINE e == <<kind, name>>
  <2>1. e \in Event /\ e[1] = kind /\ e[2] = name
    BY DEF Event
  <2>2. GroupTold' /\ DeletedOnce'
    BY <1>7, <2>1, GroupAppended DEF EventInv
  <2>3. ASSUME NEW v \in User PROVE RowTold(v)'
    <3>1. e # <<"member_added", v>> /\ e # <<"member_removed", v>> /\ e # <<"deleted", None>>
      OBVIOUS
    <3> QED
      BY <1>7, <2>1, <3>1, UserAppended DEF EventInv
  <2> QED
    BY <2>2, <2>3 DEF EventInv
<1>8. ASSUME NEW c \in Call, NEW name \in Name, Create(c, name) PROVE EventInv'
  <2>1. outbox' = Append(outbox, <<"created", name>>)
    BY <1>8 DEF Create
  <2> QED
    BY <1>7, <1>8, <2>1 DEF Create
<1>9. ASSUME NEW c \in Call, Update(c) PROVE EventInv'
  BY <1>7, <1>9 DEF Update
<1>10. ASSUME NEW c \in Call, CallStep(c) PROVE EventInv'
  BY <1>1, <1>2, <1>3, <1>4, <1>5, <1>6, <1>10
  DEF CallStep, AddTuple, GuardOwner, RevokeTuple, ListMembers, NextMember, Worker
<1>11. ASSUME NEW p \in Pass, PassStep(p) PROVE EventInv'
  BY <1>1, <1>2, <1>11 DEF PassStep, StartPass, NextRow, AddTuple, Worker
<1> QED
  BY <1>1, <1>8, <1>9, <1>10, <1>11
  DEF Next, StartDelete, StartAdd, StartRemove, Outage, LoseAnswer, Crash, SetOwner, vars

(* What is kept says what EventsTellRows says. *)
LEMMA EventsTold == TypeOK /\ EventInv => EventsTellRows
<1> SUFFICES ASSUME TypeOK, EventInv PROVE EventsTellRows
  OBVIOUS
<1>1. group = IF Named = {} THEN None ELSE outbox[Newest(Named)][2]
  <2>1. CASE Named = {}
    BY <2>1 DEF EventInv, GroupTold
  <2>2. CASE Named # {}
    <3>1. PICK n \in Named : (\A m \in Named : m <= n) /\ group = outbox[n][2]
      BY <2>2 DEF EventInv, GroupTold
    <3>2. Named \subseteq Nat
      BY DEF Named, TypeOK
    <3>3. Newest(Named) \in Named /\ \A m \in Named : m <= Newest(Named)
      BY <3>1 DEF Newest
    <3>4. n <= Newest(Named) /\ Newest(Named) <= n /\ n \in Nat /\ Newest(Named) \in Nat
      BY <3>1, <3>2, <3>3
    <3>5. Newest(Named) = n
      BY <3>4
    <3> QED
      BY <2>2, <3>1, <3>5
  <2> QED
    BY <2>1, <2>2
<1>2. \A n \in DOMAIN outbox : outbox[n][1] = "deleted" =>
         \A m \in n + 1..Len(outbox) : outbox[m][1] \notin {"created", "updated", "deleted"}
  <2>1. DOMAIN outbox = 1..Len(outbox) /\ Len(outbox) \in Nat
    BY DEF TypeOK
  <2>2. \A n \in DOMAIN outbox : \A m \in n + 1..Len(outbox) : m \in DOMAIN outbox
    BY <2>1
  <2> QED
    BY <2>2 DEF EventInv, DeletedOnce, Named
<1> QED
  BY <1>1, <1>2 DEF EventInv, RowTold, About, Added, Named, EventsTellRows

-----------------------------------------------------------------------------
(* Settled users                                                           *)

LEMMA Alone ==
  ASSUME Contended \subseteq muddled, NEW u \in User \ muddled, NEW w \in Worker, Busy(w, u)
  PROVE  \A v \in Worker \ {w} : ~Busy(v, u)
BY DEF Contended

(* One worker's step keeps a user settled when it keeps the user's row and *)
(* tuple or nobody else is busy with the user.                             *)
LEMMA Frame ==
  ASSUME NEW w \in Worker, OnlyMoves(w), NEW u \in User, Settled(u), Fits(w, u)',
         \/ rows'[u] = rows[u] /\ (u \in tuples' <=> u \in tuples)
         \/ \A v \in Worker \ {w} : ~Busy(v, u),
         \/ Exact(u)'
         \/ Between(w, u)'
         \/ rows'[u] = rows[u] /\ (u \in tuples' <=> u \in tuples) /\ ~Between(w, u)
  PROVE  Settled(u)'
<1>1. ASSUME NEW v \in Worker \ {w} PROVE Fits(v, u)'
  <2>1. pc'[v] = pc[v] /\ job'[v] = job[v] /\ todo'[v] = todo[v] /\ Fits(v, u)
    BY DEF OnlyMoves, Settled
  <2>2. CASE rows'[u] = rows[u] /\ (u \in tuples' <=> u \in tuples)
    BY <2>1, <2>2 DEF Fits, Holds, RowInHand, Deleting, Of
  <2>3. CASE ~Busy(v, u)
    BY <2>1, <2>3 DEF Fits, Holds, Deleting, Busy
  <2> QED
    BY <2>2, <2>3
<1>2. Exact(u)' \/ \E v \in Worker : Between(v, u)'
  <2>1. CASE rows'[u] = rows[u] /\ (u \in tuples' <=> u \in tuples) /\ ~Between(w, u)
    BY <2>1 DEF Settled, Exact, Between, Holds, OnlyMoves
  <2> QED
    BY <2>1
<1> QED
  BY <1>1, <1>2 DEF Settled

(* What stands for a user whom one worker alone is busy with. *)
LEMMA AloneExact ==
  ASSUME NEW w \in Worker, NEW u \in User, Settled(u), \A v \in Worker \ {w} : ~Busy(v, u), pc[w] \notin {"ok", "unmark"}
  PROVE  Exact(u)
BY DEF Settled, Between, Holds, Busy

LEMMA SettleStep ==
  ASSUME TypeOK, WorkInv, SettleInv, [Next]_vars
  PROVE  SettleInv'
<1> USE DEF InHand
<1>1. muddled \subseteq muddled' /\ (Contended' \subseteq muddled' \/ UNCHANGED vars)
  BY MuddleStep
<1>2. CASE UNCHANGED vars
  BY <1>2 DEF vars, local, fga, work, SettleInv, Contended, Busy, Settled, Exact, Between, Holds, Fits, RowInHand,
     Deleting, Of
<1> SUFFICES ASSUME ~UNCHANGED vars, NEW u \in User \ muddled' PROVE Settled(u)'
  BY <1>1, <1>2 DEF SettleInv
<1>3. u \in User \ muddled /\ Settled(u) /\ Contended \subseteq muddled
  BY <1>1 DEF SettleInv
<1>4. ASSUME NEW w \in Worker, NEW place, Goto(w, place), pc[w] \notin {"ok", "unmark"}, UNCHANGED <<rows, tuples>>,
             \/ place \in {"groupguard", "list", "idle"}
             \/ pc[w] = "write" /\ place = "failed"
             \/ pc[w] = "guard" /\ place = IF job[w].sync = "synced" THEN "revoke" ELSE "delete"
      PROVE  Settled(u)'
  <2>1. OnlyMoves(w) /\ pc'[w] = place /\ job' = job /\ todo' = todo
    BY <1>4, Moves
  <2>2. Fits(w, u)
    BY <1>3 DEF Settled
  <2>3. Fits(w, u)'
    BY <1>4, <2>1, <2>2 DEF Fits, Holds, RowInHand, Deleting, Of
  <2> QED
    BY <1>3, <1>4, <2>1, <2>3, Frame DEF Between
<1>5. ASSUME NEW w \in Worker, Done(w), rows'[u] = rows[u], u \in tuples' <=> u \in tuples, ~Between(w, u)
      PROVE  Settled(u)'
  <2>1. OnlyMoves(w) /\ pc'[w] \in {"idle", "next"} /\ job'[w] = None /\ todo'[w] = IF w \in Pass THEN todo[w] ELSE {}
    BY <1>5, Moves
  <2>2. Fits(w, u)
    BY <1>3 DEF Settled
  <2>3. Fits(w, u)'
    BY <1>5, <2>1, <2>2 DEF Fits, Holds, Deleting, Of
  <2> QED
    BY <1>3, <1>5, <2>1, <2>3, Frame
<1>6. ASSUME NEW c \in Call, NEW v \in User, StartAdd(c, v) \/ StartRemove(c, v) PROVE Settled(u)'
  <2> DEFINE member == IF StartAdd(c, v) THEN [user |-> v, id |-> 0, sync |-> "pending"] ELSE Of(v)
             place == IF StartAdd(c, v) THEN "insert" ELSE "guard"
  <2>1. Take(c, member, place) /\ pc[c] = "idle" /\ todo[c] = {} /\ UNCHANGED <<rows, tuples>> /\ c \in Worker
    BY <1>6 DEF StartAdd, StartRemove, WorkInv, local, fga, Worker
  <2>2. OnlyMoves(c) /\ pc'[c] = place /\ job'[c] = member /\ todo' = todo
    BY <2>1, Moves
  <2>3. member.user = v /\ (place = "guard" => rows[v] # None /\ member = Of(v))
    BY <1>6 DEF StartAdd, StartRemove, Of
  <2> HIDE DEF member
  <2>4. Fits(c, u)'
    BY <2>1, <2>2, <2>3 DEF Fits, Holds, Deleting, Of
  <2> QED
    BY <1>3, <2>1, <2>2, <2>4, Frame DEF Between
<1>7. ASSUME NEW c \in Call, NextMember(c) PROVE Settled(u)'
  <2>1. PICK member \in todo[c] : Take(c, member, "revoke")
    BY <1>7 DEF NextMember
  <2>2. OnlyMoves(c) /\ pc'[c] = "revoke" /\ job'[c] = member /\ todo' = todo /\ c \in Worker
    BY <2>1, Moves DEF Worker
  <2>3. UNCHANGED <<rows, tuples>> /\ pc[c] = "members" /\ Fits(c, u)
    BY <1>3, <1>7, <2>2 DEF NextMember, local, fga, Settled
  <2>4. Fits(c, u)'
    BY <2>1, <2>2, <2>3 DEF Fits, Holds, Deleting, Of
  <2> QED
    BY <1>3, <2>2, <2>3, <2>4, Frame DEF Between
<1>8. ASSUME NEW c \in Call, Insert(c) PROVE Settled(u)'
  <2>1. job[c] \in Membership /\ pc[c] = "insert" /\ todo[c] = {} /\ c \in Worker /\ UNCHANGED tuples /\ c \notin Pass
    BY <1>8 DEF Insert, WorkInv, fga, Worker
  <2>2. CASE u # job[c].user
    <3>1. rows'[u] = rows[u]
      BY <1>8, <2>2 DEF Insert, TypeOK
    <3>2. CASE Done(c)
      BY <1>5, <2>1, <3>1, <3>2 DEF Between
    <3>3. ASSUME NEW member, Take(c, member, "write"), member.user = job[c].user PROVE Settled(u)'
      <4>1. OnlyMoves(c) /\ pc'[c] = "write" /\ job'[c] = member /\ todo' = todo
        BY <2>1, <3>3, Moves
      <4>2. Fits(c, u)'
        BY <2>1, <2>2, <3>3, <4>1 DEF Fits, Holds, Deleting
      <4> QED
        BY <1>3, <2>1, <3>1, <4>1, <4>2, Frame DEF Between
    <3> QED
      BY <1>8, <3>2, <3>3 DEF Insert, Of
  <2>3. CASE u = job[c].user
    <3>1. Busy(c, u)
      BY <2>1, <2>3 DEF Busy
    <3>2. \A v \in Worker \ {c} : ~Busy(v, u)
      BY <1>3, <2>1, <3>1, Alone
    <3>3. Exact(u)
      BY <1>3, <2>1, <3>2, AloneExact
    <3>4. CASE rows[u] # None /\ UNCHANGED rows /\ Done(c)
      BY <1>5, <2>1, <3>4 DEF Between
    <3>5. CASE rows[u] # None /\ UNCHANGED rows /\ rows[u].sync # "synced" /\ Take(c, Of(u), "write")
      <4>1. OnlyMoves(c) /\ pc'[c] = "write" /\ job'[c] = Of(u) /\ todo' = todo
        BY <2>1, <3>5, Moves
      <4>2. Fits(c, u)'
        BY <2>1, <3>5, <4>1 DEF Fits, Holds, Deleting, RowInHand, Of
      <4> QED
        BY <1>3, <2>1, <3>5, <4>1, <4>2, Frame DEF Between
    <3>6. CASE /\ rows[u] = None
               /\ rows' = [rows EXCEPT ![u] = [id |-> ids + 1, sync |-> "pending"]]
               /\ Take(c, [user |-> u, id |-> ids + 1, sync |-> "pending"], "write")
      <4> DEFINE row == [id |-> ids + 1, sync |-> "pending"]
                 member == [user |-> u, id |-> ids + 1, sync |-> "pending"]
      <4>1. OnlyMoves(c) /\ pc'[c] = "write" /\ job'[c] = member /\ todo' = todo
        BY <2>1, <3>6, Moves
      <4>2. row # None /\ rows'[u] = row
        BY <3>6 DEF TypeOK, Row, SyncStatus
      <4>3. Fits(c, u)'
        BY <2>1, <4>1, <4>2 DEF Fits, Holds, Deleting, RowInHand
      <4>4. Exact(u)'
        BY <2>1, <3>3, <3>6, <4>2 DEF Exact
      <4> QED
        BY <1>3, <2>1, <3>2, <4>1, <4>3, <4>4, Frame
    <3> QED
      BY <1>8, <2>3, <3>4, <3>5, <3>6 DEF Insert
  <2> QED
    BY <2>2, <2>3
<1>9. ASSUME NEW w \in Worker, pc[w] = "write", WriteTuple(w), UNCHANGED rows,
             \/ Goto(w, "ok")
             \/ Goto(w, "failed") /\ u # job[w].user
      PROVE  Settled(u)'
  <2>1. job[w] \in Membership /\ job[w] # None
    BY <1>9 DEF WorkInv
  <2>2. OnlyMoves(w) /\ pc'[w] \in {"ok", "failed"} /\ job' = job /\ todo' = todo /\ (u = job[w].user => pc'[w] = "ok")
    BY <1>9, Moves
  <2>3. tuples' = tuples \union {job[w].user} /\ Fits(w, u)
    BY <1>3, <1>9 DEF WriteTuple, Applied, Settled
  <2>4. Fits(w, u)'
    BY <1>9, <2>1, <2>2, <2>3 DEF Fits, Holds, Deleting, RowInHand, Of
  <2>5. CASE u # job[w].user
    BY <1>3, <1>9, <2>2, <2>3, <2>4, <2>5, Frame DEF Between
  <2>6. CASE u = job[w].user
    <3>1. Busy(w, u) /\ Between(w, u)'
      BY <2>1, <2>2, <2>6 DEF Busy, Between, Holds
    <3> QED
      BY <1>3, <2>2, <2>4, <3>1, Alone, Frame
  <2> QED
    BY <2>5, <2>6
<1>10. ASSUME NEW w \in Worker, AddTuple(w) PROVE Settled(u)'
  BY <1>4, <1>9, <1>10 DEF AddTuple, local
<1>11. ASSUME NEW w \in Worker, RecordSyncResult(w) PROVE Settled(u)'
  <2>1. job[w] \in Membership /\ job[w] # None /\ pc[w] \in {"ok", "failed"} /\ UNCHANGED tuples /\ Done(w)
    BY <1>11 DEF RecordSyncResult, WorkInv, fga
  <2>2. job[w].user \in User
    BY <2>1 DEF Membership
  <2>3. CASE u # job[w].user
    <3>1. rows'[u] = rows[u]
      BY <1>11, <2>2, <2>3, SetSyncTyped DEF RecordSyncResult, SameRow, SyncStatus
    <3> QED
      BY <1>5, <2>1, <2>3, <3>1 DEF Between, Holds
  <2>4. CASE u = job[w].user
    <3>1. Busy(w, u) /\ Holds(w, u) /\ Fits(w, u)
      BY <1>3, <2>1, <2>4 DEF Busy, Holds, Settled
    <3>2. \A v \in Worker \ {w} : ~Busy(v, u)
      BY <1>3, <3>1, Alone
    <3>3. SameRow(w) /\ rows[u] # None /\ rows[u].sync \in {"pending", "failed"}
      BY <2>1, <2>4, <3>1 DEF Fits, RowInHand, SameRow, TypeOK, Row, SyncStatus
    <3>4. rows'[u] # None /\ rows'[u].sync = IF pc[w] = "ok" THEN "synced" ELSE "failed"
      BY <1>11, <2>4, <3>3, SetSyncTyped DEF RecordSyncResult, SyncStatus
    <3>5. Exact(u)'
      <4>1. CASE pc[w] = "ok"
        BY <2>1, <3>1, <3>4, <4>1 DEF Exact, Fits
      <4>2. CASE pc[w] = "failed"
        BY <1>3, <2>1, <3>2, <3>3, <3>4, <4>2, AloneExact DEF Exact
      <4> QED
        BY <2>1, <4>1, <4>2
    <3>6. OnlyMoves(w) /\ pc'[w] \in {"idle", "next"} /\ job'[w] = None /\ todo'[w] = IF w \in Pass THEN todo[w] ELSE {}
      BY <2>1, Moves
    <3>7. Fits(w, u)'
      BY <2>1, <3>1, <3>6 DEF Fits, Holds, Deleting
    <3> QED
      BY <1>3, <3>2, <3>5, <3>6, <3>7, Frame
  <2> QED
    BY <2>3, <2>4
<1>12. ASSUME NEW c \in Call, GuardOwner(c) PROVE Settled(u)'
  BY <1>4, <1>5, <1>12 DEF GuardOwner, local, fga, Worker, Between
<1>13. ASSUME NEW w \in Worker, pc[w] = "revoke", DeleteTuple(w), UNCHANGED rows,
             \/ Goto(w, "unmark")
             \/ Done(w) /\ u # job[w].user
      PROVE  Settled(u)'
  <2>1. job[w] \in Membership /\ job[w] # None
    BY <1>13 DEF WorkInv
  <2>2. tuples' = tuples \ {job[w].user} /\ Fits(w, u)
    BY <1>3, <1>13 DEF DeleteTuple, Applied, Settled
  <2>3. CASE Done(w) /\ u # job[w].user
    BY <1>5, <1>13, <2>2, <2>3 DEF Between
  <2>4. CASE Goto(w, "unmark")
    <3>1. OnlyMoves(w) /\ pc'[w] = "unmark" /\ job' = job /\ todo' = todo
      BY <2>4, Moves
    <3>2. Fits(w, u)'
      BY <1>13, <2>2, <3>1 DEF Fits, Holds, Deleting, RowInHand, Of
    <3>3. CASE u # job[w].user
      BY <1>3, <1>13, <2>2, <3>1, <3>2, <3>3, Frame DEF Between
    <3>4. CASE u = job[w].user
      <4>1. Busy(w, u) /\ Between(w, u)'
        BY <2>1, <3>1, <3>4 DEF Busy, Between, Holds
      <4> QED
        BY <1>3, <3>1, <3>2, <4>1, Alone, Frame
    <3> QED
      BY <3>3, <3>4
  <2> QED
    BY <1>13, <2>3, <2>4
<1>14. ASSUME NEW c \in Call, RevokeTuple(c) PROVE Settled(u)'
  <2>1. c \in Worker /\ pc[c] = "revoke" /\ job[c] # None /\ UNCHANGED rows
    BY <1>14 DEF RevokeTuple, WorkInv, local, Worker
  <2>2. CASE DeleteTuple(c) /\ Goto(c, "unmark")
    BY <1>13, <2>1, <2>2
  <2>3. CASE Done(c) /\ UNCHANGED tuples
    BY <1>5, <2>1, <2>3 DEF Between
  <2> QED
    BY <1>14, <2>2, <2>3 DEF RevokeTuple
<1>15. ASSUME NEW c \in Call, Unmark(c) PROVE Settled(u)'
  <2>1. /\ c \in Worker /\ job[c] \in Membership /\ job[c] # None /\ pc[c] = "unmark" /\ UNCHANGED <<tuples, job>>
        /\ pc'[c] = IF job[c] \in todo[c] THEN "members" ELSE "delete"
        /\ todo'[c] = todo[c] \ {job[c]}
        /\ OnlyMoves(c)
    BY <1>15 DEF Unmark, WorkInv, fga, Worker, TypeOK, OnlyMoves
  <2>2. job[c].user \in User
    BY <2>1 DEF Membership
  <2>3. Fits(c, u)
    BY <1>3, <2>1 DEF Settled
  <2>4. CASE u # job[c].user
    <3>1. rows'[u] = rows[u]
      BY <1>15, <2>2, <2>4, SetSyncTyped DEF Unmark, SameRow, SyncStatus
    <3>2. Of(u) # job[c]
      BY <2>4 DEF Of
    <3>3. Fits(c, u)'
      BY <2>1, <2>3, <2>4, <3>1, <3>2 DEF Fits, Holds, Deleting, Of
    <3> QED
      BY <1>3, <2>1, <2>4, <3>1, <3>3, Frame DEF Between, Holds
  <2>5. CASE u = job[c].user
    <3>1. Busy(c, u) /\ Holds(c, u)
      BY <2>1, <2>5 DEF Busy, Holds
    <3>2. \A v \in Worker \ {c} : ~Busy(v, u)
      BY <1>3, <2>1, <3>1, Alone
    <3>3. rows[u] # None /\ job[c] = Of(u) /\ rows[u].sync = "synced" /\ u \notin tuples
      BY <2>1, <2>3, <3>1 DEF Fits
    <3>4. rows'[u] # None /\ rows'[u].id = job[c].id /\ rows'[u].sync = "pending"
      BY <1>15, <2>5, <3>3, SetSyncTyped DEF Unmark, SameRow, SyncStatus, Of
    <3>5. Exact(u)'
      BY <2>1, <3>3, <3>4 DEF Exact
    <3>6. \A member \in todo'[c] : member.user # u
      BY <2>1, <2>3, <3>3 DEF Fits
    <3>7. Fits(c, u)'
      BY <2>1, <3>4, <3>6 DEF Fits, RowInHand, Deleting
    <3> QED
      BY <1>3, <2>1, <3>2, <3>5, <3>7, Frame
  <2> QED
    BY <2>4, <2>5
<1>16. ASSUME NEW c \in Call, DeleteRow(c) PROVE Settled(u)'
  <2>1. c \in Worker /\ c \notin Pass /\ job[c] \in Membership /\ job[c] # None /\ pc[c] = "delete"
        /\ UNCHANGED tuples /\ Done(c)
    BY <1>16 DEF DeleteRow, WorkInv, fga, Worker
  <2>2. CASE u # job[c].user
    <3>1. rows'[u] = rows[u]
      BY <1>16, <2>2 DEF DeleteRow, Without, TypeOK
    <3> QED
      BY <1>5, <2>1, <3>1 DEF Between
  <2>3. CASE u = job[c].user
    <3>1. Busy(c, u) /\ Holds(c, u) /\ Fits(c, u)
      BY <1>3, <2>1, <2>3 DEF Busy, Holds, Settled
    <3>2. \A v \in Worker \ {c} : ~Busy(v, u)
      BY <1>3, <2>1, <3>1, Alone
    <3>3. SameRow(c) /\ u \notin tuples
      BY <1>3, <2>1, <2>3, <3>1, <3>2, AloneExact DEF Fits, RowInHand, SameRow, Exact
    <3>4. Exact(u)'
      BY <1>16, <2>1, <2>3, <3>3 DEF DeleteRow, Without, Exact
    <3>5. OnlyMoves(c) /\ pc'[c] \in {"idle", "next"} /\ job'[c] = None /\ todo'[c] = {}
      BY <2>1, Moves
    <3>6. Fits(c, u)'
      BY <3>5 DEF Fits, Holds, Deleting
    <3> QED
      BY <1>3, <2>1, <3>2, <3>4, <3>5, <3>6, Frame
  <2> QED
    BY <2>2, <2>3
<1>17. ASSUME NEW c \in Call, ListMembers(c) PROVE Settled(u)'
  <2>1. /\ c \in Worker /\ pc[c] = "list" /\ UNCHANGED <<rows, tuples, job>>
        /\ pc'[c] = "members" /\ todo'[c] = Listed({"synced"}) /\ OnlyMoves(c)
    BY <1>17 DEF ListMembers, local, fga, Worker, TypeOK, OnlyMoves
  <2>2. Fits(c, u)'
    BY <2>1 DEF Fits, Holds, Deleting, Listed, Of
  <2> QED
    BY <1>3, <2>1, <2>2, Frame DEF Between
<1>18. ASSUME NEW c \in Call, DeleteGroup(c) PROVE Settled(u)'
  <2>1. c \in Worker /\ c \notin Pass /\ pc[c] = "members" /\ todo[c] = {} /\ UNCHANGED tuples /\ Done(c)
    BY <1>18 DEF DeleteGroup, fga, Worker
  <2>2. CASE UNCHANGED rows
    BY <1>5, <2>1, <2>2 DEF Between
  <2>3. CASE rows' = Without(User)
    <3>1. \A v \in Worker \ {c} : ~Busy(v, u)
      BY <1>3, <2>1, Alone DEF Busy
    <3>2. Exact(u) /\ Fits(c, u)
      BY <1>3, <2>1, <3>1, AloneExact DEF Settled
    <3>3. Exact(u)'
      BY <2>1, <2>3, <3>2 DEF Exact, Fits, Deleting, Without
    <3>4. OnlyMoves(c) /\ pc'[c] \in {"idle", "next"} /\ job'[c] = None /\ todo'[c] = {}
      BY <2>1, Moves
    <3>5. Fits(c, u)'
      BY <3>4 DEF Fits, Holds, Deleting
    <3> QED
      BY <1>3, <2>1, <3>1, <3>3, <3>4, <3>5, Frame
  <2> QED
    BY <1>18, <2>2, <2>3 DEF DeleteGroup
<1>19. ASSUME NEW p \in Pass, StartPass(p) PROVE Settled(u)'
  <2>1. /\ p \in Worker /\ p \notin Call /\ pc[p] = "idle" /\ UNCHANGED <<rows, tuples, job>>
        /\ pc'[p] = "next" /\ todo'[p] = Listed({"pending", "failed"}) /\ OnlyMoves(p)
    BY <1>19 DEF StartPass, local, fga, Worker, TypeOK, OnlyMoves
  <2>2. Fits(p, u)'
    BY <2>1 DEF Fits, Holds, Deleting, Listed, Of
  <2> QED
    BY <1>3, <2>1, <2>2, Frame DEF Between
<1>20. ASSUME NEW p \in Pass, NextRow(p) PROVE Settled(u)'
  <2>1. p \in Worker /\ p \notin Call /\ pc[p] = "next" /\ UNCHANGED <<rows, tuples>> /\ Fits(p, u)
    BY <1>3, <1>20 DEF NextRow, local, fga, Worker, Settled
  <2>2. CASE Goto(p, "idle")
    BY <1>4, <2>1, <2>2
  <2>3. ASSUME NEW member \in todo[p], pc' = [pc EXCEPT ![p] = "write"], job' = [job EXCEPT ![p] = member],
               todo' = [todo EXCEPT ![p] = @ \ {member}]
        PROVE  Settled(u)'
    <3>1. pc'[p] = "write" /\ job'[p] = member /\ todo'[p] = todo[p] \ {member} /\ OnlyMoves(p)
      BY <2>1, <2>3 DEF TypeOK, OnlyMoves
    <3>2. Fits(p, u)'
      BY <2>1, <3>1 DEF Fits, Holds, Deleting, RowInHand, Of
    <3> QED
      BY <1>3, <2>1, <3>1, <3>2, Frame DEF Between
  <2> QED
    BY <1>20, <2>2, <2>3 DEF NextRow
<1>21. ASSUME NEW w \in Worker, Outage(w) PROVE Settled(u)'
  BY <1>4, <1>5, <1>21 DEF Outage, local, fga, Between
<1>22. ASSUME NEW w \in Worker, LoseAnswer(w) PROVE Settled(u)'
  <2>1. u # job[w].user /\ UNCHANGED rows
    BY <1>22 DEF LoseAnswer, Unanswered, local
  <2> QED
    BY <1>9, <1>13, <1>22, <2>1 DEF LoseAnswer
<1>23. ASSUME NEW w \in Worker, Crash(w) PROVE Settled(u)'
  <2>1. /\ UNCHANGED <<rows, tuples>> /\ pc'[w] = "idle" /\ job'[w] = None /\ todo'[w] = {} /\ OnlyMoves(w)
    BY <1>23 DEF Crash, local, fga, TypeOK, OnlyMoves
  <2>2. ~Between(w, u)
    BY <1>23 DEF Crash, Unanswered, Between, Holds
  <2>3. Fits(w, u)'
    BY <2>1 DEF Fits, Holds, Deleting
  <2> QED
    BY <1>3, <2>1, <2>2, <2>3, Frame
<1>24. CASE UNCHANGED <<rows, tuples, work>>
  BY <1>3, <1>24 DEF work, Settled, Exact, Between, Holds, Fits, RowInHand, Deleting, Of
<1>25. ASSUME NEW c \in Call, CallStep(c) PROVE Settled(u)'
  BY <1>7, <1>8, <1>10, <1>11, <1>12, <1>14, <1>15, <1>16, <1>17, <1>18, <1>25 DEF CallStep, Worker
<1>26. ASSUME NEW p \in Pass, PassStep(p) PROVE Settled(u)'
  BY <1>10, <1>11, <1>19, <1>20, <1>26 DEF PassStep, Worker
<1>27. ASSUME NEW c \in Call, StartDelete(c) PROVE Settled(u)'
  BY <1>4, <1>27 DEF StartDelete, local, fga, Worker
<1> QED
  BY <1>6, <1>21, <1>22, <1>23, <1>24, <1>25, <1>26, <1>27 DEF Next, Update, Create, SetOwner, fga, local

(* Nobody is busy with a settled user: the tuple stands for the row. *)
LEMMA SettledExact == WorkInv /\ SettleInv => SettledIsExact
<1> SUFFICES ASSUME SettleInv, NEW u \in User \ muddled, \A w \in Worker : ~Busy(w, u) PROVE Exact(u)
  BY DEF SettledIsExact, Exact
<1> QED
  BY DEF SettleInv, Settled, Between, Holds, Busy

-----------------------------------------------------------------------------
(* The theorems                                                            *)

LEMMA InvInit == Init => Inv
<1> SUFFICES ASSUME Init PROVE Inv
  OBVIOUS
<1>1. TypeOK
  <2>1. failures \in 0..MaxFailures /\ outbox \in Seq(Event) /\ ids \in Nat
    BY DEF Init
  <2>2. pc \in [Worker -> Place] /\ job \in [Worker -> Membership \union {None}] /\ todo \in [Worker -> SUBSET Membership]
    BY DEF Init, Place
  <2>3. owner \in BOOLEAN
    BY DEF Init
  <2> QED
    BY <2>1, <2>2, <2>3 DEF Init, TypeOK
<1>2. WorkInv
  BY DEF Init, WorkInv, InHand, Worker
<1>3. WrittenInv
  BY DEF Init, WrittenInv, SyncedWasWritten
<1>4. SettleInv
  <2>1. Contended = {}
    BY DEF Init, Contended, Busy
  <2>2. \A u \in User : Settled(u)
    BY DEF Init, Settled, Exact, Fits, Holds, Deleting
  <2> QED
    BY <2>1, <2>2 DEF SettleInv
<1>5. EventInv
  BY DEF Init, EventInv, GroupTold, DeletedOnce, Named, RowTold, About, Added
<1> QED
  BY <1>1, <1>2, <1>3, <1>4, <1>5 DEF Inv

LEMMA InvStep == Inv /\ [Next]_vars => Inv'
  BY TypeStep, WrittenStep, SettleStep, EventStep DEF Inv

LEMMA InvAlways == Spec => []Inv
  BY InvInit, InvStep, PTL DEF Spec

(* Rows, events, tuples and work in hand stay in their types, and ids are  *)
(* given out in order.                                                     *)
THEOREM TypeCorrect == Spec => []TypeOK
<1>1. Inv => TypeOK
  BY DEF Inv
<1> QED
  BY <1>1, InvAlways, PTL

(* Each insertion and removal of a row, and each change of the group, is   *)
(* announced once and in order, whatever requests race.                    *)
THEOREM EventsCorrect == Spec => []EventsTellRows
<1>1. Inv => EventsTellRows
  BY EventsTold DEF Inv
<1> QED
  BY <1>1, InvAlways, PTL

(* No row is synced on the strength of another row's tuple.                *)
THEOREM WrittenCorrect == Spec => []SyncedWasWritten
<1>1. Inv => SyncedWasWritten
  BY DEF Inv, WrittenInv
<1> QED
  BY <1>1, InvAlways, PTL

(* Table and OpenFGA agree about every user nobody is at work on and whom  *)
(* no race, lost answer or ill-timed crash ever met.                       *)
THEOREM SettledCorrect == Spec => []SettledIsExact
<1>1. Inv => SettledIsExact
  BY SettledExact DEF Inv
<1> QED
  BY <1>1, InvAlways, PTL

(* Fail closed, as far as it goes: a removed user whom no worker is busy   *)
(* with keeps no tuple, through outages and failed deletions, unless two   *)
(* workers, a lost answer or an ill-timed crash met that user.  Without    *)
(* the exemption RemovedIsRevoked fails.                                   *)
THEOREM UnracedRemovalRevokes ==
  Spec => [](\A u \in User : u \in tuples /\ rows[u] = None =>
                 u \in muddled \/ \E w \in Worker : Busy(w, u))
<1>1. Inv => \A u \in User : u \in tuples /\ rows[u] = None =>
                 u \in muddled \/ \E w \in Worker : Busy(w, u)
  BY SettledExact DEF Inv, SettledIsExact
<1> QED
  BY <1>1, InvAlways, PTL
=============================================================================
