------------------------ MODULE RoleAssignmentsProofs ------------------------
(***************************************************************************)
(* Proofs about RoleAssignments for any number of calls, passes,           *)
(* assignments, keys, unanswered requests and crashes.                     *)
(***************************************************************************)
EXTENDS RoleAssignments, TLAPS

Worker == Call \union Pass
Syncing == {"write", "recheck", "ok", "failed"}

(* Who is where with what in hand.  A pass has every row once, on its list *)
(* or in hand.                                                             *)
WorkInv ==
    /\ \A c \in Call : /\ pc[c] # "next"
                       /\ pc[c] # "idle" => job[c] \in Job /\ key[c] \in Idempotency
    /\ \A p \in Pass : /\ pc[p] \notin {"replay", "tx", "read"}
                       /\ pc[p] = "idle" => todo[p] = {}
                       /\ pc[p] \in Syncing => job[p] \in Job
                       /\ pc[p] \in Syncing => \A j \in todo[p] : j.of # job[p].of
                       /\ \A j, k \in todo[p] : j.of = k.of => j = k

(* What is synchronized, listed or recorded has a row, and rows stay. *)
RowInv ==
    /\ \A w \in Worker : pc[w] \in {"read"} \union Syncing => sync[job[w].of] # "none"
    /\ \A p \in Pass : \A j \in todo[p] : sync[j.of] # "none"
    /\ \A i \in Idempotency : commands[i] # None => sync[commands[i].of] # "none"

Agree(a) == a \in tuples <=> assigned[a]

(* Whoever is not behind knows the flag of its row; and past a write that  *)
(* was accepted or found done, OpenFGA has it too, unless somebody behind  *)
(* wrote the tuple since.                                                  *)
KnowsFlag ==
    /\ \A w \in Worker : pc[w] \in {"write", "recheck", "ok"} /\ <<w, job[w].of>> \notin behind =>
         job[w].flag = assigned[job[w].of]
    /\ \A p \in Pass : \A j \in todo[p] : <<p, j.of>> \notin behind => j.flag = assigned[j.of]
HasWritten ==
    \A w \in Worker :
        pc[w] \in {"recheck", "ok"} /\ <<w, job[w].of>> \notin behind /\ job[w].of \notin stale =>
            Agree(job[w].of)

SyncInv == KnowsFlag /\ HasWritten /\ SyncedIsTrue

(* While OpenFGA has an owner, some assigned owner has its tuple, so that   *)
(* the deletions still to come leave one.                                  *)
OwnerInv ==
    Owner \intersect stale = {} /\ OwnersBy(tuples) # {} => OwnersBy({o \in tuples : assigned[o]}) # {}

(* Revisions are given out in order. *)
NumberInv ==
    /\ Numbered
    /\ EventsTellTable
    /\ \A i \in Idempotency : commands[i] # None => commands[i].version <= revision

Inv == TypeOK /\ WorkInv /\ RowInv /\ OwnerInv /\ SyncInv /\ NumberInv

USE RoleAssumption

-----------------------------------------------------------------------------
(* Types and places                                                        *)

(* What the two ways to move on do to the worker, and only to it. *)
LEMMA GotoTyped ==
  ASSUME TypeOK, WorkInv, NEW w \in Worker, NEW place \in Place, Goto(w, place),
         pc[w] \in Syncing \union {"replay", "tx", "read"}, place # "idle",
         w \in Call => place # "next",
         w \in Pass => place \in Syncing /\ pc[w] \in Syncing
  PROVE  /\ pc' \in [Worker -> Place] /\ job' = job /\ key' = key /\ match' = match /\ todo' = todo
         /\ WorkInv'
  BY DEF Goto, TypeOK, WorkInv, Worker, Syncing

LEMMA DoneTyped ==
  ASSUME TypeOK, WorkInv, NEW w \in Worker, Done(w)
  PROVE  /\ pc' \in [Worker -> Place]
         /\ job' \in [Worker -> Job \union {None}]
         /\ key' \in [Call -> Idempotency \union {None}]
         /\ match' \in [Call -> Nat]
         /\ todo' \in [Pass -> SUBSET Job]
         /\ pc[w] # "idle" => WorkInv'
  BY DEF Done, TypeOK, WorkInv, Worker, Syncing, Place

LEMMA TypeStep ==
  ASSUME TypeOK, WorkInv, RowInv, [Next]_vars
  PROVE  TypeOK' /\ WorkInv'
<1> USE DEF Worker, table, Still, Fault
<1>1. ASSUME NEW c \in Call, NEW i \in Idempotency, NEW a \in Assignment, NEW flag \in BOOLEAN,
             StartCommand(c, i, a, flag)
      PROVE  TypeOK' /\ WorkInv'
  BY <1>1 DEF StartCommand, TypeOK, WorkInv, Job, Place, Syncing
<1>2. ASSUME NEW c \in Call, LookUp(c) PROVE TypeOK' /\ WorkInv'
  <2>1. CASE Goto(c, "read") \/ Goto(c, "tx")
    BY <1>2, <2>1, GotoTyped DEF LookUp, TypeOK, Place
  <2>2. CASE Done(c)
    BY <1>2, <2>2, DoneTyped DEF LookUp, TypeOK
  <2> QED
    BY <1>2, <2>1, <2>2 DEF LookUp, Replay
<1>3. ASSUME NEW c \in Call, Transact(c) PROVE TypeOK' /\ WorkInv'
  <2>1. job[c] \in Job /\ key[c] \in Idempotency /\ pc[c] = "tx" /\ c \notin Pass
    BY <1>3 DEF Transact, WorkInv
  <2>2. /\ pc' \in [Worker -> Place]
        /\ job' \in [Worker -> Job \union {None}]
        /\ key' \in [Call -> Idempotency \union {None}]
        /\ match' \in [Call -> Nat]
        /\ todo' \in [Pass -> SUBSET Job]
        /\ WorkInv'
    <3>1. CASE Goto(c, "read")
      BY <2>1, <3>1, GotoTyped DEF TypeOK, Place
    <3>2. CASE Done(c)
      BY <2>1, <3>2, DoneTyped
    <3> QED
      BY <1>3, <3>1, <3>2 DEF Transact, Store, Replay
  <2>3. behind' \in SUBSET (Worker \X Assignment)
    BY <1>3, <2>1 DEF Transact, Overtake, TypeOK, Job
  <2>4. CASE UNCHANGED table
    BY <1>3, <2>2, <2>3, <2>4 DEF Transact, TypeOK
  <2>5. CASE Store(c)
    <3> DEFINE a == job[c].of
               flag == job[c].flag
    <3>1. a \in Assignment /\ flag \in BOOLEAN
      BY <2>1 DEF Job
    <3>2. revision' \in Nat /\ outbox' \in Seq(Job)
      BY <2>1, <2>5 DEF Store, TypeOK
    <3>3. /\ assigned' \in [Assignment -> BOOLEAN] /\ sync' \in [Assignment -> SyncStatus]
          /\ \A b \in Assignment : assigned'[b] => sync'[b] # "none"
      BY <2>5, <3>1 DEF Store, TypeOK, SyncStatus
    <3>4. commands' \in [Idempotency -> Command \union {None}]
      BY <2>1, <2>5, <3>1 DEF Store, TypeOK, Command
    <3> QED
      BY <1>3, <2>2, <2>3, <3>2, <3>3, <3>4 DEF Transact, TypeOK
  <2> QED
    BY <1>3, <2>4, <2>5 DEF Transact
<1>4. ASSUME NEW c \in Call, ReadRow(c) PROVE TypeOK' /\ WorkInv'
  <2>1. job[c] \in Job /\ pc[c] = "read"
    BY <1>4 DEF ReadRow, WorkInv
  <2>2. behind' \in SUBSET (Worker \X Assignment)
    BY <1>4, <2>1 DEF ReadRow, TypeOK, Job
  <2>3. CASE Goto(c, "write")
    BY <1>4, <2>1, <2>2, <2>3, GotoTyped DEF ReadRow, TypeOK, Place
  <2>4. CASE Done(c)
    BY <1>4, <2>1, <2>2, <2>4, DoneTyped DEF ReadRow, TypeOK
  <2> QED
    BY <1>4, <2>3, <2>4 DEF ReadRow
<1>5. ASSUME NEW w \in Worker, pc[w] \in {"write", "recheck"},
             \E place \in {"ok", "recheck", "failed"} : Goto(w, place),
             UNCHANGED <<table, behind>>, faults' \in 0..MaxFaults, UNCHANGED crashes,
             UNCHANGED <<tuples, stale>> \/ WriteTuple(w)
      PROVE  TypeOK' /\ WorkInv'
  <2>1. job[w] \in Job
    BY <1>5 DEF WorkInv, Syncing
  <2>2. tuples' \in SUBSET Assignment /\ stale' \in SUBSET Assignment
    BY <1>5, <2>1 DEF WriteTuple, Note, Writes, Deletes, Applied, TypeOK, Job
  <2>3. PICK place \in {"ok", "recheck", "failed"} : Goto(w, place)
    BY <1>5
  <2>4. pc' \in [Worker -> Place] /\ job' = job /\ key' = key /\ match' = match /\ todo' = todo /\ WorkInv'
    BY <1>5, <2>3, GotoTyped DEF Place, Syncing
  <2> QED
    BY <1>5, <2>2, <2>4 DEF TypeOK
<1>6. ASSUME NEW w \in Worker, SetTenantRole(w) \/ Recheck(w) \/ SetTenantRoleFails(w)
      PROVE  TypeOK' /\ WorkInv'
  <2>1. pc[w] \in {"write", "recheck"} /\ \E place \in {"ok", "recheck", "failed"} : Goto(w, place)
    BY <1>6 DEF SetTenantRole, Recheck, SetTenantRoleFails
  <2>2. faults' \in 0..MaxFaults /\ UNCHANGED crashes /\ UNCHANGED <<table, behind>>
    BY <1>6 DEF SetTenantRole, Recheck, SetTenantRoleFails, TypeOK
  <2>3. UNCHANGED <<tuples, stale>> \/ WriteTuple(w)
    BY <1>6 DEF SetTenantRole, Recheck, SetTenantRoleFails
  <2> QED
    BY <1>5, <2>1, <2>2, <2>3
<1>7. ASSUME NEW w \in Worker, MarkRow(w) PROVE TypeOK' /\ WorkInv'
  <2>1. job[w] \in Job /\ pc[w] # "idle"
    BY <1>7 DEF MarkRow, WorkInv, Syncing
  <2>2. /\ sync' \in [Assignment -> SyncStatus]
        /\ \A b \in Assignment : assigned'[b] => sync'[b] # "none"
    BY <1>7, <2>1 DEF MarkRow, TypeOK, SyncStatus, Job
  <2>3. stale' \in SUBSET Assignment /\ behind' \in SUBSET (Worker \X Assignment)
    BY <1>7, <2>1 DEF MarkRow, Note, TypeOK, Job
  <2> QED
    BY <1>7, <2>1, <2>2, <2>3, DoneTyped DEF MarkRow, TypeOK
<1>8. ASSUME NEW p \in Pass, StartPass(p) PROVE TypeOK' /\ WorkInv'
  <2> DEFINE list == {[of |-> a, flag |-> assigned[a]] :
                        a \in {b \in Assignment : sync[b] \in {"pending", "failed"}}}
  <2>1. list \subseteq Job /\ \A j, k \in list : j.of = k.of => j = k
    BY DEF Job, TypeOK
  <2>2. todo' = [todo EXCEPT ![p] = list] /\ pc' = [pc EXCEPT ![p] = "next"]
        /\ UNCHANGED <<table, tuples, job, key, match, faults, crashes, behind, stale>>
    BY <1>8 DEF StartPass
  <2> HIDE DEF list
  <2>3. TypeOK'
    BY <2>1, <2>2 DEF TypeOK, Place
  <2> QED
    BY <2>1, <2>2, <2>3 DEF WorkInv, TypeOK, Syncing
<1>9. ASSUME NEW p \in Pass, NextRow(p) PROVE TypeOK' /\ WorkInv'
  <2>1. CASE \E j \in todo[p] : /\ pc' = [pc EXCEPT ![p] = "write"]
                                /\ job' = [job EXCEPT ![p] = j]
                                /\ todo' = [todo EXCEPT ![p] = @ \ {j}]
    <3>1. PICK j \in todo[p] : /\ pc' = [pc EXCEPT ![p] = "write"]
                               /\ job' = [job EXCEPT ![p] = j]
                               /\ todo' = [todo EXCEPT ![p] = @ \ {j}]
      BY <2>1
    <3>2. j \in Job /\ UNCHANGED <<table, tuples, key, match, faults, crashes, behind, stale>>
      BY <1>9 DEF NextRow, TypeOK
    <3>3. TypeOK'
      BY <3>1, <3>2 DEF TypeOK, Place
    <3> QED
      BY <3>1, <3>2, <3>3 DEF WorkInv, TypeOK, Syncing
  <2>2. CASE todo[p] = {} /\ pc' = [pc EXCEPT ![p] = "idle"] /\ UNCHANGED <<job, todo>>
    BY <1>9, <2>2 DEF NextRow, TypeOK, WorkInv, Syncing, Place
  <2> QED
    BY <1>9, <2>1, <2>2 DEF NextRow
<1>10. ASSUME NEW w \in Worker, Crash(w) PROVE TypeOK' /\ WorkInv'
  <2>1. TypeOK'
    BY <1>10 DEF Crash, TypeOK, Place
  <2> QED
    BY <1>10, <2>1 DEF Crash, TypeOK, WorkInv, Syncing
<1>11. CASE UNCHANGED vars
  BY <1>11 DEF vars, work, TypeOK, WorkInv
<1> QED
  BY <1>1, <1>2, <1>3, <1>4, <1>6, <1>7, <1>8, <1>9, <1>10, <1>11
  DEF Next, CallStep, PassStep, Synchronize

-----------------------------------------------------------------------------
(* Rows                                                                    *)

(* The steps that change no row, record or outbox. *)
LEMMA OtherSteps ==
  ASSUME TypeOK, WorkInv, [Next]_vars
  PROVE  \/ \E c \in Call : Accepted(c) /\ pc[c] = "tx" /\ Store(c)
                          /\ UNCHANGED <<tuples, stale>> /\ Overtake(c)
         \/ \E w \in Worker : MarkRow(w)
         \/ UNCHANGED table
  BY DEF Next, CallStep, PassStep, Synchronize, StartCommand, LookUp, Transact, ReadRow, SetTenantRole,
     Recheck, StartPass, NextRow, SetTenantRoleFails, Crash, vars, table, Worker

(* No row disappears. *)
LEMMA RowsStay ==
  ASSUME TypeOK, WorkInv, RowInv, [Next]_vars, NEW a \in Assignment, sync[a] # "none"
  PROVE  sync'[a] # "none"
<1>1. ASSUME NEW c \in Call, pc[c] = "tx", Store(c) PROVE sync'[a] # "none"
  <2>1. job[c].of \in Assignment
    BY <1>1 DEF WorkInv, Job
  <2> QED
    BY <1>1, <2>1 DEF Store, TypeOK
<1>2. ASSUME NEW w \in Worker, MarkRow(w) PROVE sync'[a] # "none"
  BY <1>2 DEF MarkRow, TypeOK
<1> QED
  BY <1>1, <1>2, OtherSteps DEF table

LEMMA RowStep ==
  ASSUME TypeOK, WorkInv, RowInv, TypeOK', WorkInv', [Next]_vars
  PROVE  RowInv'
<1> DEFINE Has(w) == pc[w] \in {"read"} \union Syncing
<1>1. ASSUME NEW w \in Worker, Has(w)', job'[w] = job[w], Has(w)
      PROVE  sync'[job'[w].of] # "none"
  <2>1. job[w] \in Job
    BY <1>1 DEF WorkInv, Syncing, Worker
  <2> QED
    BY <1>1, <2>1, RowsStay DEF RowInv, Job
<1>2. \A i \in Idempotency : commands'[i] # None => sync'[commands'[i].of] # "none"
  <2> SUFFICES ASSUME NEW i \in Idempotency, commands'[i] # None PROVE sync'[commands'[i].of] # "none"
    OBVIOUS
  <2>1. CASE commands'[i] = commands[i]
    <3>1. commands[i] \in Command
      BY <2>1 DEF TypeOK
    <3> QED
      BY <2>1, <3>1, RowsStay DEF RowInv, Command
  <2>2. ASSUME NEW c \in Call, pc[c] = "tx", Store(c), commands'[i] # commands[i]
        PROVE  sync'[commands'[i].of] # "none"
    <3>1. job[c].of \in Assignment /\ key[c] = i
      BY <2>2 DEF WorkInv, Job, Store, TypeOK
    <3> QED
      BY <2>2, <3>1 DEF Store, TypeOK
  <2> QED
    BY <2>1, <2>2, OtherSteps DEF MarkRow, table
<1>3. ASSUME NEW w \in Worker, Has(w)', ~(Has(w) /\ job'[w] = job[w])
      PROVE  sync'[job'[w].of] # "none"
  <2>1. CASE \E c \in Call : pc[c] \in {"replay", "tx"} /\ commands[key[c]] # None
                          /\ Replay(c, commands[key[c]]) /\ UNCHANGED table
    <3>1. PICK c \in Call : pc[c] \in {"replay", "tx"} /\ commands[key[c]] # None
                          /\ Replay(c, commands[key[c]]) /\ UNCHANGED table
      BY <2>1
    <3>2. w = c /\ job' = job /\ SameCommand(c, commands[key[c]])
      BY <1>3, <3>1 DEF Replay, Goto, Done, Syncing, TypeOK, Worker
    <3>3. commands[key[c]].of = job[c].of
      BY <3>2 DEF SameCommand
    <3> QED
      BY <3>1, <3>2, <3>3 DEF RowInv, table, WorkInv
  <2>2. CASE \E c \in Call : pc[c] = "tx" /\ Store(c)
    <3>1. PICK c \in Call : pc[c] = "tx" /\ Store(c)
      BY <2>2
    <3>2. w = c /\ job' = job /\ job[c].of \in Assignment
      BY <1>3, <3>1, SMTT(30) DEF Store, Goto, Done, Syncing, TypeOK, Worker, WorkInv, Job
    <3> QED
      BY <3>1, <3>2 DEF Store, TypeOK
  <2>3. CASE \E p \in Pass : NextRow(p)
    <3>1. PICK p \in Pass : NextRow(p)
      BY <2>3
    <3>2. w = p /\ job'[p] \in todo[p] /\ sync' = sync
      BY <1>3, <3>1 DEF NextRow, Syncing, TypeOK, Worker, table
    <3> QED
      BY <3>2 DEF RowInv
  <2>4. ASSUME NEW v \in Worker, \E place \in Place : Goto(v, place), pc[v] \in {"read"} \union Syncing
        PROVE  FALSE
    BY <1>3, <2>4 DEF Goto, TypeOK, Worker
  <2>5. ASSUME NEW v \in Worker, Done(v) PROVE FALSE
    BY <1>3, <2>5 DEF Done, TypeOK, Worker, Syncing
  <2>6. ASSUME NEW v \in Worker, Crash(v) PROVE FALSE
    BY <1>3, <2>6 DEF Crash, TypeOK, Worker, Syncing
  <2>7. ASSUME NEW p \in Pass, StartPass(p) PROVE FALSE
    BY <1>3, <2>7 DEF StartPass, TypeOK, Worker, Syncing
  <2>8. ASSUME NEW c \in Call, Goto(c, "tx") PROVE FALSE
    BY <1>3, <2>8 DEF Goto, TypeOK, Worker, Syncing
  <2>9. ASSUME NEW c \in Call, NEW i \in Idempotency, NEW a \in Assignment, NEW flag \in BOOLEAN,
               StartCommand(c, i, a, flag)
        PROVE  FALSE
    BY <1>3, <2>9 DEF StartCommand, TypeOK, Worker, Syncing
  <2>10. CASE UNCHANGED vars
    BY <1>3, <2>10 DEF vars, work
  <2>11. ASSUME NEW c \in Call, LookUp(c) PROVE sync'[job'[w].of] # "none"
    BY <2>1, <2>5, <2>8, <2>11 DEF LookUp, Worker, table
  <2>12. ASSUME NEW c \in Call, Transact(c) PROVE sync'[job'[w].of] # "none"
    BY <2>1, <2>2, <2>5, <2>12 DEF Transact, Worker
  <2>13. ASSUME NEW c \in Call, ReadRow(c) PROVE FALSE
    BY <2>4, <2>5, <2>13 DEF ReadRow, Worker, Place
  <2>14. ASSUME NEW v \in Worker, SetTenantRole(v) \/ Recheck(v) \/ MarkRow(v) \/ SetTenantRoleFails(v)
         PROVE  FALSE
    BY <2>4, <2>5, <2>14 DEF SetTenantRole, Recheck, MarkRow, SetTenantRoleFails, Syncing, Place
  <2> QED
    BY <2>3, <2>6, <2>7, <2>9, <2>10, <2>11, <2>12, <2>13, <2>14
    DEF Next, CallStep, PassStep, Synchronize, Worker
<1>4. \A p \in Pass : \A j \in todo'[p] : sync'[j.of] # "none"
  <2> SUFFICES ASSUME NEW p \in Pass, NEW j \in todo'[p] PROVE sync'[j.of] # "none"
    OBVIOUS
  <2>1. CASE j \in todo[p]
    <3>1. j.of \in Assignment
      BY <2>1 DEF TypeOK, Job
    <3> QED
      BY <2>1, <3>1, RowsStay DEF RowInv
  <2>2. CASE StartPass(p)
    BY <2>2 DEF StartPass, TypeOK, table
  <2>3. CASE todo'[p] \subseteq todo[p]
    BY <2>1, <2>3
  <2>4. StartPass(p) \/ todo'[p] \subseteq todo[p]
    <3>1. ASSUME NEW w \in Worker, Done(w) \/ \E place \in Place : Goto(w, place) PROVE todo' = todo
      BY <3>1 DEF Goto, Done
    <3>2. ASSUME NEW c \in Call, CallStep(c) PROVE todo' = todo
      BY <3>1, <3>2 DEF CallStep, LookUp, Transact, ReadRow, Store, Replay, Synchronize, SetTenantRole,
         Recheck, MarkRow, Worker, Place
    <3>3. ASSUME NEW w \in Worker, Synchronize(w) \/ SetTenantRoleFails(w) PROVE todo' = todo
      BY <3>3 DEF Synchronize, SetTenantRole, Recheck, MarkRow, SetTenantRoleFails, Goto, Done
    <3>4. ASSUME NEW q \in Pass, StartPass(q), q # p PROVE todo'[p] = todo[p]
      BY <3>4 DEF StartPass, TypeOK
    <3>5. ASSUME NEW q \in Pass, NextRow(q) PROVE todo'[p] \subseteq todo[p]
      <4>1. todo \in [Pass -> SUBSET Job]
        BY DEF TypeOK
      <4>2. todo' = todo \/ \E k \in todo[q] : todo' = [todo EXCEPT ![q] = todo[q] \ {k}]
        BY <3>5 DEF NextRow
      <4> QED
        BY <4>1, <4>2
    <3>6. ASSUME NEW w \in Worker, Crash(w) PROVE todo'[p] \subseteq todo[p]
      BY <3>6 DEF Crash, TypeOK
    <3> QED
      BY <3>2, <3>3, <3>4, <3>5, <3>6 DEF Next, PassStep, StartCommand, vars, work, Worker, TypeOK
  <2> QED
    BY <2>2, <2>3, <2>4
<1> QED
  BY <1>1, <1>2, <1>3, <1>4 DEF RowInv

-----------------------------------------------------------------------------
(* Owners                                                                  *)

(* Whoever else holds an owner assignment, the owners stay. *)
LEMMA OwnersGrow ==
  ASSUME NEW S, NEW T, Owner \intersect S \subseteq T, OwnersBy(S) # {}
  PROVE  OwnersBy(T) # {}
BY DEF OwnersBy

(* The steps that change a tuple or a row's flag; history only grows. *)
LEMMA OwnerSteps ==
  ASSUME TypeOK, WorkInv, [Next]_vars
  PROVE  /\ stale \subseteq stale'
         /\ \/ \E c \in Call : pc[c] = "tx" /\ Accepted(c) /\ Store(c) /\ UNCHANGED tuples
            \/ \E w \in Worker : pc[w] = "write" /\ WriteTuple(w) /\ UNCHANGED assigned
            \/ UNCHANGED <<tuples, assigned>>
<1>1. \A w : Note(w) => stale \subseteq stale'
  BY DEF Note
<1> QED
  BY <1>1 DEF Next, CallStep, PassStep, Synchronize, StartCommand, LookUp, Transact, ReadRow, SetTenantRole,
     WriteTuple, Recheck, MarkRow, StartPass, NextRow, SetTenantRoleFails, Crash, vars, table, Worker, Still

(* A revocation counts owners whose tuples are there, and only a worker    *)
(* that is behind deletes the tuple of an assigned owner.                  *)
LEMMA OwnerStep ==
  ASSUME TypeOK, WorkInv, KnowsFlag, SyncedIsTrue, OwnerInv, [Next]_vars
  PROVE  /\ OwnerInv'
         /\ Owner \intersect stale' = {} /\ OwnersBy(tuples) # {} => OwnersBy(tuples') # {}
<1> DEFINE kept == {o \in tuples : assigned[o]}
           kept1 == {o \in tuples' : assigned'[o]}
           Goal == /\ OwnersBy(tuples') # {} => OwnersBy(kept1) # {}
                   /\ OwnersBy(tuples) # {} => OwnersBy(tuples') # {}
<1>0. SUFFICES ASSUME Owner \intersect stale' = {} PROVE Goal
  BY DEF OwnerInv, OwnersBy
<1>1. Owner \intersect stale = {}
  BY <1>0, OwnerSteps
<1>2. OwnersBy(tuples) # {} => OwnersBy(kept) # {}
  BY <1>1 DEF OwnerInv
<1>k. OwnersBy(kept1) # {} => OwnersBy(tuples') # {}
  BY OwnersGrow
<1>3. ASSUME NEW c \in Call, pc[c] = "tx", Accepted(c), Store(c), tuples' = tuples PROVE Goal
  <2> DEFINE a == job[c].of
             flag == job[c].flag
  <2>1. a \in Assignment /\ flag \in BOOLEAN
    BY <1>3 DEF WorkInv, Job
  <2>2. assigned' = [assigned EXCEPT ![a] = flag]
    BY <1>3 DEF Store
  <2>3. CASE a \in Owner /\ ~flag
    <3> DEFINE Counted == {o \in Owner \ {a} : assigned[o] /\ sync[o] = "synced"}
    <3>1. OwnersBy(Counted) # {}
      BY <1>3, <2>3 DEF Accepted, KeepsOwner, OwnersBesides
    <3>2. Counted \subseteq kept1
      BY <1>1, <1>3, <2>1, <2>2 DEF SyncedIsTrue, TypeOK
    <3>3. Owner \intersect Counted \subseteq kept1
      BY <3>2
    <3> QED
      BY <1>3, <1>k, <3>1, <3>3, OwnersGrow
  <2>4. CASE a \notin Owner \/ flag
    <3>1. Owner \intersect kept \subseteq kept1
      BY <1>3, <2>1, <2>2, <2>4 DEF TypeOK
    <3> QED
      BY <1>2, <1>3, <3>1, OwnersGrow
  <2> QED
    BY <2>1, <2>3, <2>4
<1>4. ASSUME NEW w \in Worker, pc[w] = "write", WriteTuple(w), assigned' = assigned PROVE Goal
  <2> DEFINE a == job[w].of
             flag == job[w].flag
  <2>1. a \in Assignment /\ flag \in BOOLEAN
    BY <1>4 DEF WorkInv, Job, Syncing, Worker
  <2>2. a \in Owner => flag = assigned[a]
    BY <1>0, <1>4 DEF WriteTuple, Note, KnowsFlag
  <2>3. tuples' = IF flag THEN tuples \union {a} ELSE tuples \ {a}
    BY <1>4, <2>1 DEF WriteTuple, Writes, Deletes, Applied
  <2>4. Owner \intersect kept \subseteq kept1
    BY <1>4, <2>1, <2>2, <2>3
  <2>5. OwnersBy(tuples) # {} => OwnersBy(kept1) # {}
    BY <1>2, <2>4, OwnersGrow
  <2>6. CASE flag /\ a \in Owner
    <3>1. OwnersBy(tuples') # {} => OwnersBy(tuples) # {} \/ OwnersBy({a}) # {}
      BY <2>3, <2>6 DEF OwnersBy
    <3>2. Owner \intersect {a} \subseteq kept1
      BY <1>4, <2>2, <2>3, <2>6
    <3>3. OwnersBy({a}) # {} => OwnersBy(kept1) # {}
      BY <3>2, OwnersGrow
    <3> QED
      BY <1>k, <2>5, <3>1, <3>3
  <2>7. CASE ~flag \/ a \notin Owner
    <3>1. Owner \intersect tuples' \subseteq tuples
      BY <2>3, <2>7
    <3>2. OwnersBy(tuples') # {} => OwnersBy(tuples) # {}
      BY <3>1, OwnersGrow
    <3> QED
      BY <1>k, <2>5, <3>2
  <2> QED
    BY <2>1, <2>6, <2>7
<1>5. CASE UNCHANGED <<tuples, assigned>>
  BY <1>2, <1>5
<1> QED
  BY <1>3, <1>4, <1>5, OwnerSteps

-----------------------------------------------------------------------------
(* Synced rows and tuples                                                  *)

(* Steps of one worker that change no row, tuple or history. *)
LEMMA QuietSync ==
  ASSUME TypeOK, WorkInv, SyncInv, UNCHANGED <<table, tuples, stale>>, behind \subseteq behind',
         NEW w \in Worker,
         \A v \in Worker \ {w} : pc'[v] = pc[v] /\ job'[v] = job[v],
         w \in Pass => \A p \in Pass \ {w} : todo'[p] = todo[p],
         w \in Pass => todo'[w] \subseteq todo[w],
         w \in Call => todo' = todo,
         pc'[w] \in {"write", "recheck", "ok"} /\ <<w, job'[w].of>> \notin behind' =>
             job'[w].flag = assigned[job'[w].of],
         pc'[w] \in {"recheck", "ok"} /\ <<w, job'[w].of>> \notin behind' /\ job'[w].of \notin stale =>
             Agree(job'[w].of)
  PROVE  SyncInv'
<1>1. KnowsFlag'
  BY DEF SyncInv, KnowsFlag, table, Worker
<1>2. HasWritten'
  BY DEF SyncInv, HasWritten, Agree, table, Worker
<1>3. SyncedIsTrue'
  BY DEF SyncInv, SyncedIsTrue, table
<1> QED
  BY <1>1, <1>2, <1>3 DEF SyncInv

(* A worker that wrote the tuple, or found it written, whose flag is the   *)
(* row's.                                                                  *)
LEMMA WriteTupleSync ==
  ASSUME TypeOK, WorkInv, SyncInv, UNCHANGED <<table, behind>>, NEW w \in Worker,
         pc[w] = "write", WriteTuple(w), NEW place \in {"ok", "failed"}, Goto(w, place)
  PROVE  SyncInv'
<1> DEFINE a == job[w].of
<1>1. a \in Assignment /\ job[w].flag \in BOOLEAN
  BY DEF WorkInv, Job, Syncing, Worker
<1>2. /\ UNCHANGED <<job, todo, assigned, sync, behind>>
      /\ \A v \in Worker \ {w} : pc'[v] = pc[v]
      /\ pc'[w] = place
      /\ \A b \in Assignment \ {a} : b \in tuples' <=> b \in tuples
      /\ a \in tuples' <=> job[w].flag
      /\ stale \subseteq stale' /\ stale' \subseteq stale \union {a}
  BY <1>1 DEF Goto, WriteTuple, Note, Applied, Writes, Deletes, TypeOK, table, Worker
<1>3. KnowsFlag'
  BY <1>2 DEF SyncInv, KnowsFlag, Worker
<1>4. CASE <<w, a>> \in behind
  <2>1. stale' = stale \union {a}
    BY <1>4 DEF WriteTuple, Note
  <2>2. HasWritten'
    <3> SUFFICES ASSUME NEW v \in Worker, pc'[v] \in {"recheck", "ok"}, <<v, job[v].of>> \notin behind,
                        job[v].of \notin stale'
                 PROVE  Agree(job[v].of)'
      BY <1>2 DEF HasWritten
    <3>1. v # w /\ job[v] \in Job /\ job[v].of # a
      BY <1>2, <1>4, <2>1 DEF WorkInv, Worker, Syncing
    <3> QED
      BY <1>2, <2>1, <3>1 DEF SyncInv, HasWritten, Agree, Job
  <2>3. SyncedIsTrue'
    BY <1>2, <2>1 DEF SyncInv, SyncedIsTrue
  <2> QED
    BY <1>3, <2>2, <2>3 DEF SyncInv
<1>5. CASE <<w, a>> \notin behind
  <2>1. stale' = stale /\ Agree(a)'
    BY <1>2, <1>5 DEF WriteTuple, Note, SyncInv, KnowsFlag, Agree
  <2>2. HasWritten'
    <3> SUFFICES ASSUME NEW v \in Worker, pc'[v] \in {"recheck", "ok"}, <<v, job[v].of>> \notin behind,
                        job[v].of \notin stale
                 PROVE  Agree(job[v].of)'
      BY <1>2, <2>1 DEF HasWritten
    <3>1. CASE job[v].of = a
      BY <2>1, <3>1, <1>2 DEF Agree
    <3>2. CASE job[v].of # a
      <4>1. v # w /\ job[v] \in Job
        BY <1>2, <3>2 DEF WorkInv, Worker, Syncing
      <4> QED
        BY <1>2, <3>2, <4>1 DEF SyncInv, HasWritten, Agree, Job
    <3> QED
      BY <3>1, <3>2
  <2>3. SyncedIsTrue'
    BY <1>2, <2>1 DEF SyncInv, SyncedIsTrue, Agree
  <2> QED
    BY <1>3, <2>2, <2>3 DEF SyncInv
<1> QED
  BY <1>4, <1>5

(* A command changes the row: it is pending, and whoever had read it is    *)
(* behind.                                                                 *)
LEMMA StoreSync ==
  ASSUME TypeOK, WorkInv, SyncInv, NEW c \in Call, pc[c] = "tx", Store(c), Overtake(c),
         UNCHANGED <<tuples, stale>>
  PROVE  SyncInv'
<1> DEFINE a == job[c].of
           flag == job[c].flag
           others == Worker \ {c}
<1>1. a \in Assignment /\ flag \in BOOLEAN /\ c \notin Pass
  BY DEF WorkInv, Job
<1>2. /\ assigned' = [assigned EXCEPT ![a] = flag]
      /\ sync' = [sync EXCEPT ![a] = IF assigned[a] # flag \/ @ = "none" THEN "pending" ELSE @]
      /\ \A v \in others : pc'[v] = pc[v] /\ job'[v] = job[v]
      /\ todo' = todo
      /\ pc'[c] \notin {"write", "recheck", "ok"}
  BY <1>1 DEF Store, Goto, Done, TypeOK, Worker
<1>3. CASE assigned[a] = flag
  <2>1. assigned' = assigned /\ behind' = behind
    BY <1>1, <1>2, <1>3 DEF TypeOK, Overtake
  <2>2. \A b \in Assignment : sync'[b] = "synced" => sync[b] = "synced"
    BY <1>1, <1>2 DEF TypeOK
  <2>3. KnowsFlag'
    BY <1>2, <2>1 DEF SyncInv, KnowsFlag
  <2>4. HasWritten'
    BY <1>2, <2>1 DEF SyncInv, HasWritten, Agree
  <2>5. SyncedIsTrue'
    BY <2>1, <2>2 DEF SyncInv, SyncedIsTrue
  <2> QED
    BY <2>3, <2>4, <2>5 DEF SyncInv
<1>4. CASE assigned[a] # flag
  <2>1. behind' = behind \union {<<w, a>> : w \in {v \in others : InHand(v, a)}}
    BY <1>1, <1>2, <1>4 DEF TypeOK, Overtake, Worker
  <2>2. \A b \in Assignment \ {a} : assigned'[b] = assigned[b]
    BY <1>1, <1>2 DEF TypeOK
  <2>3. \A b \in Assignment \ {a} : sync'[b] = sync[b]
    BY <1>1, <1>2 DEF TypeOK
  <2>4. sync'[a] = "pending"
    BY <1>1, <1>2, <1>4 DEF TypeOK
  <2>5. ASSUME NEW w \in Worker, pc'[w] \in {"write", "recheck", "ok"}, <<w, job'[w].of>> \notin behind'
        PROVE  /\ w \in others /\ pc'[w] = pc[w] /\ job'[w] = job[w] /\ <<w, job[w].of>> \notin behind
               /\ job[w].of # a /\ job[w].of \in Assignment
    <3>1. w \in others /\ pc'[w] = pc[w] /\ job'[w] = job[w]
      BY <1>2, <2>5
    <3>2. job[w].of \in Assignment
      BY <2>5, <3>1 DEF WorkInv, Worker, Syncing, Job
    <3>3. job[w].of # a
      BY <2>1, <2>5, <3>1 DEF InHand
    <3> QED
      BY <2>1, <2>5, <3>1, <3>2, <3>3
  <2>6. KnowsFlag'
    <3>1. ASSUME NEW p \in Pass, NEW j \in todo[p], <<p, j.of>> \notin behind' PROVE j.flag = assigned'[j.of]
      <4>1. j.of \in Assignment /\ p \in others
        BY <1>1 DEF TypeOK, Job, Worker
      <4>2. j.of # a /\ <<p, j.of>> \notin behind
        BY <2>1, <3>1, <4>1 DEF InHand
      <4> QED
        BY <2>2, <4>1, <4>2 DEF SyncInv, KnowsFlag
    <3> QED
      BY <1>2, <2>2, <2>5, <3>1 DEF SyncInv, KnowsFlag
  <2>7. HasWritten'
    BY <2>2, <2>5 DEF SyncInv, HasWritten, Agree
  <2>8. SyncedIsTrue'
    BY <2>2, <2>3, <2>4 DEF SyncInv, SyncedIsTrue
  <2> QED
    BY <2>6, <2>7, <2>8 DEF SyncInv
<1> QED
  BY <1>3, <1>4

LEMMA MarkRowSync ==
  ASSUME TypeOK, WorkInv, SyncInv, NEW w \in Worker, MarkRow(w)
  PROVE  SyncInv'
<1> DEFINE a == job[w].of
<1>1. a \in Assignment /\ pc[w] \in {"ok", "failed"}
  BY DEF MarkRow, WorkInv, Job, Syncing, Worker
<1>2. /\ UNCHANGED <<assigned, tuples, todo>>
      /\ behind' = behind \ {<<w, a>>}
      /\ \A v \in Worker \ {w} : pc'[v] = pc[v] /\ job'[v] = job[v]
      /\ pc'[w] \in {"idle", "next"}
      /\ sync' = [sync EXCEPT ![a] = IF pc[w] = "ok" THEN "synced" ELSE "failed"]
      /\ stale \subseteq stale'
      /\ pc[w] = "ok" /\ <<w, a>> \in behind => a \in stale'
  BY DEF MarkRow, Done, Note, TypeOK, Worker
<1>3. KnowsFlag'
  <2>1. ASSUME NEW p \in Pass, NEW j \in todo[p], <<p, j.of>> \notin behind' PROVE j.flag = assigned[j.of]
    <3>1. <<p, j.of>> # <<w, a>>
      BY <1>1 DEF WorkInv, Syncing
    <3> QED
      BY <1>2, <2>1, <3>1 DEF SyncInv, KnowsFlag
  <2>2. ASSUME NEW v \in Worker, pc'[v] \in {"write", "recheck", "ok"}, <<v, job'[v].of>> \notin behind'
        PROVE  v # w /\ <<v, job[v].of>> \notin behind
    BY <1>2, <2>2
  <2> QED
    BY <1>2, <2>1, <2>2 DEF SyncInv, KnowsFlag
<1>4. HasWritten'
  BY <1>2 DEF SyncInv, HasWritten, Agree
<1>5. SyncedIsTrue'
  <2> SUFFICES ASSUME NEW b \in Assignment \ stale', sync'[b] = "synced" PROVE Agree(b)
    BY <1>2 DEF SyncedIsTrue, Agree
  <2>1. CASE b = a
    BY <1>1, <1>2, <2>1 DEF SyncInv, HasWritten, TypeOK
  <2>2. CASE b # a
    BY <1>1, <1>2, <2>2 DEF SyncInv, SyncedIsTrue, Agree, TypeOK
  <2> QED
    BY <2>1, <2>2
<1> QED
  BY <1>3, <1>4, <1>5 DEF SyncInv

LEMMA SyncStep ==
  ASSUME TypeOK, WorkInv, SyncInv, [Next]_vars
  PROVE  SyncInv'
<1>1. ASSUME NEW c \in Call, NEW i \in Idempotency, NEW a \in Assignment, NEW flag \in BOOLEAN,
             StartCommand(c, i, a, flag)
      PROVE  SyncInv'
  <2>1. UNCHANGED <<table, tuples, stale, behind, todo>> /\ pc'[c] = "replay" /\ c \in Worker
        /\ \A v \in Worker \ {c} : pc'[v] = pc[v] /\ job'[v] = job[v]
    BY <1>1 DEF StartCommand, Still, TypeOK, Worker
  <2> QED
    BY <1>1, <2>1, QuietSync
<1>2. ASSUME NEW w \in Worker, NEW place \in Place, Goto(w, place) \/ Done(w),
             place \notin {"write", "recheck", "ok"}, UNCHANGED <<table, tuples, stale, behind>>
      PROVE  SyncInv'
  <2>1. /\ todo' = todo
        /\ pc'[w] \notin {"write", "recheck", "ok"}
        /\ \A v \in Worker \ {w} : pc'[v] = pc[v] /\ job'[v] = job[v]
    BY <1>2 DEF Goto, Done, TypeOK, Worker
  <2> QED
    BY <1>2, <2>1, QuietSync
<1>3. ASSUME NEW c \in Call, LookUp(c) PROVE SyncInv'
  <2>1. UNCHANGED <<table, tuples, stale, behind>> /\ c \in Worker
    BY <1>3 DEF LookUp, Still, Worker
  <2>2. Goto(c, "read") \/ Goto(c, "tx") \/ Done(c)
    BY <1>3 DEF LookUp, Replay
  <2> QED
    BY <1>2, <2>1, <2>2 DEF Place
<1>16. ASSUME NEW c \in Call, Transact(c), UNCHANGED table PROVE SyncInv'
  <2>1. UNCHANGED <<table, tuples, stale, behind>> /\ c \in Worker
    BY <1>16 DEF Transact, Overtake, table, Worker
  <2>2. Goto(c, "read") \/ Done(c)
    BY <1>16 DEF Transact, Store, Replay
  <2> QED
    BY <1>2, <2>1, <2>2 DEF Place
<1>4. ASSUME NEW c \in Call, Transact(c), Store(c) PROVE SyncInv'
  BY <1>4, StoreSync DEF Transact
<1>5. ASSUME NEW c \in Call, ReadRow(c) PROVE SyncInv'
  <2>1. job[c].of \in Assignment /\ pc[c] = "read" /\ c \in Worker
    BY <1>5 DEF ReadRow, WorkInv, Job, Worker
  <2>2. CASE Done(c) /\ UNCHANGED behind
    BY <1>2, <1>5, <2>1, <2>2 DEF ReadRow, Place
  <2>3. CASE /\ Goto(c, "write")
             /\ behind' = IF job[c].flag = assigned[job[c].of] THEN behind
                          ELSE behind \union {<<c, job[c].of>>}
    <3>1. /\ UNCHANGED <<table, tuples, stale, todo, job>>
          /\ pc'[c] = "write"
          /\ \A v \in Worker \ {c} : pc'[v] = pc[v]
      BY <1>5, <2>1, <2>3 DEF ReadRow, Goto, TypeOK, Worker
    <3>2. behind \subseteq behind' /\ (<<c, job[c].of>> \notin behind' => job[c].flag = assigned[job[c].of])
      BY <2>3
    <3> QED
      BY <2>1, <3>1, <3>2, QuietSync
  <2> QED
    BY <1>5, <2>2, <2>3 DEF ReadRow
<1>6. ASSUME NEW w \in Worker, SetTenantRole(w) PROVE SyncInv'
  <2>1. pc[w] = "write" /\ job[w].of \in Assignment
    BY <1>6 DEF SetTenantRole, WorkInv, Job, Syncing, Worker
  <2>2. CASE WriteTuple(w) /\ Goto(w, "ok")
    BY <1>6, <2>1, <2>2, WriteTupleSync DEF SetTenantRole
  <2>3. CASE /\ ~Accepts(tuples, Writes(w), Deletes(w))
             /\ Goto(w, "recheck")
             /\ UNCHANGED <<tuples, stale>>
    <3>1. /\ UNCHANGED <<table, tuples, stale, behind, todo, job>>
          /\ pc'[w] = "recheck"
          /\ \A v \in Worker \ {w} : pc'[v] = pc[v]
      BY <1>6, <2>3 DEF SetTenantRole, Goto, TypeOK, Worker
    <3>2. job[w].of \in tuples <=> job[w].flag
      BY <2>3 DEF Accepts, Writes, Deletes
    <3>3. <<w, job[w].of>> \notin behind => job[w].flag = assigned[job[w].of] /\ Agree(job[w].of)
      BY <2>1, <3>2 DEF SyncInv, KnowsFlag, Agree
    <3> QED
      BY <3>1, <3>3, QuietSync
  <2> QED
    BY <1>6, <2>2, <2>3 DEF SetTenantRole
<1>7. ASSUME NEW w \in Worker, Recheck(w) PROVE SyncInv'
  <2>1. /\ UNCHANGED <<table, tuples, stale, behind, todo, job>>
        /\ pc[w] = "recheck" /\ pc'[w] \in {"ok", "failed"}
        /\ \A v \in Worker \ {w} : pc'[v] = pc[v]
    BY <1>7 DEF Recheck, Goto, Still, TypeOK, Worker
  <2> QED
    BY <2>1, QuietSync DEF SyncInv, KnowsFlag, HasWritten
<1>8. ASSUME NEW w \in Worker, SetTenantRoleFails(w) PROVE SyncInv'
  <2>1. CASE pc[w] = "write" /\ WriteTuple(w)
    BY <1>8, <2>1, WriteTupleSync DEF SetTenantRoleFails
  <2>2. CASE UNCHANGED <<tuples, stale>>
    BY <1>2, <1>8, <2>2 DEF SetTenantRoleFails, Place
  <2> QED
    BY <1>8, <2>1, <2>2 DEF SetTenantRoleFails
<1>9. ASSUME NEW p \in Pass, StartPass(p) PROVE SyncInv'
  <2>1. /\ UNCHANGED <<table, tuples, stale, behind, job>>
        /\ \A v \in Worker \ {p} : pc'[v] = pc[v]
        /\ pc'[p] = "next"
        /\ \A q \in Pass \ {p} : todo'[q] = todo[q]
        /\ \A j \in todo'[p] : j.flag = assigned[j.of]
    BY <1>9 DEF StartPass, Still, TypeOK, Worker
  <2>2. KnowsFlag'
    BY <2>1 DEF SyncInv, KnowsFlag, table, Worker
  <2>3. HasWritten' /\ SyncedIsTrue'
    BY <2>1 DEF SyncInv, HasWritten, SyncedIsTrue, Agree, table, Worker
  <2> QED
    BY <2>2, <2>3 DEF SyncInv
<1>10. ASSUME NEW p \in Pass, NextRow(p) PROVE SyncInv'
  <2>1. UNCHANGED <<table, tuples, stale, behind>>
    BY <1>10 DEF NextRow, Still
  <2>2. CASE \E j \in todo[p] : /\ pc' = [pc EXCEPT ![p] = "write"]
                                /\ job' = [job EXCEPT ![p] = j]
                                /\ todo' = [todo EXCEPT ![p] = @ \ {j}]
    <3>1. PICK j \in todo[p] : /\ pc' = [pc EXCEPT ![p] = "write"]
                               /\ job' = [job EXCEPT ![p] = j]
                               /\ todo' = [todo EXCEPT ![p] = @ \ {j}]
      BY <2>2
    <3>2. /\ \A v \in Worker \ {p} : pc'[v] = pc[v] /\ job'[v] = job[v]
          /\ \A q \in Pass \ {p} : todo'[q] = todo[q]
          /\ todo'[p] \subseteq todo[p]
          /\ pc'[p] = "write" /\ job'[p] = j /\ p \notin Call
      BY <3>1 DEF TypeOK, Worker
    <3>3. <<p, j.of>> \notin behind => j.flag = assigned[j.of]
      BY DEF SyncInv, KnowsFlag
    <3> QED
      BY <2>1, <3>2, <3>3, QuietSync DEF Worker
  <2>3. CASE todo[p] = {} /\ pc' = [pc EXCEPT ![p] = "idle"] /\ UNCHANGED <<job, todo>>
    BY <1>2, <2>1, <2>3 DEF Goto, Place, Worker, NextRow, SyncInv, KnowsFlag, HasWritten, SyncedIsTrue,
       Agree, TypeOK, table
  <2> QED
    BY <1>10, <2>2, <2>3 DEF NextRow
<1>11. ASSUME NEW w \in Worker, Crash(w) PROVE SyncInv'
  <2>1. /\ UNCHANGED <<table, tuples, stale>>
        /\ behind' = behind \ ({w} \X Assignment)
        /\ \A v \in Worker \ {w} : pc'[v] = pc[v] /\ job'[v] = job[v]
        /\ \A p \in Pass \ {w} : todo'[p] = todo[p]
        /\ w \in Pass => todo'[w] = {}
        /\ pc'[w] = "idle"
    BY <1>11 DEF Crash, TypeOK, Worker
  <2>2. KnowsFlag'
    BY <2>1 DEF SyncInv, KnowsFlag, table, Worker
  <2>3. HasWritten' /\ SyncedIsTrue'
    BY <2>1 DEF SyncInv, HasWritten, SyncedIsTrue, Agree, table, Worker
  <2> QED
    BY <2>2, <2>3 DEF SyncInv
<1>12. CASE UNCHANGED vars
  BY <1>12 DEF vars, table, work, SyncInv, KnowsFlag, HasWritten, SyncedIsTrue, Agree
<1>13. ASSUME NEW w \in Worker, Synchronize(w) PROVE SyncInv'
  BY <1>6, <1>7, <1>13, MarkRowSync DEF Synchronize
<1>14. ASSUME NEW c \in Call, CallStep(c) PROVE SyncInv'
  <2>1. CASE Transact(c)
    <3>1. UNCHANGED table \/ Store(c)
      BY <2>1 DEF Transact
    <3> QED
      BY <1>4, <1>16, <2>1, <3>1
  <2>2. CASE Synchronize(c)
    BY <1>13, <2>2 DEF Worker
  <2> QED
    BY <1>3, <1>5, <1>14, <2>1, <2>2 DEF CallStep
<1>15. ASSUME NEW p \in Pass, PassStep(p) PROVE SyncInv'
  BY <1>9, <1>10, <1>13, <1>15 DEF PassStep, Worker
<1> QED
  BY <1>1, <1>8, <1>11, <1>12, <1>14, <1>15 DEF Next, Worker

-----------------------------------------------------------------------------
(* Revisions, commands and events                                          *)

(* A new event tells of a change, so the last one about its assignment     *)
(* told the opposite.                                                      *)
LEMMA EventsAppend ==
  ASSUME TypeOK, EventsTellTable, NEW e \in Job, assigned[e.of] # e.flag,
         assigned' = [assigned EXCEPT ![e.of] = e.flag], outbox' = Append(outbox, e)
  PROVE  EventsTellTable'
<1> DEFINE N == Len(outbox)
<1>1. /\ N \in Nat /\ Len(outbox') = N + 1 /\ outbox'[N + 1] = e
      /\ \A n \in 1..N : outbox'[n] = outbox[n] /\ outbox[n] \in Job
  BY DEF TypeOK
<1>2. /\ 1..Len(outbox') = (1..N) \union {N + 1} /\ N + 1 \notin 1..N
      /\ \A n \in 1..N : n <= N + 1 /\ n < N + 1
  BY <1>1
<1>e. /\ e.of \in Assignment /\ e.flag \in BOOLEAN /\ e = [of |-> e.of, flag |-> e.flag]
      /\ assigned[e.of] = ~e.flag /\ assigned'[e.of] = e.flag
      /\ \A a \in Assignment : a # e.of => assigned'[a] = assigned[a]
  <2>1. e.of \in Assignment /\ e.flag \in BOOLEAN /\ e = [of |-> e.of, flag |-> e.flag]
    BY DEF Job
  <2>2. assigned[e.of] \in BOOLEAN
    BY <2>1 DEF TypeOK
  <2>3. assigned'[e.of] = e.flag /\ \A a \in Assignment : a # e.of => assigned'[a] = assigned[a]
    BY <2>1 DEF TypeOK
  <2> QED
    BY <2>1, <2>2, <2>3
<1> HIDE DEF N
<1>3. ASSUME NEW a \in Assignment
      PROVE  \/ \E n \in 1..Len(outbox') :
                 /\ outbox'[n] = [of |-> a, flag |-> assigned'[a]]
                 /\ \A m \in 1..Len(outbox') : outbox'[m].of = a => m <= n
             \/ /\ assigned'[a] = (a \in Initial)
                /\ \A n \in 1..Len(outbox') : outbox'[n].of # a
  <2>1. CASE a = e.of
    <3>1. outbox'[N + 1] = [of |-> a, flag |-> assigned'[a]]
      BY <1>1, <1>e, <2>1
    <3>2. \A m \in 1..Len(outbox') : m <= N + 1
      BY <1>1
    <3> QED
      BY <1>2, <3>1, <3>2
  <2>2. CASE a # e.of
    <3>1. CASE \E n \in 1..N : /\ outbox[n] = [of |-> a, flag |-> assigned[a]]
                               /\ \A m \in 1..N : outbox[m].of = a => m <= n
      <4>1. PICK n \in 1..N : /\ outbox[n] = [of |-> a, flag |-> assigned[a]]
                              /\ \A m \in 1..N : outbox[m].of = a => m <= n
        BY <3>1
      <4>2. outbox'[n] = [of |-> a, flag |-> assigned'[a]]
        BY <1>1, <1>e, <2>2, <4>1
      <4>3. \A m \in 1..Len(outbox') : outbox'[m].of = a => m <= n
        BY <1>1, <1>2, <2>2, <4>1
      <4> QED
        BY <1>2, <4>2, <4>3
    <3>2. CASE assigned[a] = (a \in Initial) /\ \A n \in 1..N : outbox[n].of # a
      BY <1>1, <1>2, <1>e, <2>2, <3>2
    <3> QED
      BY <3>1, <3>2 DEF EventsTellTable, N
  <2> QED
    BY <2>1, <2>2
<1>4. ASSUME NEW n \in 1..Len(outbox'), NEW m \in 1..Len(outbox'), n < m, outbox'[n] = outbox'[m]
      PROVE  \E l \in 1..Len(outbox') :
               /\ n < l /\ l < m
               /\ outbox'[l] = [of |-> outbox'[n].of, flag |-> ~outbox'[n].flag]
  <2>1. n \in 1..N
    BY <1>1, <1>4
  <2>2. CASE m \in 1..N
    <3>1. PICK l \in 1..N : /\ n < l /\ l < m
                            /\ outbox[l] = [of |-> outbox[n].of, flag |-> ~outbox[n].flag]
      BY <1>1, <1>4, <2>1, <2>2 DEF EventsTellTable, N
    <3> QED
      BY <1>1, <1>2, <2>1, <3>1
  <2>3. CASE m = N + 1
    <3>1. outbox[n] = e /\ outbox'[n] = e
      BY <1>1, <1>4, <2>1, <2>3
    <3>2. PICK l \in 1..N : /\ outbox[l] = [of |-> e.of, flag |-> assigned[e.of]]
                            /\ \A i \in 1..N : outbox[i].of = e.of => i <= l
      BY <1>e, <2>1, <3>1 DEF EventsTellTable, N
    <3>3. n <= l
      BY <2>1, <3>1, <3>2
    <3>4. n # l
      <4>1. outbox[l].flag = ~e.flag
        BY <1>e, <3>2
      <4> QED
        BY <1>e, <3>1, <4>1
    <3>5. n < l /\ l < m
      BY <1>1, <2>1, <2>3, <3>3, <3>4
    <3>6. outbox'[l] = [of |-> e.of, flag |-> ~e.flag]
      BY <1>1, <1>e, <3>2
    <3> QED
      BY <1>2, <3>1, <3>5, <3>6
  <2> QED
    BY <1>2, <2>2, <2>3
<1> QED
  BY <1>3, <1>4 DEF EventsTellTable

LEMMA NumberStep ==
  ASSUME TypeOK, WorkInv, NumberInv, [Next]_vars
  PROVE  NumberInv' /\ \A i \in Idempotency : commands[i] # None => commands'[i] = commands[i]
<1>1. ASSUME NEW c \in Call, pc[c] = "tx", Accepted(c), Store(c)
      PROVE  NumberInv' /\ \A i \in Idempotency : commands[i] # None => commands'[i] = commands[i]
  <2> DEFINE a == job[c].of
             flag == job[c].flag
             changed == assigned[a] # flag
             next == IF changed THEN revision + 1 ELSE revision
             command == [of |-> a, flag |-> flag, changed |-> changed, version |-> next]
             i == key[c]
  <2>1. job[c] \in Job /\ i \in Idempotency /\ commands[i] = None
    BY <1>1 DEF WorkInv, Accepted
  <2>2. revision \in Nat /\ next \in Nat /\ command \in Command /\ command # None
    <3>1. changed \in BOOLEAN /\ revision \in Nat
      BY DEF TypeOK
    <3>2. next \in Nat
      BY <3>1
    <3> HIDE DEF changed, next
    <3>3. command \in Command
      BY <2>1, <3>1, <3>2 DEF Command, Job
    <3> QED
      BY <3>1, <3>2, <3>3
  <2>3. /\ revision' = next
        /\ commands' = [commands EXCEPT ![i] = command]
        /\ outbox' = IF changed THEN Append(outbox, job[c]) ELSE outbox
    BY <1>1 DEF Store
  <2>0. command.of = a /\ command.flag = flag /\ (command.changed <=> changed) /\ command.version = next
    OBVIOUS
  <2> HIDE DEF command
  <2>4. /\ commands'[i] = command
        /\ \A j \in Idempotency \ {i} : commands'[j] = commands[j]
    BY <2>1, <2>3 DEF TypeOK
  <2>5. \A j \in Idempotency : commands'[j] # None => commands'[j].version <= revision'
    <3>1. \A j \in Idempotency : commands[j] # None => commands[j].version \in Nat
      BY DEF TypeOK, Command
    <3> QED
      BY <2>0, <2>2, <2>3, <2>4, <3>1 DEF NumberInv
  <2>6. Len(outbox') = revision' /\ \A n \in 1..revision : outbox'[n] = outbox[n]
    BY <2>1, <2>2, <2>3 DEF NumberInv, Numbered, TypeOK
  <2>7. ASSUME NEW n \in 1..revision
        PROVE  \E k \in Idempotency :
                 /\ commands'[k] # None /\ commands'[k].changed /\ commands'[k].version = n
                 /\ outbox'[n] = [of |-> commands'[k].of, flag |-> commands'[k].flag]
                 /\ \A j \in Idempotency \ {k} :
                      commands'[j] # None /\ commands'[j].changed => commands'[j].version # n
    <3>1. PICK k \in Idempotency :
            /\ commands[k] # None /\ commands[k].changed /\ commands[k].version = n
            /\ outbox[n] = [of |-> commands[k].of, flag |-> commands[k].flag]
            /\ \A j \in Idempotency \ {k} :
                 commands[j] # None /\ commands[j].changed => commands[j].version # n
      BY <2>7 DEF NumberInv, Numbered
    <3>2. commands'[i].changed => commands'[i].version # n
      BY <2>0, <2>2, <2>4, <2>7
    <3> QED
      BY <2>1, <2>4, <2>6, <3>1, <3>2
  <2>8. ASSUME changed
        PROVE  /\ commands'[i] # None /\ commands'[i].changed /\ commands'[i].version = revision + 1
               /\ outbox'[revision + 1] = [of |-> commands'[i].of, flag |-> commands'[i].flag]
               /\ \A j \in Idempotency \ {i} :
                    commands'[j] # None /\ commands'[j].changed => commands'[j].version # revision + 1
    <3>1. outbox'[revision + 1] = job[c] /\ job[c] = [of |-> a, flag |-> flag]
      BY <2>1, <2>2, <2>3, <2>8 DEF NumberInv, Numbered, TypeOK, Job
    <3>2. \A j \in Idempotency \ {i} : commands'[j] # None => commands'[j].version # revision + 1
      BY <2>2, <2>4 DEF NumberInv, TypeOK, Command
    <3> QED
      BY <2>0, <2>2, <2>4, <2>8, <3>1, <3>2
  <2>9. Numbered'
    <3>1. CASE changed
      <4>1. 1..revision' = (1..revision) \union {revision + 1}
        BY <2>2, <2>3, <3>1
      <4>2. revision + 1 \in 1..revision' /\ revision' = revision + 1
        BY <2>2, <2>3, <3>1
      <4> HIDE DEF changed, next, i, a, flag
      <4>3. \A n \in 1..revision' : \E k \in Idempotency :
                 /\ commands'[k] # None /\ commands'[k].changed /\ commands'[k].version = n
                 /\ outbox'[n] = [of |-> commands'[k].of, flag |-> commands'[k].flag]
                 /\ \A j \in Idempotency \ {k} :
                      commands'[j] # None /\ commands'[j].changed => commands'[j].version # n
        BY <2>1, <2>7, <2>8, <3>1, <4>1, <4>2
      <4> QED
        BY <2>6, <4>3 DEF Numbered
    <3>2. CASE ~changed
      BY <2>3, <2>6, <2>7, <3>2 DEF Numbered
    <3> QED
      BY <3>1, <3>2
  <2>10. EventsTellTable'
    <3>1. assigned' = [assigned EXCEPT ![a] = flag]
      BY <1>1 DEF Store
    <3>2. CASE changed
      BY <2>1, <2>3, <3>1, <3>2, EventsAppend DEF NumberInv
    <3>3. CASE ~changed
      <4>1. assigned' = assigned /\ outbox' = outbox
        BY <2>1, <2>3, <3>1, <3>3 DEF TypeOK, Job
      <4> QED
        BY <4>1 DEF NumberInv, EventsTellTable
    <3> QED
      BY <3>2, <3>3
  <2> QED
    BY <2>1, <2>4, <2>5, <2>9, <2>10 DEF NumberInv
<1>2. CASE UNCHANGED <<revision, assigned, commands, outbox>>
  BY <1>2 DEF NumberInv, Numbered, EventsTellTable
<1> QED
  BY <1>1, <1>2, OtherSteps DEF MarkRow, table

-----------------------------------------------------------------------------
(* The theorems                                                            *)

LEMMA InvInit == Init => Inv
<1> SUFFICES ASSUME Init PROVE Inv
  OBVIOUS
<1>1. TypeOK
  <2>1. Initial \subseteq Assignment /\ 0 \in 0..MaxFaults /\ 0 \in 0..MaxCrashes
    BY RoleAssumption
  <2>2. revision \in Nat /\ outbox \in Seq(Job) /\ faults \in 0..MaxFaults /\ crashes \in 0..MaxCrashes
    BY <2>1 DEF Init
  <2>3. /\ assigned \in [Assignment -> BOOLEAN] /\ sync \in [Assignment -> SyncStatus]
        /\ \A a \in Assignment : assigned[a] => sync[a] # "none"
        /\ tuples \in SUBSET Assignment
    <3>1. assigned \in [Assignment -> BOOLEAN]
      BY DEF Init
    <3>2. sync \in [Assignment -> SyncStatus]
      BY DEF Init, SyncStatus
    <3>3. \A a \in Assignment : assigned[a] => sync[a] # "none"
      BY DEF Init
    <3> QED
      BY <2>1, <3>1, <3>2, <3>3 DEF Init
  <2>4. /\ commands \in [Idempotency -> Command \union {None}]
        /\ pc \in [Call \union Pass -> Place] /\ job \in [Call \union Pass -> Job \union {None}]
        /\ key \in [Call -> Idempotency \union {None}] /\ match \in [Call -> Nat]
        /\ todo \in [Pass -> SUBSET Job]
        /\ behind \in SUBSET ((Call \union Pass) \X Assignment) /\ stale \in SUBSET Assignment
    BY DEF Init, Place
  <2> QED
    BY <2>2, <2>3, <2>4 DEF TypeOK
<1>2. WorkInv /\ RowInv
  BY DEF Init, WorkInv, RowInv, Syncing, Worker
<1>3. OwnerInv
  <2>1. Init => {o \in tuples : assigned[o]} = tuples
    BY DEF Init
  <2> QED
    BY <2>1 DEF OwnerInv
<1>4. SyncInv
  BY DEF Init, SyncInv, KnowsFlag, HasWritten, SyncedIsTrue, Worker
<1>5. NumberInv
  BY DEF Init, NumberInv, Numbered, EventsTellTable
<1> QED
  BY <1>1, <1>2, <1>3, <1>4, <1>5 DEF Inv

LEMMA InvStep == Inv /\ [Next]_vars => Inv'
  BY TypeStep, RowStep, OwnerStep, SyncStep, NumberStep DEF Inv, SyncInv

LEMMA InvAlways == Spec => []Inv
  BY InvInit, InvStep, PTL DEF Spec

(* Rows, commands, tuples and work in hand stay in their types; only rows  *)
(* are assigned.                                                           *)
THEOREM TypeCorrect == Spec => []TypeOK
<1>1. Inv => TypeOK
  BY DEF Inv
<1> QED
  BY <1>1, InvAlways, PTL

(* The last-owner check reads synced rows, and that is enough for OpenFGA: *)
(* however many revocations race their own late writes, lost answers and   *)
(* crashes, no step deletes the last human owner's tuple unless somebody   *)
(* behind has written or marked an owner assignment.                       *)
THEOREM OwnerCorrect == Spec => LastOwnerStays
<1>1. Inv /\ [Next]_vars =>
        [Owner \intersect stale' = {} /\ OwnersBy(tuples) # {} => OwnersBy(tuples') # {}]_vars
  BY OwnerStep DEF Inv, SyncInv
<1> QED
  BY <1>1, InvAlways, PTL DEF Spec, LastOwnerStays

(* A synced row is false only after somebody who was behind wrote the      *)
(* tuple or marked the row: lost answers, refused writes, crashes and      *)
(* overlapping passes alone never make it so.                              *)
THEOREM SyncedCorrect == Spec => []SyncedIsTrue
<1>1. Inv => SyncedIsTrue
  BY DEF Inv, SyncInv
<1> QED
  BY <1>1, InvAlways, PTL

(* The tenant loses its last owner in OpenFGA, while the table counts on   *)
(* one, only after a synchronization that was behind has written or marked *)
(* an owner: no failure, retry or crash does it alone.                     *)
THEOREM OwnerKept == Spec => [](Owner \intersect stale = {} => TenantKeepsOwner)
<1>1. Inv => (Owner \intersect stale = {} => TenantKeepsOwner)
  BY DEF Inv, SyncInv, SyncedIsTrue, TenantKeepsOwner
<1> QED
  BY <1>1, InvAlways, PTL

(* Every revision is the work of one recorded command, its event stands at *)
(* its place, the events tell the table, and the record is final.          *)
THEOREM RevisionCorrect == Spec => OneCommandPerRevision
<1>1. Inv /\ [Next]_vars =>
        [/\ Numbered' /\ EventsTellTable'
         /\ \A i \in Idempotency : commands[i] # None => commands'[i] = commands[i]]_vars
  BY NumberStep DEF Inv, NumberInv
<1> QED
  BY <1>1, InvAlways, PTL DEF Spec, OneCommandPerRevision
=============================================================================
