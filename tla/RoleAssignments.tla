-------------------------- MODULE RoleAssignments --------------------------
(***************************************************************************)
(* Role commands of one tenant: RoleAssignmentCommandService               *)
(* (pillars/permissions/src/role-assignment-command.service.ts) behind     *)
(* RoleAssignmentService (apps/api/src/access-administration).  A command  *)
(* is recorded under its Idempotency-Key, with the new table row and an    *)
(* outbox event, in one serializable transaction guarded by If-Match.  The *)
(* OpenFGA tuple follows outside the transaction: by the call itself, by a *)
(* replay of the same key, and by reconciliation passes that every replica *)
(* starts each minute.  All of them interleave, fail and die.              *)
(***************************************************************************)
EXTENDS Naturals, Sequences, OpenFgaStore

CONSTANTS
    Call,         \* role commands in flight
    Pass,         \* reconciliation passes in flight
    Assignment,   \* a principal and a role
    Owner,        \* assignments of the owner role
    Human, Humans,\* people, and those each owner assignment makes owners
    MemberOwners, \* people a TenantMembership makes owners
    Inherited,    \* assignments whose principal also holds the role otherwise
    Initial,      \* assignments made and synced before
    Idempotency,  \* Idempotency-Keys clients use
    None,
    MaxFaults,    \* bound on OpenFGA requests without an answer
    MaxCrashes    \* bound on calls and passes that end midway

Command == [of : Assignment, flag : BOOLEAN, changed : BOOLEAN, version : Nat]

ASSUME RoleAssumption ==
    /\ Owner \subseteq Assignment /\ Inherited \subseteq Assignment /\ Initial \subseteq Assignment
    /\ Humans \in [Owner -> SUBSET Human] /\ MemberOwners \subseteq Human
    /\ Call \intersect Pass = {}
    /\ None \notin Assignment \union Idempotency /\ None \notin Command
    /\ MaxFaults \in Nat /\ MaxCrashes \in Nat

VARIABLES
    revision,     \* PermissionsRoleRevision, counted from the start
    assigned,     \* the row's assigned flag
    sync,         \* its syncStatus, "none" without a row
    commands,     \* PermissionsRoleCommand by Idempotency-Key
    outbox,       \* events, oldest first
    tuples,       \* assignments whose tuple is in OpenFGA
    pc,           \* next step of every call and pass
    job,          \* the assignment and flag it is about
    key, match,   \* of each call: Idempotency-Key, revision of If-Match
    todo,         \* of each pass: rows listed and not yet done
    faults, crashes,
    behind,       \* history: who read a row, or its flag in a command, that changed since
    stale         \* history: assignments written or marked by one that was behind

table == <<revision, assigned, sync, commands, outbox>>
work == <<pc, job, key, match, todo>>
vars == <<table, tuples, work, faults, crashes, behind, stale>>

Job == [of : Assignment, flag : BOOLEAN]
Place == {"idle", "replay", "tx", "read", "next", "write", "recheck", "ok", "failed"}
SyncStatus == {"none", "pending", "failed", "synced"}

TypeOK ==
    /\ revision \in Nat
    /\ assigned \in [Assignment -> BOOLEAN]
    /\ sync \in [Assignment -> SyncStatus]
    /\ \A a \in Assignment : assigned[a] => sync[a] # "none"
    /\ commands \in [Idempotency -> Command \union {None}]
    /\ outbox \in Seq(Job)
    /\ tuples \in SUBSET Assignment
    /\ pc \in [Call \union Pass -> Place]
    /\ job \in [Call \union Pass -> Job \union {None}]
    /\ key \in [Call -> Idempotency \union {None}]
    /\ match \in [Call -> Nat]
    /\ todo \in [Pass -> SUBSET Job]
    /\ faults \in 0..MaxFaults
    /\ crashes \in 0..MaxCrashes
    /\ behind \in SUBSET ((Call \union Pass) \X Assignment)
    /\ stale \in SUBSET Assignment

Init ==
    /\ revision = 0
    /\ assigned = [a \in Assignment |-> a \in Initial]
    /\ sync = [a \in Assignment |-> IF a \in Initial THEN "synced" ELSE "none"]
    /\ commands = [i \in Idempotency |-> None]
    /\ outbox = <<>>
    /\ tuples = Initial
    /\ pc = [w \in Call \union Pass |-> "idle"]
    /\ job = [w \in Call \union Pass |-> None]
    /\ key = [c \in Call |-> None]
    /\ match = [c \in Call |-> 0]
    /\ todo = [p \in Pass |-> {}]
    /\ faults = 0
    /\ crashes = 0
    /\ behind = {}
    /\ stale = {}

-----------------------------------------------------------------------------
Goto(w, place) ==
    /\ pc' = [pc EXCEPT ![w] = place]
    /\ UNCHANGED <<job, key, match, todo>>

(* A call answers; a pass goes on to its next row. *)
Done(w) ==
    /\ pc' = [pc EXCEPT ![w] = IF w \in Pass THEN "next" ELSE "idle"]
    /\ job' = [job EXCEPT ![w] = None]
    /\ key' = IF w \in Call THEN [key EXCEPT ![w] = None] ELSE key
    /\ match' = IF w \in Call THEN [match EXCEPT ![w] = 0] ELSE match
    /\ UNCHANGED todo

Still == UNCHANGED <<faults, crashes, behind, stale>>
Fault == faults < MaxFaults /\ faults' = faults + 1 /\ UNCHANGED crashes

-----------------------------------------------------------------------------
(* PUT and DELETE role assignments                                         *)

(* The client sends the version it has read, and a key of its choice,      *)
(* possibly used before.  A version that is old by now could only lead to  *)
(* the refusal that every transaction allows for.                          *)
StartCommand(c, i, a, flag) ==
    /\ pc[c] = "idle"
    /\ pc' = [pc EXCEPT ![c] = "replay"]
    /\ job' = [job EXCEPT ![c] = [of |-> a, flag |-> flag]]
    /\ key' = [key EXCEPT ![c] = i]
    /\ match' = [match EXCEPT ![c] = revision]
    /\ UNCHANGED <<table, tuples, todo>> /\ Still

SameCommand(c, command) == [of |-> command.of, flag |-> command.flag] = job[c]

(* What a recorded command leads to: 409 for another command under its     *)
(* key, else the recorded answer, after a synchronization if it changed    *)
(* anything.                                                               *)
Replay(c, command) ==
    IF SameCommand(c, command) /\ command.changed THEN Goto(c, "read") ELSE Done(c)

(* replayIfPresent; then the caller's own rights, which may end the call.  *)
LookUp(c) ==
    LET found == commands[key[c]] IN
    /\ pc[c] = "replay"
    /\ \/ found # None /\ Replay(c, found)
       \/ found = None /\ (Goto(c, "tx") \/ Done(c))
    /\ UNCHANGED <<table, tuples>> /\ Still

(* The people who own the tenant by membership or by one of these          *)
(* assignments: the user itself, or the synced members of the group.       *)
OwnersBy(held) == MemberOwners \union UNION {Humans[o] : o \in Owner \intersect held}

(* Faulty variant: an owner counts before its tuple is written. *)
OwnersBesides_AnyStatus(a) == OwnersBy({o \in Owner \ {a} : assigned[o]})

(* The owners left when the command's assignment no longer counts. *)
OwnersBesides(a) == OwnersBy({o \in Owner \ {a} : assigned[o] /\ sync[o] = "synced"})

KeepsOwner(c) ==
    job[c].of \in Owner /\ ~job[c].flag => OwnersBesides(job[c].of) # {}

Accepted(c) == commands[key[c]] = None /\ match[c] = revision /\ KeepsOwner(c)

(* Faulty variant: an existing row keeps its status. *)
Store_KeepsStatus(c) ==
    LET a == job[c].of
        flag == job[c].flag
        changed == assigned[a] # flag
        next == IF changed THEN revision + 1 ELSE revision IN
    /\ revision' = next
    /\ assigned' = [assigned EXCEPT ![a] = flag]
    /\ UNCHANGED sync
    /\ commands' = [commands EXCEPT ![key[c]] =
                      [of |-> a, flag |-> flag, changed |-> changed, version |-> next]]
    /\ outbox' = IF changed THEN Append(outbox, job[c]) ELSE outbox
    /\ IF changed THEN Goto(c, "read") ELSE Done(c)

Store(c) ==
    LET a == job[c].of
        flag == job[c].flag
        changed == assigned[a] # flag
        next == IF changed THEN revision + 1 ELSE revision IN
    /\ revision' = next
    /\ assigned' = [assigned EXCEPT ![a] = flag]
    /\ sync' = [sync EXCEPT ![a] = IF changed \/ @ = "none" THEN "pending" ELSE @]
    /\ commands' = [commands EXCEPT ![key[c]] =
                      [of |-> a, flag |-> flag, changed |-> changed, version |-> next]]
    /\ outbox' = IF changed THEN Append(outbox, job[c]) ELSE outbox
    /\ IF changed THEN Goto(c, "read") ELSE Done(c)

(* History: whoever has read the row and works on it is behind once it     *)
(* changes.                                                                *)
InHand(w, a) == \/ pc[w] \in {"write", "recheck", "ok"} /\ job[w].of = a
                \/ w \in Pass /\ \E j \in todo[w] : j.of = a
Overtake(c) ==
    LET a == job[c].of
        others == (Call \union Pass) \ {c} IN
    behind' = IF assigned' # assigned
              THEN behind \union {<<w, a>> : w \in {v \in others : InHand(v, a)}}
              ELSE behind

(* Faulty variant: the lookup before the transaction is trusted. *)
Transact_NoRecheck(c) ==
    /\ pc[c] = "tx"
    /\ \/ match[c] = revision /\ KeepsOwner(c) /\ Store(c)
       \/ Done(c) /\ UNCHANGED table
    /\ UNCHANGED <<tuples, faults, crashes, stale>> /\ Overtake(c)

(* The serializable transaction.  412 for a stale version or a lasting     *)
(* conflict, 409 when the last owner would go.                             *)
Transact(c) ==
    LET raced == commands[key[c]] IN
    /\ pc[c] = "tx"
    /\ \/ raced # None /\ Replay(c, raced) /\ UNCHANGED table
       \/ Accepted(c) /\ Store(c)
       \/ raced = None /\ Done(c) /\ UNCHANGED table
    /\ UNCHANGED <<tuples, faults, crashes, stale>> /\ Overtake(c)

-----------------------------------------------------------------------------
(* synchronize                                                             *)

ReadRow(c) ==
    /\ pc[c] = "read"
    /\ \/ sync[job[c].of] = "synced" /\ Done(c) /\ UNCHANGED behind
       \/ /\ sync[job[c].of] # "synced" /\ Goto(c, "write")
          /\ behind' = IF job[c].flag = assigned[job[c].of] THEN behind
                       ELSE behind \union {<<c, job[c].of>>}
    /\ UNCHANGED <<table, tuples, faults, crashes, stale>>

(* setTenantRole: write or delete the tuple as the command said, whatever  *)
(* the row says by now.                                                    *)
Writes(w) == IF job[w].flag THEN {job[w].of} ELSE {}
Deletes(w) == IF job[w].flag THEN {} ELSE {job[w].of}

Note(w) ==
    stale' = IF <<w, job[w].of>> \in behind THEN stale \union {job[w].of} ELSE stale

WriteTuple(w) ==
    /\ Accepts(tuples, Writes(w), Deletes(w))
    /\ tuples' = Applied(tuples, Writes(w), Deletes(w))
    /\ Note(w)

SetTenantRole(w) ==
    /\ pc[w] = "write"
    /\ \/ WriteTuple(w) /\ Goto(w, "ok")
       \/ /\ ~Accepts(tuples, Writes(w), Deletes(w))
          /\ Goto(w, "recheck")
          /\ UNCHANGED <<tuples, stale>>
    /\ UNCHANGED <<table, faults, crashes, behind>>

(* Faulty variant: a refused write counts as a failure. *)
Recheck_NotIdempotent(w) ==
    /\ pc[w] = "recheck"
    /\ Goto(w, "failed")
    /\ UNCHANGED <<table, tuples>> /\ Still

(* After a refused write, a check: it also says yes for an inherited role. *)
Recheck(w) ==
    LET a == job[w].of
        holds == a \in tuples \union Inherited IN
    /\ pc[w] = "recheck"
    /\ Goto(w, IF holds = job[w].flag THEN "ok" ELSE "failed")
    /\ UNCHANGED <<table, tuples>> /\ Still

(* The update names the row's id only. *)
MarkRow(w) ==
    /\ pc[w] \in {"ok", "failed"}
    /\ sync' = [sync EXCEPT ![job[w].of] = IF pc[w] = "ok" THEN "synced" ELSE "failed"]
    /\ IF pc[w] = "ok" THEN Note(w) ELSE UNCHANGED stale
    /\ Done(w)
    /\ behind' = behind \ {<<w, job[w].of>>}
    /\ UNCHANGED <<revision, assigned, commands, outbox, tuples, faults, crashes>>

-----------------------------------------------------------------------------
(* reconcilePending, each minute, also while an earlier pass runs.         *)

StartPass(p) ==
    /\ pc[p] = "idle"
    /\ \E a \in Assignment : sync[a] \in {"pending", "failed"}
    /\ pc' = [pc EXCEPT ![p] = "next"]
    /\ todo' = [todo EXCEPT ![p] =
                  {[of |-> a, flag |-> assigned[a]] : a \in {b \in Assignment : sync[b] \in {"pending", "failed"}}}]
    /\ UNCHANGED <<table, tuples, job, key, match>> /\ Still

NextRow(p) ==
    /\ pc[p] = "next"
    /\ \/ \E j \in todo[p] :
            /\ pc' = [pc EXCEPT ![p] = "write"]
            /\ job' = [job EXCEPT ![p] = j]
            /\ todo' = [todo EXCEPT ![p] = @ \ {j}]
       \/ /\ todo[p] = {}
          /\ pc' = [pc EXCEPT ![p] = "idle"]
          /\ UNCHANGED <<job, todo>>
    /\ UNCHANGED <<table, tuples, key, match>> /\ Still

-----------------------------------------------------------------------------
(* Failures                                                                *)

(* OpenFGA cannot be reached, or its answer is lost. *)
SetTenantRoleFails(w) ==
    /\ pc[w] \in {"write", "recheck"}
    /\ Fault /\ Goto(w, "failed")
    /\ \/ UNCHANGED <<tuples, stale>>
       \/ pc[w] = "write" /\ WriteTuple(w)
    /\ UNCHANGED <<table, behind>>

(* The replica dies, or a database statement fails. *)
Crash(w) ==
    /\ pc[w] # "idle"
    /\ crashes < MaxCrashes
    /\ crashes' = crashes + 1
    /\ pc' = [pc EXCEPT ![w] = "idle"]
    /\ job' = [job EXCEPT ![w] = None]
    /\ key' = IF w \in Call THEN [key EXCEPT ![w] = None] ELSE key
    /\ match' = IF w \in Call THEN [match EXCEPT ![w] = 0] ELSE match
    /\ todo' = IF w \in Pass THEN [todo EXCEPT ![w] = {}] ELSE todo
    /\ behind' = behind \ ({w} \X Assignment)
    /\ UNCHANGED <<table, tuples, faults, stale>>

-----------------------------------------------------------------------------
Synchronize(w) == SetTenantRole(w) \/ Recheck(w) \/ MarkRow(w)
CallStep(c) == LookUp(c) \/ Transact(c) \/ ReadRow(c) \/ Synchronize(c)
PassStep(p) == StartPass(p) \/ NextRow(p) \/ Synchronize(p)

Next ==
    \/ \E c \in Call :
         \/ CallStep(c)
         \/ \E i \in Idempotency, a \in Assignment, flag \in BOOLEAN : StartCommand(c, i, a, flag)
    \/ \E p \in Pass : PassStep(p)
    \/ \E w \in Call \union Pass : SetTenantRoleFails(w) \/ Crash(w)

Spec == Init /\ [][Next]_vars

(* Calls that have begun run on; the timer starts pass after pass. *)
FairSpec ==
    /\ Spec
    /\ \A c \in Call : WF_vars(CallStep(c))
    /\ \A p \in Pass : WF_vars(PassStep(p))

-----------------------------------------------------------------------------
(* Properties                                                              *)

(* Each revision is the work of exactly one recorded command, and its      *)
(* event stands at its place in the outbox.  However often a command is    *)
(* sent, raced or retried, its record answers every later use of its key.  *)
Numbered ==
    /\ Len(outbox) = revision
    /\ \A n \in 1..revision : \E i \in Idempotency :
         /\ commands[i] # None /\ commands[i].changed /\ commands[i].version = n
         /\ outbox[n] = [of |-> commands[i].of, flag |-> commands[i].flag]
         /\ \A j \in Idempotency \ {i} :
              commands[j] # None /\ commands[j].changed => commands[j].version # n

(* The outbox alone tells the table: the last event about an assignment    *)
(* has its flag, and events about it tell of changes only, the opposite    *)
(* one standing between two that are equal.                                *)
EventsTellTable ==
    /\ \A a \in Assignment :
         \/ \E n \in 1..Len(outbox) :
              /\ outbox[n] = [of |-> a, flag |-> assigned[a]]
              /\ \A m \in 1..Len(outbox) : outbox[m].of = a => m <= n
         \/ /\ assigned[a] = (a \in Initial)
            /\ \A n \in 1..Len(outbox) : outbox[n].of # a
    /\ \A n, m \in 1..Len(outbox) : n < m /\ outbox[n] = outbox[m] =>
         \E l \in 1..Len(outbox) :
           n < l /\ l < m /\ outbox[l] = [of |-> outbox[n].of, flag |-> ~outbox[n].flag]

OneCommandPerRevision ==
    [][/\ Numbered' /\ EventsTellTable'
       /\ \A i \in Idempotency : commands[i] # None => commands'[i] = commands[i]]_vars

(* The last-owner check reads the table, and the tuples follow it late.    *)
(* Still no step takes from the tenant the last person who owns it, by     *)
(* membership or by a tuple, as long as nobody who was behind has written  *)
(* or marked an owner assignment: a counted owner has its tuple, and keeps *)
(* it until a revocation that counted another.                             *)
LastOwnerStays ==
    [][Owner \intersect stale' = {} /\ OwnersBy(tuples) # {} => OwnersBy(tuples') # {}]_vars

(* A synced row agrees with OpenFGA, unless some synchronization wrote the *)
(* tuple or marked the row after a command had changed the row it read,    *)
(* even if later commands changed it back.                                 *)
SyncedIsTrue ==
    \A a \in Assignment \ stale : sync[a] = "synced" => (a \in tuples <=> assigned[a])

(* A row that is not synced eventually is, if its role is not inherited. *)
EventuallySynced ==
    \A a \in Assignment \ Inherited : sync[a] \in {"pending", "failed"} ~> sync[a] = "synced"

(* What the owner check is for ("A tenant must retain an owner"): without  *)
(* any failure, an owner the table counts on is one for OpenFGA too.       *)
TenantKeepsOwner ==
    (\E o \in Owner : assigned[o] /\ sync[o] = "synced") => Owner \intersect tuples # {}
=============================================================================
