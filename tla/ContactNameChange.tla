-------------------------- MODULE ContactNameChange --------------------------
(***************************************************************************)
(* Renaming a contact and dispatching its events                           *)
(* (pillars/contact/src/contact-name-change.ts) over the in-memory store:  *)
(* a transaction works on a copy of all contacts and its commit puts that  *)
(* copy back whole.  Calls and dispatches interleave at their awaits, and  *)
(* a publication may fail.                                                 *)
(***************************************************************************)
EXTENDS Naturals, Sequences

CONSTANTS
    Change,           \* calls of changeName
    Dispatch,         \* calls of dispatchPending
    Contact,
    Unknown,          \* an id no contact has
    MaxFailures       \* bound on failed publications

ASSUME ContactAssumption == MaxFailures \in Nat

VARIABLES
    contacts,         \* name of every contact: the call that gave it, or "first"
    outbox,           \* entries in order
    change,           \* every call: where it is, and its copy of the contacts
    dispatch,         \* every dispatch: the entries it has left, taken in order, and where it is
    published,        \* history: entries in the order the publisher took them
    failures

renameVars == <<contacts, outbox, change, dispatch, published, failures>>

Names == Change \union {"first"}
OutboxEntry == [contact : Contact, oldName : Names, name : Change, processed : BOOLEAN]
Changing == [at : {"idle", "missing", "done", "failed"}]
            \union [at : {"open"}, contact : Contact, copy : [Contact -> Names]]
Dispatching == [at : {"idle", "publish", "mark", "done", "failed"}, left : SUBSET Nat]

RenameTypeOK ==
    /\ contacts \in [Contact -> Names] /\ outbox \in Seq(OutboxEntry)
    /\ change \in [Change -> Changing] /\ dispatch \in [Dispatch -> Dispatching]
    /\ \A d \in Dispatch : dispatch[d].left \subseteq DOMAIN outbox
    /\ published \in Seq(DOMAIN outbox)
    /\ failures \in 0..MaxFailures

RenameInit ==
    /\ contacts = [k \in Contact |-> "first"] /\ outbox = <<>>
    /\ change = [c \in Change |-> [at |-> "idle"]]
    /\ dispatch = [d \in Dispatch |-> [at |-> "idle", left |-> {}]]
    /\ published = <<>> /\ failures = 0

\* transaction: the copy is taken, and the operation starts on it.
changeName(c) ==
    /\ change[c].at = "idle"
    /\ \E k \in Contact \union {Unknown} : change' = [change EXCEPT ![c] =
         IF k = Unknown THEN [at |-> "missing"] ELSE [at |-> "open", contact |-> k, copy |-> contacts]]
    /\ UNCHANGED <<contacts, outbox, dispatch, published, failures>>

\* The operation has run on the copy: contacts, audit and outbox take it at once, or the
\* transaction fails and nothing does.
CommitChange(c) ==
    /\ change[c].at = "open"
    /\ LET k == change[c].contact IN
       /\ contacts' = [change[c].copy EXCEPT ![k] = c]
       /\ outbox' = Append(outbox, [contact |-> k, oldName |-> change[c].copy[k], name |-> c, processed |-> FALSE])
    /\ change' = [change EXCEPT ![c] = [at |-> "done"]]
    /\ UNCHANGED <<dispatch, published, failures>>
FailChange(c) ==
    /\ change[c].at = "open"
    /\ change' = [change EXCEPT ![c] = [at |-> "failed"]]
    /\ UNCHANGED <<contacts, outbox, dispatch, published, failures>>

NextEntry(d) == CHOOSE n \in dispatch[d].left : \A m \in dispatch[d].left : n <= m
Onward(d) == LET left == dispatch[d].left \ {NextEntry(d)} IN
             [at |-> IF left = {} THEN "done" ELSE "publish", left |-> left]

\* The pending entries are listed once; what commits later waits for the next dispatch.
dispatchPending(d) ==
    /\ dispatch[d].at \in {"idle", "done", "failed"}
    /\ LET pending == {n \in DOMAIN outbox : ~outbox[n].processed} IN
       pending # {} /\ dispatch' = [dispatch EXCEPT ![d] = [at |-> "publish", left |-> pending]]
    /\ UNCHANGED <<contacts, outbox, change, published, failures>>

Publish(d) ==
    /\ dispatch[d].at = "publish"
    /\ published' = Append(published, NextEntry(d))
    /\ dispatch' = [dispatch EXCEPT ![d].at = "mark"]
    /\ UNCHANGED <<contacts, outbox, change, failures>>

\* A refused entry ends the dispatch, and the entries behind it wait.
PublishFails_Skips(d) ==      \* Faulty variant: goes on with the next entry.
    /\ dispatch[d].at = "publish" /\ failures < MaxFailures
    /\ failures' = failures + 1 /\ dispatch' = [dispatch EXCEPT ![d] = Onward(d)]
    /\ UNCHANGED <<contacts, outbox, change, published>>
PublishFails(d) ==
    /\ dispatch[d].at = "publish" /\ failures < MaxFailures
    /\ failures' = failures + 1 /\ dispatch' = [dispatch EXCEPT ![d] = [at |-> "failed", left |-> {}]]
    /\ UNCHANGED <<contacts, outbox, change, published>>

markProcessed(d) ==
    /\ dispatch[d].at = "mark"
    /\ outbox' = [outbox EXCEPT ![NextEntry(d)].processed = TRUE]
    /\ dispatch' = [dispatch EXCEPT ![d] = Onward(d)]
    /\ UNCHANGED <<contacts, change, published, failures>>

RenameNext ==
    \/ \E c \in Change : changeName(c) \/ CommitChange(c) \/ FailChange(c)
    \/ \E d \in Dispatch : dispatchPending(d) \/ Publish(d) \/ PublishFails(d) \/ markProcessed(d)

RenameSpec == RenameInit /\ [][RenameNext]_renameVars

----------------------------------------------------------------------------
(* Properties *)

\* Whatever dispatches overlap and fail, an entry is first published after every entry
\* committed before it, and a processed entry was published.
PublishedInOrder ==
    /\ \A i \in DOMAIN published : \A n \in 1..published[i] - 1 :
         \E j \in 1..i - 1 : published[j] = n
    /\ \A n \in DOMAIN outbox : outbox[n].processed => \E i \in DOMAIN published : published[i] = n
=============================================================================
