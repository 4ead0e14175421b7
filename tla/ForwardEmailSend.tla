--------------------------- MODULE ForwardEmailSend ---------------------------
(***************************************************************************)
(* ForwardEmailProvider.send                                               *)
(* (packages/email/src/providers/forward-email.provider.ts): attempts with *)
(* backoff against a provider that may accept a mail and lose the answer,  *)
(* a timer that aborts an attempt, and a caller that may cancel at any     *)
(* time.  The shape of the message is left out.                            *)
(***************************************************************************)
EXTENDS Naturals, FiniteSets

CONSTANT MaxRetries      \* the option maxRetries

ASSUME MaxRetriesAssumption == MaxRetries \in Nat

VARIABLES
    at,            \* "idle", "try", "await", "backoff", "accepted" or an error's kind
    attempt,       \* failed attempts so far
    aborted,       \* the caller's signal
    lastError,     \* kind and retryability of the last failed attempt
    flight,        \* what became of the request of this attempt at the provider
    copies,        \* history: mails the provider accepted
    unheard,       \* history: acceptances whose answer did not arrive as one
    late           \* history: attempts begun after the caller cancelled

sendVars == <<at, attempt, aborted, lastError, flight, copies, unheard, late>>

Kind == {"configuration", "validation", "rate_limit", "transient", "permanent", "cancelled"}
NoError == [kind |-> "transient", retryable |-> FALSE]
Ended == {"accepted", "rejected"} \union Kind

SendTypeOK ==
    /\ at \in {"idle", "try", "await", "backoff"} \union Ended
    /\ attempt \in 0..MaxRetries + 1
    /\ aborted \in BOOLEAN
    /\ lastError \in [kind : Kind, retryable : BOOLEAN]
    /\ flight \in {"none", "sent", "taken"}
    /\ {copies, unheard, late} \subseteq 0..MaxRetries + 1

SendInit ==
    /\ at = "idle" /\ attempt = 0 /\ aborted = FALSE /\ lastError = NoError
    /\ flight = "none" /\ copies = 0 /\ unheard = 0 /\ late = 0

\* Without a token, or with an unsafe header, nothing is attempted.
send ==
    /\ at = "idle"
    /\ at' \in {"try", "configuration", "validation"}
    /\ UNCHANGED <<attempt, aborted, lastError, flight, copies, unheard, late>>

\* The top of the loop: a signal that is already set ends it, else the request goes out.
Attempt ==
    /\ at = "try"
    /\ IF aborted THEN at' = "cancelled" /\ UNCHANGED flight ELSE at' = "await" /\ flight' = "sent"
    /\ late' = IF aborted /\ at' = "await" THEN late + 1 ELSE late
    /\ UNCHANGED <<attempt, aborted, lastError, copies, unheard>>

\* The provider takes the mail before anything of its answer is known here.
ProviderAccepts ==
    /\ flight = "sent"
    /\ flight' = "taken" /\ copies' = copies + 1 /\ unheard' = unheard + 1
    /\ UNCHANGED <<at, attempt, aborted, lastError, late>>

Accepted ==
    /\ at = "await" /\ flight = "taken"
    /\ at' = "accepted" /\ flight' = "none" /\ unheard' = unheard - 1
    /\ UNCHANGED <<attempt, aborted, lastError, copies, late>>

classifyHttpStatus(status) ==
    CASE status = 429 -> [kind |-> "rate_limit", retryable |-> TRUE]
      [] status \in {408, 409, 500} -> [kind |-> "transient", retryable |-> TRUE]
      [] OTHER -> [kind |-> "permanent", retryable |-> FALSE]

\* An attempt failed: the error ends the send, or the next attempt waits.
Failed_Greedy(error) ==      \* Faulty variant: retries whatever the error says.
    /\ lastError' = error /\ flight' = "none"
    /\ IF attempt >= MaxRetries
       THEN at' = error.kind /\ UNCHANGED attempt
       ELSE at' = "backoff" /\ attempt' = attempt + 1
Failed(error) ==
    /\ lastError' = error /\ flight' = "none"
    /\ IF ~error.retryable \/ attempt >= MaxRetries
       THEN at' = error.kind /\ UNCHANGED attempt
       ELSE at' = "backoff" /\ attempt' = attempt + 1

\* A gateway may answer an error for a mail that was taken.
ErrorStatus ==
    /\ at = "await"
    /\ \E status \in {400, 408, 429, 500} :
         /\ status = 400 => flight = "sent"
         /\ Failed(classifyHttpStatus(status))
    /\ UNCHANGED <<aborted, copies, unheard, late>>
TransportFailure ==
    /\ at = "await" /\ ~aborted
    /\ Failed([kind |-> "transient", retryable |-> TRUE])
    /\ UNCHANGED <<aborted, copies, unheard, late>>
\* The timer or the caller aborts the request: never retried, although the error of a
\* timeout says that it may be.
Abort ==
    /\ at = "await"
    /\ at' = IF aborted THEN "cancelled" ELSE "transient"
    /\ flight' = "none"
    /\ UNCHANGED <<attempt, aborted, lastError, copies, unheard, late>>

\* sleep: over, or rejected by the signal, whose reason then reaches the caller as it is.
Backoff ==
    /\ at = "backoff"
    /\ at' = IF aborted THEN "rejected" ELSE "try"
    /\ UNCHANGED <<attempt, aborted, lastError, flight, copies, unheard, late>>

Cancel ==
    /\ ~aborted /\ at \notin Ended
    /\ aborted' = TRUE
    /\ UNCHANGED <<at, attempt, lastError, flight, copies, unheard, late>>

SendNext ==
    \/ send \/ Attempt \/ ProviderAccepts \/ Accepted \/ ErrorStatus
    \/ TransportFailure \/ Abort \/ Backoff \/ Cancel

SendSpec == SendInit /\ [][SendNext]_sendVars

----------------------------------------------------------------------------
(* Properties *)

\* A caller that is told "accepted" has one mail out there and one more for every answer
\* that was lost on the way, never more than the retries allow; an attempt never begins
\* after the caller cancelled, and an error that is final was the last attempt's.
CopiesArePaidFor ==
    /\ at = "accepted" => copies = unheard + 1
    /\ copies <= attempt + 1 /\ attempt <= MaxRetries
    /\ late = 0
    /\ lastError.kind = "permanent" => at = "permanent"
=============================================================================
