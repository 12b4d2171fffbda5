----------------------------- MODULE ToolStore ------------------------------
(***************************************************************************)
(* The tool tables of backend/infrastructure/sqlite_store.py: one row of   *)
(* tool_requests, at most one row of tool_confirmations and the audit      *)
(* events per request.  Every operation is one transaction (RLock and      *)
(* BEGIN IMMEDIATE), so every operation is one action.  This module lets   *)
(* callers apply the transactions in any order; ToolExecution restricts    *)
(* them to the order in which the service applies them.                    *)
(***************************************************************************)
EXTENDS FiniteSets

CONSTANTS
    Requests,   \* request ids
    HighRisk    \* the requests ToolPolicy rates HIGH: they need a confirmation

ASSUME HighRiskAssumption == HighRisk \subseteq Requests

VARIABLES
    req,        \* tool_requests.state, "absent" before the INSERT
    conf,       \* tool_confirmations.state, "absent" without a row
    err,        \* tool_requests.error_code, "none" for NULL
    audit,      \* event types recorded in tool_audit_events
    due         \* requests whose expires_at is not after the clock

storeVars == <<req, conf, err, audit, due>>

Settled == {"succeeded", "failed", "rejected", "expired", "cancelled"}
Active == {"pending_confirmation", "running"}
RequestState == {"absent"} \cup Active \cup Settled
ConfirmationState == {"absent", "pending", "approved", "rejected", "expired", "cancelled"}
ErrorCode == {"none", "execution_timeout", "execution_failed",
              "request_context_unavailable", "confirmation_client_unavailable"}
AuditEvent == {"requested", "confirmation_required", "approved", "rejected", "expired",
               "execution_started", "succeeded", "failed", "cancelled",
               "confirmation_client_unavailable"}

StoreInit ==
    /\ req = [r \in Requests |-> "absent"]
    /\ conf = [r \in Requests |-> "absent"]
    /\ err = [r \in Requests |-> "none"]
    /\ audit = [r \in Requests |-> {}]
    /\ due = {}

Record(r, events) == audit' = [audit EXCEPT ![r] = @ \cup events]

-----------------------------------------------------------------------------
(* Transactions.  One whose WHERE clause matches nothing changes nothing.  *)

CreateRequest(r) ==
    /\ req[r] = "absent"
    /\ req' = [req EXCEPT ![r] = "running"]
    /\ Record(r, {"requested", "execution_started"})
    /\ UNCHANGED <<conf, err, due>>

CreateConfirmation(r) ==
    /\ req[r] = "absent"
    /\ req' = [req EXCEPT ![r] = "pending_confirmation"]
    /\ conf' = [conf EXCEPT ![r] = "pending"]
    /\ Record(r, {"requested", "confirmation_required"})
    /\ UNCHANGED <<err, due>>

\* What a decision makes of a pending confirmation; late: now >= expires_at.
Verdict(decision, late) ==
    IF late THEN "expired" ELSE IF decision = "reject" THEN "rejected" ELSE "approved"

ClaimDecision(r, decision, late) ==
    IF conf[r] = "pending"
    THEN LET v == Verdict(decision, late)
         IN /\ conf' = [conf EXCEPT ![r] = v]
            /\ req' = [req EXCEPT ![r] = IF v = "approved" THEN "running" ELSE v]
            /\ Record(r, {v})
            /\ UNCHANGED <<err, due>>
    ELSE UNCHANGED storeVars

\* Variant: without the WHERE clause.
TransitionAnyState(r, from, to, error, event) ==
    /\ req' = [req EXCEPT ![r] = to]
    /\ err' = [err EXCEPT ![r] = error]
    /\ Record(r, {event})
    /\ UNCHANGED <<conf, due>>

\* UPDATE ... WHERE state = from; error is written whatever it is, NULL too.
TransitionRequest(r, from, to, error, event) ==
    IF req[r] = from
    THEN /\ req' = [req EXCEPT ![r] = to]
         /\ err' = [err EXCEPT ![r] = error]
         /\ Record(r, {event})
         /\ UNCHANGED <<conf, due>>
    ELSE UNCHANGED storeVars

\* Variant: the confirmation row is left alone.
CancelRequestOnly(r) ==
    IF req[r] \in Active
    THEN req' = [req EXCEPT ![r] = "cancelled"] /\ Record(r, {"cancelled"})
         /\ UNCHANGED <<conf, err, due>>
    ELSE UNCHANGED storeVars

CancelRequest(r) ==
    IF req[r] \in Active
    THEN /\ req' = [req EXCEPT ![r] = "cancelled"]
         /\ conf' = [conf EXCEPT ![r] = IF @ = "pending" THEN "cancelled" ELSE @]
         /\ Record(r, {"cancelled"})
         /\ UNCHANGED <<err, due>>
    ELSE UNCHANGED storeVars

\* The confirmations list_pending_confirmations expires before it answers.
Overdue == {r \in due : conf[r] = "pending"}

ListPendingConfirmations ==
    /\ conf' = [r \in Requests |-> IF r \in Overdue THEN "expired" ELSE conf[r]]
    /\ req' = [r \in Requests |->
                 IF r \in Overdue /\ req[r] = "pending_confirmation" THEN "expired" ELSE req[r]]
    /\ audit' = [r \in Requests |-> audit[r] \cup (IF r \in Overdue THEN {"expired"} ELSE {})]
    /\ UNCHANGED <<err, due>>

\* The clock passes expires_at of a pending confirmation.
PassDeadline(r) ==
    /\ conf[r] = "pending" /\ r \notin due
    /\ due' = due \cup {r}
    /\ UNCHANGED <<req, conf, err, audit>>

-----------------------------------------------------------------------------
\* Variant: the wrong audit event.
StartUnrecorded(r) == TransitionRequest(r, "running", "running", "none", "approved")

StartExecution(r) == TransitionRequest(r, "running", "running", "none", "execution_started")
Succeed(r) == TransitionRequest(r, "running", "succeeded", "none", "succeeded")
Fail(r, error) == TransitionRequest(r, "running", "failed", error, "failed")
MarkUnavailable(r) ==
    TransitionRequest(r, "cancelled", "failed", "confirmation_client_unavailable",
                      "confirmation_client_unavailable")

StoreNext ==
    \/ \E r \in Requests \ HighRisk : CreateRequest(r)
    \/ \E r \in HighRisk : CreateConfirmation(r)
    \/ \E r \in HighRisk, d \in {"approve", "reject"}, late \in BOOLEAN :
           (r \in due => late) /\ ClaimDecision(r, d, late)
    \/ \E r \in Requests : StartExecution(r)
    \/ \E r \in Requests : Succeed(r)
    \/ \E r \in Requests, e \in ErrorCode \ {"none"} : Fail(r, e)
    \/ \E r \in Requests : MarkUnavailable(r)
    \/ \E r \in Requests : CancelRequest(r)
    \/ \E r \in Requests : PassDeadline(r)
    \/ ListPendingConfirmations

StoreSpec == StoreInit /\ [][StoreNext]_storeVars

-----------------------------------------------------------------------------
StoreTypeOK ==
    /\ req \in [Requests -> RequestState]
    /\ conf \in [Requests -> ConfirmationState]
    /\ err \in [Requests -> ErrorCode]
    /\ audit \in [Requests -> SUBSET AuditEvent]
    /\ due \in SUBSET Requests

\* The request row and the confirmation row never contradict each other: a
\* request waits exactly while its confirmation does, a decision or expiry
\* decides both, and only an approved high-risk request can run, succeed or
\* fail other than by losing its client.
RowsAgree ==
    \A r \in Requests :
        /\ (r \in HighRisk /\ req[r] # "absent") <=> conf[r] # "absent"
        /\ req[r] = "pending_confirmation" <=> conf[r] = "pending"
        /\ conf[r] \in {"rejected", "expired"} => req[r] = conf[r]
        /\ req[r] \in {"rejected", "expired"} => conf[r] = req[r]
        /\ conf[r] = "cancelled" => req[r] \in {"cancelled", "failed"}
        /\ conf[r] = "cancelled" /\ req[r] = "failed"
             => err[r] = "confirmation_client_unavailable"
        /\ r \in HighRisk /\ req[r] \in {"running", "succeeded"} => conf[r] = "approved"

\* The audit trail alone tells what was decided: at most one decision is ever
\* recorded for a request, it is the confirmation's, and every settled request
\* has the event of the state it settled in.
AuditTellsOutcome ==
    \A r \in Requests :
        /\ \A d \in {"approved", "rejected", "expired"} : d \in audit[r] <=> conf[r] = d
        /\ req[r] \in {"succeeded", "cancelled"} => req[r] \in audit[r]
        /\ "succeeded" \in audit[r] => req[r] = "succeeded"
        /\ "cancelled" \in audit[r] => req[r] \in {"cancelled", "failed"}
        /\ req[r] = "failed"
             => IF "cancelled" \in audit[r]
                THEN "confirmation_client_unavailable" \in audit[r]
                ELSE "failed" \in audit[r]

\* Request, confirmation and audit trail tell one story, whichever transactions
\* of whichever callers came in between.
TablesAgree == RowsAgree /\ AuditTellsOutcome

\* A settled request stays as it is, except that a cancelled one may be marked
\* failed because its confirmation client was lost; a decision is never revised.
OutcomesStand ==
    [][\A r \in Requests :
         /\ req[r] \in Settled /\ req'[r] # req[r]
              => req[r] = "cancelled" /\ req'[r] = "failed"
         /\ conf[r] \notin {"absent", "pending"} => conf'[r] = conf[r]]_storeVars
=============================================================================
