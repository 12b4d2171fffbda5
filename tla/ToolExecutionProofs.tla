------------------------ MODULE ToolExecutionProofs -------------------------
(***************************************************************************)
(* Theorems about ToolStore, ToolExecution, ToolLifecycle and ToolShutdown,*)
(* for every set of requests, calls and disconnects and every number of    *)
(* restarts.  Whatever transactions are applied, in whatever order, the    *)
(* tables keep their types and agree, and settled rows stand; the service  *)
(* changes them by those transactions only.  No handler is called before   *)
(* the audit trail says so, nor twice, nor by another process than took    *)
(* the request; the service implements its lifecycle; waiters are told the *)
(* outcome stored; no row is left running with nobody to settle it;        *)
(* aclose() undoes nothing of this, and once it has returned no request    *)
(* awaits a confirmation nobody can give.                                  *)
(***************************************************************************)
EXTENDS ToolShutdown, TLAPS

-----------------------------------------------------------------------------
(* The tables                                                              *)

\* Empty tables have their types.
LEMMA StoreTypeInit == StoreInit => StoreTypeOK
BY DEF StoreInit, StoreTypeOK, RequestState, ConfirmationState, ErrorCode

\* The transactions of StoreNext, those that move a request row by its state
\* taken together.
LEMMA StoreSteps ==
    ASSUME [StoreNext]_storeVars
    PROVE  \/ \E r \in Requests \ HighRisk : CreateRequest(r)
           \/ \E r \in HighRisk : CreateConfirmation(r)
           \/ \E r \in Requests, d \in {"approve", "reject"}, late \in BOOLEAN :
                  ClaimDecision(r, d, late)
           \/ \E r \in Requests : StartExecution(r)
           \/ \E r \in Requests : Succeed(r)
           \/ \E r \in Requests, e \in ErrorCode : Fail(r, e)
           \/ \E r \in Requests : MarkUnavailable(r)
           \/ \E r \in Requests : CancelRequest(r)
           \/ \E r \in Requests : PassDeadline(r)
           \/ ListPendingConfirmations
           \/ UNCHANGED storeVars
<1>1. HighRisk \subseteq Requests
    BY HighRiskAssumption
<1>2. CASE \E r \in HighRisk, d \in {"approve", "reject"}, late \in BOOLEAN :
               (r \in due => late) /\ ClaimDecision(r, d, late)
    BY <1>1, <1>2, Zenon
<1>3. CASE \E r \in Requests, e \in ErrorCode \ {"none"} : Fail(r, e)
    BY <1>3, Zenon
<1> QED
    BY <1>2, <1>3, Zenon DEF StoreNext

\* Every transaction writes only states, codes and events of the schema.
LEMMA StoreTypeStep == StoreTypeOK /\ [StoreNext]_storeVars => StoreTypeOK'
<1> SUFFICES ASSUME StoreTypeOK, [StoreNext]_storeVars PROVE StoreTypeOK'
    OBVIOUS
<1>a. \A r \in Requests, from \in RequestState, to \in RequestState, e \in ErrorCode,
         a \in AuditEvent : TransitionRequest(r, from, to, e, a) => StoreTypeOK'
    BY DEF TransitionRequest, Record, StoreTypeOK, storeVars
<1>b. \A r \in Requests, e \in ErrorCode : Fail(r, e) => StoreTypeOK'
    <2>1. {"running", "failed"} \subseteq RequestState /\ "failed" \in AuditEvent
        BY DEF RequestState, Active, Settled, AuditEvent
    <2> QED
        BY <1>a, <2>1 DEF Fail
<1> USE DEF StoreTypeOK, Record, RequestState, Active, Settled, ConfirmationState, ErrorCode,
            AuditEvent, storeVars
<1>1. CASE \E r \in Requests \ HighRisk : CreateRequest(r)
    BY <1>1 DEF CreateRequest
<1>2. CASE \E r \in HighRisk : CreateConfirmation(r)
    BY <1>2, HighRiskAssumption DEF CreateConfirmation
<1>3. CASE \E r \in Requests, d \in {"approve", "reject"}, late \in BOOLEAN :
               ClaimDecision(r, d, late)
    BY <1>3 DEF ClaimDecision, Verdict
<1>4. CASE \E r \in Requests : StartExecution(r)
    BY <1>a, <1>4 DEF StartExecution
<1>5. CASE \E r \in Requests : Succeed(r)
    BY <1>a, <1>5 DEF Succeed
<1>6. CASE \E r \in Requests, e \in ErrorCode : Fail(r, e)
    BY <1>b, <1>6, Zenon
<1>7. CASE \E r \in Requests : MarkUnavailable(r)
    BY <1>a, <1>7 DEF MarkUnavailable
<1>8. CASE \E r \in Requests : CancelRequest(r)
    BY <1>8 DEF CancelRequest
<1>9. CASE \E r \in Requests : PassDeadline(r)
    BY <1>9 DEF PassDeadline
<1>10. CASE ListPendingConfirmations
    BY <1>10 DEF ListPendingConfirmations, Overdue
<1>11. CASE UNCHANGED storeVars
    BY <1>11
<1> HIDE DEF StoreTypeOK
<1> QED
    BY StoreSteps, <1>1, <1>2, <1>3, <1>4, <1>5, <1>6, <1>7, <1>8, <1>9, <1>10, <1>11, Zenon

\* The type invariant of the tables.
THEOREM StoreTypes == StoreSpec => []StoreTypeOK
BY StoreTypeInit, StoreTypeStep, PTL DEF StoreSpec

-----------------------------------------------------------------------------
\* Empty tables agree.
LEMMA RowsInit == StoreInit => RowsAgree
BY DEF StoreInit, RowsAgree

\* The rows of a request agree after each transaction if they did before it.
LEMMA RowsStep == StoreTypeOK /\ RowsAgree /\ [StoreNext]_storeVars => RowsAgree'
<1> SUFFICES ASSUME StoreTypeOK, RowsAgree, [StoreNext]_storeVars PROVE RowsAgree'
    OBVIOUS
<1> USE DEF StoreTypeOK, RowsAgree, Record, RequestState, Active, Settled, ConfirmationState,
            storeVars
<1>1. CASE \E r \in Requests \ HighRisk : CreateRequest(r)
    BY <1>1 DEF CreateRequest
<1>2. CASE \E r \in HighRisk : CreateConfirmation(r)
    BY <1>2, HighRiskAssumption DEF CreateConfirmation
<1>3. CASE \E r \in Requests, d \in {"approve", "reject"}, late \in BOOLEAN :
               ClaimDecision(r, d, late)
    BY <1>3 DEF ClaimDecision, Verdict
<1>4. CASE \E r \in Requests : StartExecution(r)
    BY <1>4 DEF StartExecution, TransitionRequest
<1>5. CASE \E r \in Requests : Succeed(r)
    BY <1>5 DEF Succeed, TransitionRequest
<1>6. CASE \E r \in Requests, e \in ErrorCode : Fail(r, e)
    BY <1>6 DEF Fail, TransitionRequest
<1>7. CASE \E r \in Requests : MarkUnavailable(r)
    BY <1>7 DEF MarkUnavailable, TransitionRequest
<1>8. CASE \E r \in Requests : CancelRequest(r)
    BY <1>8 DEF CancelRequest
<1>9. CASE \E r \in Requests : PassDeadline(r)
    BY <1>9 DEF PassDeadline
<1>10. CASE ListPendingConfirmations
    BY <1>10 DEF ListPendingConfirmations, Overdue
<1>11. CASE UNCHANGED storeVars
    BY <1>11
<1> HIDE DEF RowsAgree
<1> QED
    BY StoreSteps, <1>1, <1>2, <1>3, <1>4, <1>5, <1>6, <1>7, <1>8, <1>9, <1>10, <1>11, Zenon

\* The request row and the confirmation row never contradict each other.
THEOREM RowsAlwaysAgree == StoreSpec => []RowsAgree
BY StoreTypeInit, StoreTypeStep, RowsInit, RowsStep, PTL DEF StoreSpec

-----------------------------------------------------------------------------
\* An empty audit trail tells of no outcome.
LEMMA AuditInit == StoreInit => AuditTellsOutcome
BY DEF StoreInit, AuditTellsOutcome

\* Each transaction records what it decides.
LEMMA AuditStep ==
    StoreTypeOK /\ RowsAgree /\ AuditTellsOutcome /\ [StoreNext]_storeVars => AuditTellsOutcome'
<1> SUFFICES ASSUME StoreTypeOK, RowsAgree, AuditTellsOutcome, [StoreNext]_storeVars
             PROVE  AuditTellsOutcome'
    OBVIOUS
<1> USE DEF StoreTypeOK, RowsAgree, AuditTellsOutcome, Record, RequestState, Active, Settled,
            ConfirmationState, storeVars
<1>1. CASE \E r \in Requests \ HighRisk : CreateRequest(r)
    BY <1>1 DEF CreateRequest
<1>2. CASE \E r \in HighRisk : CreateConfirmation(r)
    BY <1>2, HighRiskAssumption DEF CreateConfirmation
<1>3. CASE \E r \in Requests, d \in {"approve", "reject"}, late \in BOOLEAN :
               ClaimDecision(r, d, late)
    BY <1>3 DEF ClaimDecision, Verdict
<1>4. CASE \E r \in Requests : StartExecution(r)
    BY <1>4 DEF StartExecution, TransitionRequest
<1>5. CASE \E r \in Requests : Succeed(r)
    BY <1>5 DEF Succeed, TransitionRequest
<1>6. CASE \E r \in Requests, e \in ErrorCode : Fail(r, e)
    <2>1. PICK r \in Requests, e \in ErrorCode : Fail(r, e)
        BY <1>6
    <2> QED
        BY <2>1 DEF Fail, TransitionRequest
<1>7. CASE \E r \in Requests : MarkUnavailable(r)
    BY <1>7 DEF MarkUnavailable, TransitionRequest
<1>8. CASE \E r \in Requests : CancelRequest(r)
    BY <1>8 DEF CancelRequest
<1>9. CASE \E r \in Requests : PassDeadline(r)
    BY <1>9 DEF PassDeadline
<1>10. CASE ListPendingConfirmations
    BY <1>10 DEF ListPendingConfirmations, Overdue
<1>11. CASE UNCHANGED storeVars
    BY <1>11
<1> HIDE DEF AuditTellsOutcome
<1> QED
    BY StoreSteps, <1>1, <1>2, <1>3, <1>4, <1>5, <1>6, <1>7, <1>8, <1>9, <1>10, <1>11, Zenon

\* The audit trail tells what was decided and how each request ended.
THEOREM AuditAlwaysTells == StoreSpec => []AuditTellsOutcome
BY StoreTypeInit, StoreTypeStep, RowsInit, RowsStep, AuditInit, AuditStep, PTL DEF StoreSpec

\* Request, confirmation and audit trail never contradict each other.
THEOREM TablesAlwaysAgree == StoreSpec => []TablesAgree
BY RowsAlwaysAgree, AuditAlwaysTells, PTL DEF TablesAgree

-----------------------------------------------------------------------------
\* What a transaction may do to the rows of a request that is decided or settled.
Stands(r) ==
    /\ req[r] \in Settled /\ req'[r] # req[r]
         => req[r] = "cancelled" /\ req'[r] = "failed"
    /\ conf[r] \notin {"absent", "pending"} => conf'[r] = conf[r]

\* Transactions let decisions and outcomes stand.
LEMMA StandStep ==
    ASSUME StoreTypeOK, RowsAgree, [StoreNext]_storeVars, NEW q \in Requests
    PROVE  Stands(q)
<1> USE DEF StoreTypeOK, RowsAgree, Stands, RequestState, Active, Settled, ConfirmationState,
            storeVars
<1>1. CASE \E r \in Requests \ HighRisk : CreateRequest(r)
    BY <1>1 DEF CreateRequest
<1>2. CASE \E r \in HighRisk : CreateConfirmation(r)
    BY <1>2, HighRiskAssumption DEF CreateConfirmation
<1>3. CASE \E r \in Requests, d \in {"approve", "reject"}, late \in BOOLEAN :
               ClaimDecision(r, d, late)
    BY <1>3 DEF ClaimDecision, Verdict
<1>4. CASE \E r \in Requests : StartExecution(r)
    BY <1>4 DEF StartExecution, TransitionRequest
<1>5. CASE \E r \in Requests : Succeed(r)
    BY <1>5 DEF Succeed, TransitionRequest
<1>6. CASE \E r \in Requests, e \in ErrorCode : Fail(r, e)
    BY <1>6 DEF Fail, TransitionRequest
<1>7. CASE \E r \in Requests : MarkUnavailable(r)
    BY <1>7 DEF MarkUnavailable, TransitionRequest
<1>8. CASE \E r \in Requests : CancelRequest(r)
    BY <1>8 DEF CancelRequest
<1>9. CASE \E r \in Requests : PassDeadline(r)
    BY <1>9 DEF PassDeadline
<1>10. CASE ListPendingConfirmations
    BY <1>10 DEF ListPendingConfirmations, Overdue
<1>11. CASE UNCHANGED storeVars
    BY <1>11
<1> HIDE DEF Stands
<1> QED
    BY StoreSteps, <1>1, <1>2, <1>3, <1>4, <1>5, <1>6, <1>7, <1>8, <1>9, <1>10, <1>11, Zenon

\* No transaction revises a decision or an outcome, but for a cancelled request
\* that lost its client.
THEOREM OutcomesAlwaysStand == StoreSpec => OutcomesStand
<1> DEFINE Stand == \A r \in Requests : Stands(r)
<1>1. StoreTypeOK /\ RowsAgree /\ [StoreNext]_storeVars => [Stand]_storeVars
    BY StandStep
<1>2. StoreSpec => [][Stand]_storeVars
    BY <1>1, StoreTypeInit, StoreTypeStep, RowsInit, RowsStep, PTL DEF StoreSpec
<1> QED
    BY <1>2, Zenon DEF OutcomesStand, Stands

-----------------------------------------------------------------------------
(* Locks and processes                                                     *)

\* A lock nobody wants is a well-formed queue.
LEMMA FreeType == ASSUME NEW P PROVE IsLock(Free, P)
BY DEF Free, IsLock

\* A task that joins a queue leaves it well formed.
LEMMA JoinType ==
    ASSUME NEW P, NEW l, IsLock(l, P), NEW p \in P
    PROVE  IsLock(Join(l, p), P)
BY DEF Join, IsLock

\* So does one that leaves it.
LEMMA LeaveType ==
    ASSUME NEW P, NEW l, IsLock(l, P), NEW p
    PROVE  IsLock(Leave(l, p), P)
BY DEF Leave, LeaveAll, IsLock

\* And one that several tasks leave.
LEMMA LeaveAllType ==
    ASSUME NEW P, NEW l, IsLock(l, P), NEW S
    PROVE  IsLock(LeaveAll(l, S), P)
BY DEF LeaveAll, IsLock

\* The processes of the calls and supervisors.
LEMMA ProcType ==
    /\ \A r \in Requests : Req(r) \in Proc /\ Sup(r) \in Proc /\ Wait(r) \in Proc
    /\ \A d \in Deciders : Dec(d) \in Proc
    /\ \A c \in Cancellers : Can(c) \in Proc
    /\ \A x \in Drops : Drop(x) \in Proc
BY DEF Proc, Req, Sup, Wait, Dec, Can, Drop

\* The kind and the name of a process.
LEMMA ProcParts ==
    /\ \A r : /\ Req(r)[1] = "request" /\ Req(r)[2] = r
              /\ Sup(r)[1] = "supervise" /\ Sup(r)[2] = r
              /\ Wait(r)[1] = "wait" /\ Wait(r)[2] = r
    /\ \A d : Dec(d)[1] = "decide" /\ Dec(d)[2] = d
    /\ \A c : Can(c)[1] = "cancel" /\ Can(c)[2] = c
    /\ \A x : Drop(x)[1] = "drop" /\ Drop(x)[2] = x
BY DEF Req, Sup, Wait, Dec, Can, Drop

\* A supervisor cancelled while it publishes ends, with disconnects and nobody else.
LEMMA AbortEnds ==
    ASSUME NEW r \in Requests, SupAborts(r)
    PROVE  /\ pc[Sup(r)] = "publishing"
           /\ \A q \in Proc : /\ pc'[q] \in {pc[q], "done"}
                              /\ q # Sup(r) /\ q[1] # "drop" => pc'[q] = pc[q]
BY ProcType, ProcParts DEF SupAborts, Awaited, At

\* A waiter is told nothing but a settled state.
LEMMA ResolveType ==
    ASSUME told \in [Requests -> Settled \cup {"none"}], NEW r, NEW s, Resolve(r, s)
    PROVE  told' \in [Requests -> Settled \cup {"none"}]
BY DEF Resolve

\* What a publication tells the waiters, too.
LEMMA NotifyType ==
    ASSUME told \in [Requests -> Settled \cup {"none"}], NEW p, Notify(p)
    PROVE  told' \in [Requests -> Settled \cup {"none"}]
<1>1. CASE p[1] = "drop"
    BY <1>1 DEF Notify
<1>2. CASE p[1] # "drop" /\ p[1] = "wait" /\ seen[p] \in Settled
    <2>1. told' = [told EXCEPT ![p[2]] = seen[p]]
        BY <1>2 DEF Notify
    <2> QED
        BY <1>2, <2>1
<1>3. CASE p[1] # "drop" /\ ~(p[1] = "wait" /\ seen[p] \in Settled)
    BY <1>3, ResolveType DEF Notify
<1> QED
    BY <1>1, <1>2, <1>3

\* The states a request row passes through are states of the schema.
LEMMA StateType == {"absent", "pending_confirmation", "running"} \cup Settled \subseteq RequestState
BY DEF RequestState, Active

\* The labels the actions write are labels.
LEMMA LabelType ==
    /\ {"idle", "done", "create", "late", "created", "exec_wait", "reread", "conf_wait", "publish",
        "publishing", "fail_cancel", "fail_mark", "fail_done", "claimed", "recheck", "rechecked",
        "no_context", "start", "started", "cancel", "cancelled", "read", "wait_pending",
        "wait_running", "expired", "failed", "next", "new", "checked", "handler", "succeed",
        "succeeded", "settled"} \subseteq Label
    /\ {"fail_unavailable", "fail_timeout", "fail_error"} \subseteq Label
BY DEF Label, FailureCode

-----------------------------------------------------------------------------
(* Types *)

\* A process that works for a request knows which.
Aimed ==
    \A p \in Proc :
        /\ p[1] \in {"request", "supervise", "wait"} => target[p] = p[2]
        /\ p[1] \in {"decide", "cancel"} /\ Working(p) => target[p] \in Requests
        /\ pc[p] \in {"fail_cancel", "fail_mark", "fail_done"} => target[p] \in Requests

\* The invariant of the proofs below: the types, the agreement of the two rows
\* of a request, and the request each process works for.
Grounded == TypeOK /\ RowsAgree /\ Aimed

\* The service starts with empty tables, free locks and no call.
LEMMA GroundedInit == Init => Grounded
<1> SUFFICES ASSUME Init PROVE Grounded
    OBVIOUS
<1>1. StoreTypeOK /\ RowsAgree
    BY StoreTypeInit, RowsInit DEF Init
<1>2. TypeOK
    BY <1>1, FreeType, LabelType, RestartsAssumption
    DEF Init, TypeOK, MemoryTypeOK, LockTypeOK, DropTypeOK, LocalTypeOK, HistoryTypeOK,
                RequestState, Proc
<1>3. Aimed
    BY DEF Init, Aimed, Working
<1> QED
    BY <1>1, <1>2, <1>3 DEF Grounded

\* What the service does to the tables are transactions of ToolStore.
LEMMA Transactions ==
    ASSUME StoreTypeOK, RowsAgree, NEW r \in Requests
    PROVE  /\ CancelRequest(r) => [StoreNext]_storeVars
           /\ MarkUnavailable(r) => [StoreNext]_storeVars
           /\ StartExecution(r) => [StoreNext]_storeVars
           /\ Succeed(r) => [StoreNext]_storeVars
           /\ \A e \in ErrorCode \ {"none"} : Fail(r, e) => [StoreNext]_storeVars
           /\ \A d \in {"approve", "reject"}, late \in BOOLEAN :
                  (r \in due => late) /\ ClaimDecision(r, d, late) => [StoreNext]_storeVars
<1>1. CASE conf[r] = "pending"
    <2>1. r \in HighRisk
        BY <1>1 DEF RowsAgree
    <2> QED
        BY <2>1, Zenon DEF StoreNext
<1>2. CASE conf[r] # "pending"
    <2>1. \A d, late : ClaimDecision(r, d, late) => UNCHANGED storeVars
        BY <1>2 DEF ClaimDecision
    <2> QED
        BY <2>1, Zenon DEF StoreNext
<1> QED
    BY <1>1, <1>2

-----------------------------------------------------------------------------
(* One lemma per kind of process: its steps keep every type and the        *)
(* request it works for, given that the tables keep theirs.                *)

\* The caller of a low-risk request() may be cancelled before it has a supervisor.
LEMMA CancelledCaller ==
    ASSUME pc \in [Proc -> Label], NEW r \in Requests, CallerCancelled(r)
    PROVE  /\ r \in Abandonable /\ r \notin Confirmed /\ r \notin HighRisk
           /\ pc[Req(r)] \in {"create", "created", "exec_wait", "reread"}
           /\ pc'[Req(r)] \in {"late", "done"}
           /\ pc'[Req(r)] = "late" => pc[Req(r)] = "create"
           /\ \A k \in Proc : k # Req(r) => pc'[k] = pc[k]
BY ProcType, AbandonableAssumption DEF CallerCancelled, Confirmed, At, Go

\* Steps of request() keep every type.
LEMMA RequestTypes ==
    ASSUME TypeOK, Aimed, StoreTypeOK', NEW r \in Requests, RequestStep(r)
    PROVE  TypeOK' /\ Aimed'
<1> USE DEF TypeOK, Aimed
<1> USE ProcType, ProcParts, StateType, ResolveType, RestartsAssumption
        DEF At, AtSup, Go, See, Working, Finished, memoryVars, lockVars, localVars, dropVars,
            historyVars
<1>1. CASE CommitRequest(r)
    BY <1>1, LabelType
    DEF MemoryTypeOK, LockTypeOK, DropTypeOK, LocalTypeOK, HistoryTypeOK, StoreTypeOK,
        CommitRequest
<1>2. CASE QueueExecution(r)
    BY <1>2, LabelType, JoinType
    DEF MemoryTypeOK, LockTypeOK, DropTypeOK, LocalTypeOK, HistoryTypeOK, StoreTypeOK,
        QueueExecution
<1>3. CASE RereadRequest(r)
    BY <1>3, LabelType
    DEF MemoryTypeOK, LockTypeOK, DropTypeOK, LocalTypeOK, HistoryTypeOK, StoreTypeOK,
        RereadRequest
<1>4. CASE ExecuteRequest(r)
    <2>1. MemoryTypeOK' /\ DropTypeOK' /\ HistoryTypeOK'
        BY <1>4 DEF MemoryTypeOK, DropTypeOK, HistoryTypeOK, ExecuteRequest
    <2>2. LockTypeOK'
        BY <1>4, LeaveType DEF LockTypeOK, ExecuteRequest
    <2>3. LocalTypeOK'
        BY <1>4 DEF LocalTypeOK, StoreTypeOK, ExecuteRequest
    <2>4. pc' \in [Proc -> Label] /\ Aimed'
        BY <1>4, LabelType DEF LocalTypeOK, ExecuteRequest
    <2> QED
        BY <2>1, <2>2, <2>3, <2>4
<1>5. CASE TrackConfirmation(r)
    <2>1. MemoryTypeOK' /\ DropTypeOK' /\ HistoryTypeOK'
        BY <1>5 DEF MemoryTypeOK, DropTypeOK, HistoryTypeOK, TrackConfirmation
    <2>2. LockTypeOK'
        BY <1>5, JoinType DEF LockTypeOK, TrackConfirmation
    <2>3. LocalTypeOK'
        BY <1>5 DEF LocalTypeOK, StoreTypeOK, TrackConfirmation
    <2>4. pc' \in [Proc -> Label] /\ Aimed'
        BY <1>5, LabelType DEF LocalTypeOK, TrackConfirmation
    <2> QED
        BY <2>1, <2>2, <2>3, <2>4
<1>6. CASE FailNewRequest(r)
    BY <1>6, LabelType
    DEF MemoryTypeOK, LockTypeOK, DropTypeOK, LocalTypeOK, HistoryTypeOK, StoreTypeOK,
        FailNewRequest, Forget
<1> HIDE DEF TypeOK, Aimed
<1> QED
    BY <1>1, <1>2, <1>3, <1>4, <1>5, <1>6, Zenon DEF RequestStep

\* Steps of wait_for_terminal() keep every type.
LEMMA WaitTypes ==
    ASSUME TypeOK, Aimed, StoreTypeOK', NEW r \in Requests, WaitStep(r)
    PROVE  TypeOK' /\ Aimed'
<1> USE DEF TypeOK, Aimed
<1> USE ProcType, ProcParts, StateType, ResolveType, RestartsAssumption
        DEF At, AtSup, Go, See, Working, Finished, memoryVars, lockVars, localVars, dropVars,
            historyVars
<1>1. CASE WaitStart(r)
    BY <1>1, LabelType
    DEF MemoryTypeOK, LockTypeOK, DropTypeOK, LocalTypeOK, HistoryTypeOK, StoreTypeOK, WaitStart
<1>2. CASE WaitRead(r)
    <2>1. MemoryTypeOK' /\ DropTypeOK' /\ HistoryTypeOK' /\ LockTypeOK'
        BY <1>2 DEF MemoryTypeOK, DropTypeOK, HistoryTypeOK, LockTypeOK, WaitRead
    <2>2. LocalTypeOK'
        BY <1>2 DEF LocalTypeOK, StoreTypeOK, WaitRead
    <2>3. pc' \in [Proc -> Label] /\ Aimed'
        BY <1>2, LabelType DEF LocalTypeOK, WaitRead
    <2> QED
        BY <2>1, <2>2, <2>3
<1>3. CASE WaitResolved(r)
    BY <1>3, LabelType
    DEF MemoryTypeOK, LockTypeOK, DropTypeOK, LocalTypeOK, HistoryTypeOK, StoreTypeOK,
        WaitResolved
<1>4. CASE WaitExpire(r)
    BY <1>4, LabelType
    DEF MemoryTypeOK, LockTypeOK, DropTypeOK, LocalTypeOK, HistoryTypeOK, StoreTypeOK,
        WaitExpire
<1>5. CASE WaitExpired(r)
    <2>1. MemoryTypeOK' /\ DropTypeOK' /\ HistoryTypeOK' /\ LockTypeOK'
        BY <1>5 DEF MemoryTypeOK, DropTypeOK, HistoryTypeOK, LockTypeOK, WaitExpired, Forget
    <2>2. LocalTypeOK'
        BY <1>5 DEF LocalTypeOK, StoreTypeOK, WaitExpired, Forget
    <2>3. pc' \in [Proc -> Label] /\ Aimed'
        BY <1>5, LabelType DEF LocalTypeOK, WaitExpired, Forget
    <2> QED
        BY <2>1, <2>2, <2>3
<1>6. CASE WaitTimeout(r)
    BY <1>6, LabelType, JoinType
    DEF MemoryTypeOK, LockTypeOK, DropTypeOK, LocalTypeOK, HistoryTypeOK, StoreTypeOK,
        WaitTimeout
<1>7. CASE WaitFail(r)
    BY <1>7, LabelType
    DEF MemoryTypeOK, LockTypeOK, DropTypeOK, LocalTypeOK, HistoryTypeOK, StoreTypeOK, WaitFail
<1>8. CASE WaitFailed(r)
    BY <1>8, LabelType, LeaveType
    DEF MemoryTypeOK, LockTypeOK, DropTypeOK, LocalTypeOK, HistoryTypeOK, StoreTypeOK,
        WaitFailed, CancelTask
<1> HIDE DEF TypeOK, Aimed
<1> QED
    BY <1>1, <1>2, <1>3, <1>4, <1>5, <1>6, <1>7, <1>8, Zenon DEF WaitStep

\* Steps of supervisors keep every type.
LEMMA SupTypes ==
    ASSUME TypeOK, Aimed, StoreTypeOK', NEW r \in Requests, SupStep(r)
    PROVE  TypeOK' /\ Aimed'
<1> USE DEF TypeOK, Aimed
<1> USE ProcType, ProcParts, StateType, ResolveType, RestartsAssumption
        DEF At, AtSup, Go, See, Working, Finished, memoryVars, lockVars, localVars, dropVars,
            historyVars
<1>1. CASE SupStart(r)
    <2>1a. MemoryTypeOK' /\ DropTypeOK'
        BY <1>1 DEF MemoryTypeOK, DropTypeOK, SupStart
    <2>1b. HistoryTypeOK'
        BY <1>1 DEF MemoryTypeOK, HistoryTypeOK, SupStart, RunHandler
    <2>1. MemoryTypeOK' /\ DropTypeOK' /\ HistoryTypeOK'
        BY <2>1a, <2>1b
    <2>2. LockTypeOK'
        BY <1>1, JoinType DEF LockTypeOK, SupStart, RunHandler
    <2>3. LocalTypeOK'
        BY <1>1 DEF LocalTypeOK, StoreTypeOK, SupStart, RunHandler
    <2>4. pc' \in [Proc -> Label] /\ Aimed'
        BY <1>1, LabelType DEF LocalTypeOK, SupStart, RunHandler
    <2> QED
        BY <2>1, <2>2, <2>3, <2>4
<1>2. CASE SupLock(r)
    BY <1>2, LabelType, JoinType
    DEF MemoryTypeOK, LockTypeOK, DropTypeOK, LocalTypeOK, HistoryTypeOK, StoreTypeOK, SupLock
<1>3. CASE SupCheck(r)
    <2>1. MemoryTypeOK' /\ DropTypeOK' /\ HistoryTypeOK'
        BY <1>3 DEF MemoryTypeOK, DropTypeOK, HistoryTypeOK, SupCheck, Forget, LeaveLocks
    <2>2. LockTypeOK'
        BY <1>3, LeaveType DEF LockTypeOK, SupCheck, Forget, LeaveLocks
    <2>3. LocalTypeOK'
        BY <1>3 DEF LocalTypeOK, StoreTypeOK, SupCheck, Forget, LeaveLocks
    <2>4. pc' \in [Proc -> Label] /\ Aimed'
        BY <1>3, LabelType DEF LocalTypeOK, SupCheck, Forget, LeaveLocks
    <2> QED
        BY <2>1, <2>2, <2>3, <2>4
<1>4. CASE SupChecked(r)
    <2>1. MemoryTypeOK' /\ DropTypeOK' /\ HistoryTypeOK'
        BY <1>4
        DEF MemoryTypeOK, DropTypeOK, HistoryTypeOK, SupChecked, Forget, RunHandler, LeaveLocks
    <2>2. LockTypeOK'
        BY <1>4, LeaveType DEF LockTypeOK, SupChecked, Forget, RunHandler, LeaveLocks
    <2>3. LocalTypeOK'
        BY <1>4 DEF LocalTypeOK, StoreTypeOK, SupChecked, Forget, RunHandler, LeaveLocks
    <2>4. pc' \in [Proc -> Label] /\ Aimed'
        BY <1>4, LabelType DEF LocalTypeOK, SupChecked, Forget, RunHandler, LeaveLocks
    <2> QED
        BY <2>1, <2>2, <2>3, <2>4
<1>5. CASE SupFailed(r)
    BY <1>5, LabelType, LeaveType
    DEF MemoryTypeOK, LockTypeOK, DropTypeOK, LocalTypeOK, HistoryTypeOK, StoreTypeOK,
        SupFailed, LeaveLocks
<1>6. CASE HandlerEnds(r)
    BY <1>6, LabelType
    DEF MemoryTypeOK, LockTypeOK, DropTypeOK, LocalTypeOK, HistoryTypeOK, StoreTypeOK,
        HandlerEnds
<1>7. CASE SupTimeout(r)
    BY <1>7, LabelType, LeaveType
    DEF MemoryTypeOK, LockTypeOK, DropTypeOK, LocalTypeOK, HistoryTypeOK, StoreTypeOK,
        SupTimeout, Interruptible, LeaveLocks
<1>8. CASE CommitSuccess(r)
    BY <1>8, LabelType
    DEF MemoryTypeOK, LockTypeOK, DropTypeOK, LocalTypeOK, HistoryTypeOK, StoreTypeOK,
        CommitSuccess
<1>9. CASE CommitFailure(r)
    BY <1>9, LabelType
    DEF MemoryTypeOK, LockTypeOK, DropTypeOK, LocalTypeOK, HistoryTypeOK, StoreTypeOK,
        CommitFailure, FailureCode
<1>10. CASE SupSettle(r)
    BY <1>10, LabelType
    DEF MemoryTypeOK, LockTypeOK, DropTypeOK, LocalTypeOK, HistoryTypeOK, StoreTypeOK, SupSettle
<1>11. CASE SupReleased(r)
    BY <1>11, LabelType
    DEF MemoryTypeOK, LockTypeOK, DropTypeOK, LocalTypeOK, HistoryTypeOK, StoreTypeOK,
        SupReleased
<1>12. CASE SupCancelled(r)
    BY <1>12, LabelType, LeaveType
    DEF MemoryTypeOK, LockTypeOK, DropTypeOK, LocalTypeOK, HistoryTypeOK, StoreTypeOK,
        SupCancelled, Interruptible, LeaveLocks
<1>13. CASE SupReread(r)
    BY <1>13, LabelType
    DEF MemoryTypeOK, LockTypeOK, DropTypeOK, LocalTypeOK, HistoryTypeOK, StoreTypeOK, SupReread
<1>14. CASE SupAborts(r)
    <2>1. MemoryTypeOK' /\ DropTypeOK' /\ HistoryTypeOK'
        BY <1>14 DEF MemoryTypeOK, DropTypeOK, HistoryTypeOK, SupAborts, Awaited
    <2>2. LockTypeOK'
        BY <1>14, LeaveAllType DEF LockTypeOK, SupAborts
    <2>3. LocalTypeOK'
        BY <1>14 DEF LocalTypeOK, StoreTypeOK, SupAborts
    <2>4. target' = target
        BY <1>14 DEF SupAborts
    <2>5. /\ pc[Sup(r)] = "publishing"
          /\ \A q \in Proc : /\ pc'[q] \in {pc[q], "done"}
                             /\ q # Sup(r) /\ q[1] # "drop" => pc'[q] = pc[q]
        BY <1>14, AbortEnds, Zenon
    <2>6. pc' \in [Proc -> Label]
        BY <1>14, LabelType DEF SupAborts
    <2>7. Aimed'
        BY <2>4, <2>5
    <2> QED
        BY <2>1, <2>2, <2>3, <2>6, <2>7
<1> HIDE DEF TypeOK, Aimed
<1> QED
    BY <1>1, <1>2, <1>3, <1>4, <1>5, <1>6, <1>7, <1>8, <1>9, <1>10, <1>11, <1>12, <1>13, <1>14,
       Zenon
    DEF SupStep

\* Steps of decide() keep every type.
LEMMA DecideTypes ==
    ASSUME TypeOK, Aimed, StoreTypeOK', NEW d \in Deciders, DecideStep(d)
    PROVE  TypeOK' /\ Aimed'
<1> USE DEF TypeOK, Aimed
<1> USE ProcType, ProcParts, StateType, ResolveType, RestartsAssumption
        DEF At, AtSup, Go, See, Working, Finished, memoryVars, lockVars, localVars, dropVars,
            historyVars
<1>1. CASE DecideLock(d)
    BY <1>1, LabelType, JoinType
    DEF MemoryTypeOK, LockTypeOK, DropTypeOK, LocalTypeOK, HistoryTypeOK, StoreTypeOK,
        DecideLock
<1>2. CASE DecideClaim(d)
    <2>1. MemoryTypeOK' /\ DropTypeOK' /\ HistoryTypeOK' /\ LockTypeOK'
        BY <1>2 DEF MemoryTypeOK, DropTypeOK, HistoryTypeOK, LockTypeOK, DecideClaim
    <2>2. LocalTypeOK'
        BY <1>2 DEF LocalTypeOK, StoreTypeOK, DecideClaim
    <2>3. pc' \in [Proc -> Label] /\ Aimed'
        BY <1>2, LabelType DEF LocalTypeOK, DecideClaim
    <2> QED
        BY <2>1, <2>2, <2>3
<1>3. CASE DecideRefused(d)
    <2>1. MemoryTypeOK' /\ DropTypeOK' /\ HistoryTypeOK'
        BY <1>3 DEF MemoryTypeOK, DropTypeOK, HistoryTypeOK, DecideRefused, LeaveLocks
    <2>2. LockTypeOK'
        BY <1>3, LeaveType DEF LockTypeOK, DecideRefused, LeaveLocks
    <2>3. LocalTypeOK'
        BY <1>3 DEF LocalTypeOK, StoreTypeOK, DecideRefused, LeaveLocks
    <2>4. pc' \in [Proc -> Label] /\ Aimed'
        BY <1>3, LabelType DEF LocalTypeOK, DecideRefused, LeaveLocks
    <2> QED
        BY <2>1, <2>2, <2>3, <2>4
<1>4. CASE DecideApproved(d)
    <2>1. MemoryTypeOK' /\ DropTypeOK' /\ HistoryTypeOK' /\ LockTypeOK'
        BY <1>4 DEF MemoryTypeOK, DropTypeOK, HistoryTypeOK, LockTypeOK, DecideApproved, Forget
    <2>2. LocalTypeOK'
        BY <1>4 DEF LocalTypeOK, StoreTypeOK, DecideApproved, Forget
    <2>3. pc' \in [Proc -> Label] /\ Aimed'
        BY <1>4, LabelType DEF LocalTypeOK, DecideApproved, Forget
    <2> QED
        BY <2>1, <2>2, <2>3
<1>5. CASE DecideReread(d)
    <2>1. MemoryTypeOK' /\ DropTypeOK' /\ HistoryTypeOK' /\ LockTypeOK'
        BY <1>5 DEF MemoryTypeOK, DropTypeOK, HistoryTypeOK, LockTypeOK, DecideReread
    <2>2. LocalTypeOK'
        BY <1>5 DEF LocalTypeOK, StoreTypeOK, DecideReread
    <2>3. pc' \in [Proc -> Label] /\ Aimed'
        BY <1>5, LabelType DEF LocalTypeOK, DecideReread
    <2> QED
        BY <2>1, <2>2, <2>3
<1>6. CASE DecideRechecked(d)
    <2>1. MemoryTypeOK' /\ DropTypeOK' /\ HistoryTypeOK'
        BY <1>6 DEF MemoryTypeOK, DropTypeOK, HistoryTypeOK, DecideRechecked, Forget, LeaveLocks
    <2>2. LockTypeOK'
        BY <1>6, LeaveType DEF LockTypeOK, DecideRechecked, Forget, LeaveLocks
    <2>3. LocalTypeOK'
        BY <1>6 DEF LocalTypeOK, StoreTypeOK, DecideRechecked, Forget, LeaveLocks
    <2>4. pc' \in [Proc -> Label] /\ Aimed'
        BY <1>6, LabelType DEF LocalTypeOK, DecideRechecked, Forget, LeaveLocks
    <2> QED
        BY <2>1, <2>2, <2>3, <2>4
<1>7. CASE DecideNoContext(d)
    <2>1. MemoryTypeOK' /\ DropTypeOK' /\ HistoryTypeOK'
        BY <1>7 DEF MemoryTypeOK, DropTypeOK, HistoryTypeOK, DecideNoContext
    <2>2. LockTypeOK'
        BY <1>7, LeaveType DEF LockTypeOK, DecideNoContext, LeaveLocks
    <2>3. LocalTypeOK'
        <3>1. target[Dec(d)] \in Requests
            BY <1>7 DEF DecideNoContext
        <3>2. req'[target[Dec(d)]] \in RequestState
            BY <3>1 DEF StoreTypeOK
        <3> QED
            BY <1>7, <3>2 DEF LocalTypeOK, DecideNoContext
    <2>4. pc' \in [Proc -> Label] /\ Aimed'
        BY <1>7, LabelType DEF LocalTypeOK, DecideNoContext, LeaveLocks
    <2> QED
        BY <2>1, <2>2, <2>3, <2>4
<1>8. CASE DecideStart(d)
    <2>1. MemoryTypeOK' /\ DropTypeOK' /\ HistoryTypeOK' /\ LockTypeOK'
        BY <1>8 DEF MemoryTypeOK, DropTypeOK, HistoryTypeOK, LockTypeOK, DecideStart
    <2>2. LocalTypeOK'
        BY <1>8 DEF LocalTypeOK, StoreTypeOK, DecideStart
    <2>3. pc' \in [Proc -> Label] /\ Aimed'
        BY <1>8, LabelType DEF LocalTypeOK, DecideStart
    <2> QED
        BY <2>1, <2>2, <2>3
<1>9. CASE DecideStarted(d)
    <2>1. MemoryTypeOK' /\ DropTypeOK' /\ HistoryTypeOK'
        BY <1>9 DEF MemoryTypeOK, DropTypeOK, HistoryTypeOK, DecideStarted, Forget, LeaveLocks
    <2>2. LockTypeOK'
        BY <1>9, LeaveType DEF LockTypeOK, DecideStarted, Forget, LeaveLocks
    <2>3. LocalTypeOK'
        BY <1>9 DEF LocalTypeOK, StoreTypeOK, DecideStarted, Forget, LeaveLocks
    <2>4. pc' \in [Proc -> Label] /\ Aimed'
        BY <1>9, LabelType DEF LocalTypeOK, DecideStarted, Forget, LeaveLocks
    <2> QED
        BY <2>1, <2>2, <2>3, <2>4
<1> HIDE DEF TypeOK, Aimed
<1> QED
    BY <1>1, <1>2, <1>3, <1>4, <1>5, <1>6, <1>7, <1>8, <1>9, Zenon DEF DecideStep

\* Steps of cancel() keep every type.
LEMMA CancelTypes ==
    ASSUME TypeOK, Aimed, StoreTypeOK', NEW c \in Cancellers, CancelStep(c)
    PROVE  TypeOK' /\ Aimed'
<1> USE DEF TypeOK, Aimed
<1> USE ProcType, ProcParts, StateType, ResolveType, RestartsAssumption
        DEF At, AtSup, Go, See, Working, Finished, memoryVars, lockVars, localVars, dropVars,
            historyVars
<1>1. CASE CancelCommit(c)
    BY <1>1, LabelType
    DEF MemoryTypeOK, LockTypeOK, DropTypeOK, LocalTypeOK, HistoryTypeOK, StoreTypeOK,
        CancelCommit
<1>2. CASE CancelResume(c)
    BY <1>2, LabelType
    DEF MemoryTypeOK, LockTypeOK, DropTypeOK, LocalTypeOK, HistoryTypeOK, StoreTypeOK,
        CancelResume, Forget, CancelTask
<1> HIDE DEF TypeOK, Aimed
<1> QED
    BY <1>1, <1>2, Zenon DEF CancelStep

\* Steps of disconnects keep every type.
LEMMA DropTypes ==
    ASSUME TypeOK, Aimed, StoreTypeOK', NEW x \in Drops, DropStep(x)
    PROVE  TypeOK' /\ Aimed'
<1> USE DEF TypeOK, Aimed
<1> USE ProcType, ProcParts, StateType, ResolveType, RestartsAssumption
        DEF At, AtSup, Go, See, Working, Finished, memoryVars, lockVars, localVars, dropVars,
            historyVars
<1>1. CASE DropBump(x)
    BY <1>1, LabelType
    DEF MemoryTypeOK, LockTypeOK, DropTypeOK, LocalTypeOK, HistoryTypeOK, StoreTypeOK, DropBump
<1>2. CASE \E r \in Requests : DropNext(x, r)
    BY <1>2, LabelType
    DEF MemoryTypeOK, LockTypeOK, DropTypeOK, LocalTypeOK, HistoryTypeOK, StoreTypeOK, DropNext,
        Forget
<1>3. CASE DropEnd(x)
    BY <1>3, LabelType, LeaveType
    DEF MemoryTypeOK, LockTypeOK, DropTypeOK, LocalTypeOK, HistoryTypeOK, StoreTypeOK, DropEnd
<1> HIDE DEF TypeOK, Aimed
<1> QED
    BY <1>1, <1>2, <1>3, Zenon DEF DropStep

\* Steps of the shared failure and publication keep every type.
LEMMA SharedTypes ==
    ASSUME TypeOK, Aimed, StoreTypeOK', NEW p \in Proc, SharedStep(p)
    PROVE  TypeOK' /\ Aimed'
<1> USE DEF TypeOK, Aimed
<1> USE ProcType, ProcParts, StateType, ResolveType, RestartsAssumption
        DEF At, AtSup, Go, See, Working, Finished, memoryVars, lockVars, localVars, dropVars,
            historyVars
<1>1. CASE FailCancel(p)
    BY <1>1, LabelType
    DEF MemoryTypeOK, LockTypeOK, DropTypeOK, LocalTypeOK, HistoryTypeOK, StoreTypeOK,
        FailCancel
<1>2. CASE FailMark(p)
    BY <1>2, LabelType
    DEF MemoryTypeOK, LockTypeOK, DropTypeOK, LocalTypeOK, HistoryTypeOK, StoreTypeOK, FailMark
<1>3. CASE FailDone(p)
    <2>1. MemoryTypeOK' /\ DropTypeOK' /\ HistoryTypeOK'
        BY <1>3 DEF MemoryTypeOK, DropTypeOK, HistoryTypeOK, FailDone, CancelTask, LeaveLocks
    <2>2. LockTypeOK'
        BY <1>3, LeaveType DEF LockTypeOK, FailDone, CancelTask, LeaveLocks
    <2>3. LocalTypeOK'
        BY <1>3 DEF LocalTypeOK, StoreTypeOK, FailDone, CancelTask, LeaveLocks
    <2>4. pc' \in [Proc -> Label] /\ Aimed'
        BY <1>3, LabelType DEF LocalTypeOK, FailDone, CancelTask, LeaveLocks
    <2> QED
        BY <2>1, <2>2, <2>3, <2>4
<1>4. CASE Publish(p)
    <2>1. MemoryTypeOK' /\ DropTypeOK' /\ HistoryTypeOK' /\ LockTypeOK'
        BY <1>4
        DEF MemoryTypeOK, DropTypeOK, HistoryTypeOK, LockTypeOK, Publish, MayPublish, Release
    <2>2. LocalTypeOK'
        BY <1>4, NotifyType DEF LocalTypeOK, Publish
    <2>3. pc' \in [Proc -> Label] /\ Aimed'
        BY <1>4, LabelType DEF LocalTypeOK, Publish
    <2> QED
        BY <2>1, <2>2, <2>3
<1>5. CASE \E x \in Drops : PublishReturns(p, x)
    BY <1>5, LabelType
    DEF MemoryTypeOK, LockTypeOK, DropTypeOK, LocalTypeOK, HistoryTypeOK, StoreTypeOK,
        PublishReturns, Release
<1> HIDE DEF TypeOK, Aimed
<1> QED
    BY <1>1, <1>2, <1>3, <1>4, <1>5, Zenon DEF SharedStep

\* Steps of callers, clients, clock and restart keep every type.
LEMMA EnvironmentTypes ==
    ASSUME TypeOK, Aimed, StoreTypeOK', Environment
    PROVE  TypeOK' /\ Aimed'
<1> USE DEF TypeOK, Aimed
<1> USE ProcType, ProcParts, StateType, ResolveType, RestartsAssumption
        DEF At, AtSup, Go, See, Working, Finished, memoryVars, lockVars, localVars, dropVars,
            historyVars
<1>1. CASE \E r \in Requests : Request(r)
    BY <1>1, LabelType
    DEF MemoryTypeOK, LockTypeOK, DropTypeOK, LocalTypeOK, HistoryTypeOK, StoreTypeOK, Request
<1>2. CASE \E d \in Deciders, r \in Requests : Decide(d, r)
    BY <1>2, LabelType, JoinType
    DEF MemoryTypeOK, LockTypeOK, DropTypeOK, LocalTypeOK, HistoryTypeOK, StoreTypeOK, Decide
<1>3. CASE \E c \in Cancellers, r \in Requests : Cancel(c, r)
    BY <1>3, LabelType
    DEF MemoryTypeOK, LockTypeOK, DropTypeOK, LocalTypeOK, HistoryTypeOK, StoreTypeOK, Cancel
<1>4. CASE \E x \in Drops : Disconnect(x)
    <2> PICK x \in Drops : Disconnect(x)
        BY <1>4
    <2>1. MemoryTypeOK' /\ DropTypeOK' /\ HistoryTypeOK'
        BY <1>4 DEF MemoryTypeOK, DropTypeOK, HistoryTypeOK, Disconnect
    <2>2. LockTypeOK'
        BY <1>4, JoinType DEF LockTypeOK, Disconnect
    <2>3. LocalTypeOK'
        BY <1>4 DEF LocalTypeOK, StoreTypeOK, Disconnect
    <2>4. pc' \in [Proc -> Label] /\ Aimed'
        BY <1>4, LabelType DEF LocalTypeOK, Disconnect
    <2> QED
        BY <2>1, <2>2, <2>3, <2>4
<1>5. CASE Reconnect
    BY <1>5, LabelType
    DEF MemoryTypeOK, LockTypeOK, DropTypeOK, LocalTypeOK, HistoryTypeOK, StoreTypeOK, Reconnect
<1>6. CASE \E p \in Proc, x \in Drops : PublishToDead(p, x)
    <2> PICK p \in Proc, x \in Drops : PublishToDead(p, x)
        BY <1>6
    <2>1. MemoryTypeOK' /\ DropTypeOK' /\ HistoryTypeOK'
        BY <1>6 DEF MemoryTypeOK, DropTypeOK, HistoryTypeOK, PublishToDead
    <2>2. LockTypeOK'
        BY <1>6, JoinType DEF LockTypeOK, PublishToDead
    <2>3. LocalTypeOK'
        BY <1>6, NotifyType DEF LocalTypeOK, PublishToDead
    <2>4. pc' \in [Proc -> Label] /\ Aimed'
        BY <1>6, LabelType DEF LocalTypeOK, PublishToDead, MayPublish
    <2> QED
        BY <2>1, <2>2, <2>3, <2>4
<1>7. CASE \E r \in Requests : PassTime(r)
    BY <1>7, LabelType
    DEF MemoryTypeOK, LockTypeOK, DropTypeOK, LocalTypeOK, HistoryTypeOK, StoreTypeOK, PassTime
<1>8. CASE List
    BY <1>8, LabelType
    DEF MemoryTypeOK, LockTypeOK, DropTypeOK, LocalTypeOK, HistoryTypeOK, StoreTypeOK, List
<1>9. CASE Restart
    <2>1. MemoryTypeOK'
        BY <1>9 DEF MemoryTypeOK, Restart, LoseMemory
    <2>2. DropTypeOK'
        BY <1>9 DEF DropTypeOK, Restart, LoseMemory
    <2>3. HistoryTypeOK'
        BY <1>9 DEF HistoryTypeOK, Restart, LoseMemory
    <2>4. LockTypeOK'
        BY <1>9, FreeType DEF LockTypeOK, Restart, LoseMemory
    <2>5. LocalTypeOK'
        BY <1>9 DEF LocalTypeOK, StoreTypeOK, Restart, LoseMemory
    <2>6. pc' \in [Proc -> Label] /\ Aimed'
        BY <1>9, LabelType DEF LocalTypeOK, Restart, LoseMemory
    <2> QED
        BY <2>1, <2>2, <2>3, <2>4, <2>5, <2>6
<1>10. CASE \E r \in Requests : CallerCancelled(r)
    <2> PICK r \in Requests : CallerCancelled(r)
        BY <1>10
    <2>1. MemoryTypeOK' /\ DropTypeOK' /\ HistoryTypeOK' /\ LocalTypeOK'
        BY DEF MemoryTypeOK, DropTypeOK, HistoryTypeOK, LocalTypeOK, StoreTypeOK, CallerCancelled
    <2>2. LockTypeOK'
        BY LeaveType DEF LockTypeOK, CallerCancelled
    <2>3. pc[Req(r)] # "idle" /\ \E label \in {"late", "done"} : pc' = [pc EXCEPT ![Req(r)] = label]
        BY DEF CallerCancelled
    <2>4. pc' \in [Proc -> Label]
        BY <2>3 DEF Label
    <2>5. Aimed'
        BY <2>3 DEF CallerCancelled
    <2> QED
        BY <2>1, <2>2, <2>4, <2>5
<1> HIDE DEF TypeOK, Aimed
<1> QED
    BY <1>1, <1>2, <1>3, <1>4, <1>5, <1>6, <1>7, <1>8, <1>9, <1>10, Zenon DEF Environment

-----------------------------------------------------------------------------
(* The tables change by transactions of ToolStore only, so what ToolStore  *)
(* guarantees the service guarantees.                                      *)

\* What steps of request() do to the tables.
LEMMA RequestStore ==
    ASSUME Grounded, NEW r \in Requests, RequestStep(r)
    PROVE  [StoreNext]_storeVars
<1> USE Transactions DEF Grounded, TypeOK, Aimed, At, Working
<1>1. CASE CommitRequest(r)
    BY <1>1 DEF CommitRequest, StoreNext
<1>2. CASE
        \/ QueueExecution(r)
        \/ RereadRequest(r)
        \/ ExecuteRequest(r)
        \/ TrackConfirmation(r)
        \/ FailNewRequest(r)
    BY <1>2
    DEF storeVars, QueueExecution, RereadRequest, ExecuteRequest, TrackConfirmation,
        FailNewRequest
<1> QED
    BY <1>1, <1>2, Zenon DEF RequestStep

\* What steps of wait_for_terminal() do to the tables.
LEMMA WaitStore ==
    ASSUME Grounded, NEW r \in Requests, WaitStep(r)
    PROVE  [StoreNext]_storeVars
<1> USE Transactions DEF Grounded, TypeOK, Aimed, At, Working
<1>1. CASE WaitExpire(r)
    BY <1>1 DEF WaitExpire
<1>2. CASE WaitFail(r)
    BY <1>2 DEF WaitFail, ErrorCode
<1>3. CASE
        \/ WaitStart(r)
        \/ WaitRead(r)
        \/ WaitResolved(r)
        \/ WaitExpired(r)
        \/ WaitTimeout(r)
        \/ WaitFailed(r)
    BY <1>3
    DEF storeVars, WaitStart, WaitRead, WaitResolved, WaitExpired, WaitTimeout, WaitFailed
<1> QED
    BY <1>1, <1>2, <1>3, Zenon DEF WaitStep

\* What steps of supervisors do to the tables.
LEMMA SupStore ==
    ASSUME Grounded, NEW r \in Requests, SupStep(r)
    PROVE  [StoreNext]_storeVars
<1> USE Transactions DEF Grounded, TypeOK, Aimed, At, Working
<1>1. CASE CommitSuccess(r)
    BY <1>1 DEF CommitSuccess
<1>2. CASE CommitFailure(r)
    BY <1>2 DEF CommitFailure, ErrorCode, FailureCode
<1>3. CASE
        \/ SupStart(r)
        \/ SupLock(r)
        \/ SupCheck(r)
        \/ SupChecked(r)
        \/ SupFailed(r)
        \/ HandlerEnds(r)
        \/ SupTimeout(r)
        \/ SupSettle(r)
        \/ SupReleased(r)
        \/ SupCancelled(r)
        \/ SupReread(r)
        \/ SupAborts(r)
    BY <1>3
    DEF storeVars, SupStart, SupLock, SupCheck, SupChecked, SupFailed, HandlerEnds, SupTimeout,
        SupSettle, SupReleased, SupCancelled, SupReread, SupAborts
<1> QED
    BY <1>1, <1>2, <1>3, Zenon DEF SupStep

\* What steps of decide() do to the tables.
LEMMA DecideStore ==
    ASSUME Grounded, NEW d \in Deciders, DecideStep(d)
    PROVE  [StoreNext]_storeVars
<1> USE Transactions DEF Grounded, TypeOK, Aimed, At, Working
<1>1. CASE DecideClaim(d)
    <2> DEFINE r == target[Dec(d)]
    <2>1. r \in Requests
        BY <1>1, ProcType, ProcParts DEF DecideClaim
    <2>2. ClaimDecision(r, Choice(d), r \in due)
        BY <1>1 DEF DecideClaim
    <2>3. Choice(d) \in {"approve", "reject"} /\ (r \in due) \in BOOLEAN
        BY DEF Choice
    <2> HIDE DEF r
    <2> QED
        BY <2>1, <2>2, <2>3
<1>2. CASE DecideNoContext(d)
    BY <1>2, ProcType, ProcParts DEF DecideNoContext, ErrorCode
<1>3. CASE DecideStart(d)
    BY <1>3, ProcType, ProcParts DEF DecideStart
<1>4. CASE
        \/ DecideLock(d)
        \/ DecideRefused(d)
        \/ DecideApproved(d)
        \/ DecideReread(d)
        \/ DecideRechecked(d)
        \/ DecideStarted(d)
    BY <1>4
    DEF storeVars, DecideLock, DecideRefused, DecideApproved, DecideReread, DecideRechecked,
        DecideStarted
<1> QED
    BY <1>1, <1>2, <1>3, <1>4, Zenon DEF DecideStep

\* What steps of cancel() do to the tables.
LEMMA CancelStore ==
    ASSUME Grounded, NEW c \in Cancellers, CancelStep(c)
    PROVE  [StoreNext]_storeVars
<1> USE Transactions DEF Grounded, TypeOK, Aimed, At, Working
<1>1. CASE CancelCommit(c)
    BY <1>1, ProcType, ProcParts DEF CancelCommit
<1>2. CASE CancelResume(c)
    BY <1>2 DEF storeVars, CancelResume
<1> QED
    BY <1>1, <1>2, Zenon DEF CancelStep

\* What steps of disconnects do to the tables.
LEMMA DropStore ==
    ASSUME Grounded, NEW x \in Drops, DropStep(x)
    PROVE  [StoreNext]_storeVars
<1> USE Transactions DEF Grounded, TypeOK, Aimed, At, Working
<1>1. CASE
        \/ DropBump(x)
        \/ \E r \in Requests : DropNext(x, r)
        \/ DropEnd(x)
    BY <1>1 DEF storeVars, DropBump, DropNext, DropEnd
<1> QED
    BY <1>1, Zenon DEF DropStep

\* What steps of the shared failure and publication do to the tables.
LEMMA SharedStore ==
    ASSUME Grounded, NEW p \in Proc, SharedStep(p)
    PROVE  [StoreNext]_storeVars
<1> USE Transactions DEF Grounded, TypeOK, Aimed, At, Working
<1>1. CASE FailCancel(p)
    BY <1>1 DEF FailCancel
<1>2. CASE FailMark(p)
    BY <1>2 DEF FailMark
<1>3. CASE
        \/ FailDone(p)
        \/ Publish(p)
        \/ \E x \in Drops : PublishReturns(p, x)
    BY <1>3 DEF storeVars, FailDone, Publish, PublishReturns
<1> QED
    BY <1>1, <1>2, <1>3, Zenon DEF SharedStep

\* What steps of callers, clients, clock and restart do to the tables.
LEMMA EnvironmentStore ==
    ASSUME Grounded, Environment
    PROVE  [StoreNext]_storeVars
<1> USE Transactions DEF Grounded, TypeOK, Aimed, At, Working
<1>1. CASE \E r \in Requests : PassTime(r)
    BY <1>1 DEF PassTime, StoreNext
<1>2. CASE List
    BY <1>2 DEF List, StoreNext
<1>3. CASE
        \/ \E r \in Requests : Request(r)
        \/ \E r \in Requests : CallerCancelled(r)
        \/ \E d \in Deciders, r \in Requests : Decide(d, r)
        \/ \E c \in Cancellers, r \in Requests : Cancel(c, r)
        \/ \E x \in Drops : Disconnect(x)
        \/ Reconnect
        \/ \E p \in Proc, x \in Drops : PublishToDead(p, x)
        \/ Restart
    BY <1>3
    DEF storeVars, Request, CallerCancelled, Decide, Cancel, Disconnect, Reconnect, PublishToDead, Restart
<1> QED
    BY <1>1, <1>2, <1>3, Zenon DEF Environment

\* Every step of the service is a transaction of the tables or leaves them alone.
LEMMA StoreRefined == Grounded /\ [Next]_vars => [StoreNext]_storeVars
<1>1. Grounded /\ Service => [StoreNext]_storeVars
    BY RequestStore, WaitStore, SupStore, DecideStore, CancelStore, DropStore, SharedStore
    DEF Service
<1>2. Grounded /\ (Quiescent \/ UNCHANGED vars) => [StoreNext]_storeVars
    BY DEF Quiescent, vars
<1> QED
    BY <1>1, <1>2, EnvironmentStore DEF Next

\* No step of the service breaks the ground invariant.
LEMMA GroundedStep == Grounded /\ [Next]_vars => Grounded'
<1> SUFFICES ASSUME Grounded, [Next]_vars PROVE Grounded'
    OBVIOUS
<1>1. StoreTypeOK' /\ RowsAgree'
    BY StoreRefined, StoreTypeStep, RowsStep DEF Grounded, TypeOK
<1>2. CASE Service
    BY <1>1, <1>2, RequestTypes, WaitTypes, SupTypes, DecideTypes, CancelTypes, DropTypes,
       SharedTypes, Zenon
    DEF Service, Grounded
<1>3. CASE Environment
    BY <1>1, <1>3, EnvironmentTypes DEF Grounded
<1>4. CASE UNCHANGED vars
    BY <1>1, <1>4
    DEF Grounded, TypeOK, Aimed, vars, storeVars, memoryVars, lockVars, dropVars, localVars,
        historyVars, MemoryTypeOK, LockTypeOK, DropTypeOK, LocalTypeOK, HistoryTypeOK, Working
<1> QED
    BY <1>2, <1>3, <1>4 DEF Next, Quiescent

\* The ground invariant holds in every state of the service.
LEMMA AlwaysGrounded == Spec => []Grounded
BY GroundedInit, GroundedStep, PTL DEF Spec

\* The type invariant of the service.
THEOREM Types == Spec => []TypeOK
<1>1. Grounded => TypeOK
    BY DEF Grounded
<1> QED
    BY <1>1, AlwaysGrounded, PTL

\* The service is a client of the tables that ToolStore describes.
THEOREM UsesStore == Spec => StoreSpec
<1>1. Init => StoreInit
    BY DEF Init
<1> QED
    BY <1>1, StoreRefined, AlwaysGrounded, PTL DEF Spec, StoreSpec

\* So, whatever calls race in the service, its rows agree with each other and
\* with the audit trail, and no decision or outcome is revised.
THEOREM TablesOfService == Spec => []TablesAgree /\ OutcomesStand
BY UsesStore, TablesAlwaysAgree, OutcomesAlwaysStand, Zenon

-----------------------------------------------------------------------------
(* A handler is called at most once.                                       *)

\* The call of decide() that won the confirmation of its request, until it has
\* handed the request to a supervisor or given it up.
Claims(d) ==
    \/ At(Dec(d), "claimed") /\ seen[Dec(d)] = "running"
    \/ pc[Dec(d)] \in {"recheck", "rechecked", "start", "started"}

\* A request has one supervisor in its life: it is created by the one request()
\* of a low-risk tool or by the one decide() that claimed the confirmation, and
\* it calls the handler only on its way from its creation to "handler".
OneSupervisor(r) ==
    /\ pc[Sup(r)] # "idle" /\ r \in HighRisk => conf[r] = "approved"
    /\ pc[Sup(r)] # "idle" /\ r \notin HighRisk
         => pc[Req(r)] \notin {"idle", "create", "late", "created", "exec_wait", "reread"}
    /\ pc[Req(r)] \in {"exec_wait", "reread"} => r \notin HighRisk
    /\ pc[Req(r)] = "late" => r \in Abandonable

OneRun(r) ==
    /\ runs[r] <= 1
    /\ pc[Sup(r)] \in {"idle", "new", "conf_wait", "exec_wait", "checked"} => runs[r] = 0
    /\ pc[Sup(r)] \in {"handler", "succeed"} => runs[r] = 1
    /\ req[r] = "succeeded" => runs[r] = 1

OneClaim ==
    /\ \A d \in Deciders :
         Claims(d) => conf[target[Dec(d)]] = "approved" /\ pc[Sup(target[Dec(d)])] = "idle"
    /\ \A d, e \in Deciders :
         Claims(d) /\ Claims(e) /\ target[Dec(d)] = target[Dec(e)] => d = e

Once == OneClaim /\ \A r \in Requests : OneSupervisor(r) /\ OneRun(r)

\* Nothing has run at the start.
LEMMA OnceInit == Init => Once
BY ProcType, ProcParts
DEF Init, StoreInit, Once, OneClaim, OneSupervisor, OneRun, Claims, At

\* Processes of different kinds, or of different calls, are different.
LEMMA ProcDistinct ==
    /\ \A q, r : Sup(q) # Req(r) /\ Sup(q) # Wait(r) /\ Req(q) # Wait(r)
    /\ \A q, d : Sup(q) # Dec(d) /\ Req(q) # Dec(d) /\ Sup(q) # Can(d) /\ Req(q) # Can(d)
                 /\ Sup(q) # Drop(d) /\ Req(q) # Drop(d)
    /\ \A d, q : Dec(d) # Wait(q) /\ Dec(d) # Can(q) /\ Dec(d) # Drop(q)
    /\ \A q, r : (Sup(q) = Sup(r) => q = r) /\ (Req(q) = Req(r) => q = r)
                 /\ (Dec(q) = Dec(r) => q = r)
BY DEF Req, Sup, Wait, Dec, Can, Drop

\* A step that leaves the claim of d as it is, if d has one after it.
Steady(d) ==
    Claims(d)' => /\ Claims(d) /\ target'[Dec(d)] = target[Dec(d)]
                  /\ pc'[Sup(target[Dec(d)])] = "idle"

\* If no step makes or disturbs a claim, claims stay unique.
LEMMA ClaimKept ==
    ASSUME Grounded, OneClaim, \A q \in Requests : Stands(q), \A d \in Deciders : Steady(d)
    PROVE  OneClaim'
BY ProcType, ProcParts DEF Grounded, Aimed, Working, At, Claims, Steady, Stands, OneClaim

\* A step of neither requester nor supervisor that starts no handler and makes no claim.
Quiet ==
    /\ runs' = runs
    /\ \A q \in Requests : /\ pc'[Sup(q)] = pc[Sup(q)] /\ pc'[Req(q)] = pc[Req(q)]
                           /\ req'[q] = "succeeded" => req[q] = "succeeded"
    /\ \A d \in Deciders : Claims(d)' => Claims(d) /\ target'[Dec(d)] = target[Dec(d)]

\* Quiet steps preserve the invariant.
LEMMA QuietStep ==
    ASSUME Grounded, Once, \A q \in Requests : Stands(q), Quiet
    PROVE  Once'
<1>1. ASSUME NEW d \in Deciders PROVE Steady(d)
    BY ProcType, ProcParts
    DEF Grounded, Aimed, Working, At, Claims, Steady, Once, OneClaim, Quiet
<1>2. OneClaim'
    BY <1>1, ClaimKept DEF Once
<1>3. ASSUME NEW q \in Requests PROVE OneSupervisor(q)' /\ OneRun(q)'
    BY DEF Once, OneSupervisor, OneRun, Quiet, Stands
<1> QED
    BY <1>2, <1>3 DEF Once

\* A row becomes succeeded by the success of its supervisor only.
LEMMA SuccessOnly ==
    ASSUME StoreTypeOK, NEW r, NEW q \in Requests
    PROVE  /\ CancelRequest(r) \/ MarkUnavailable(r) \/ StartExecution(r)
                => (req'[q] = "succeeded" => req[q] = "succeeded")
           /\ \A e : Fail(r, e) => (req'[q] = "succeeded" => req[q] = "succeeded")
           /\ \A d, late : ClaimDecision(r, d, late)
                => (req'[q] = "succeeded" => req[q] = "succeeded")
           /\ CreateRequest(r) \/ CreateConfirmation(r) \/ PassDeadline(r)
                \/ ListPendingConfirmations
                => (req'[q] = "succeeded" => req[q] = "succeeded")
           /\ Succeed(r) => (req'[q] = "succeeded" => req[q] = "succeeded" \/ q = r)
BY DEF CancelRequest, MarkUnavailable, StartExecution, Fail, Succeed, TransitionRequest,
       ClaimDecision, Verdict, CreateRequest, CreateConfirmation, PassDeadline,
       ListPendingConfirmations, StoreTypeOK, storeVars

\* Steps of request() start no second run.
LEMMA RequestOnce ==
    ASSUME Grounded, Once, (\A q \in Requests : Stands(q)), NEW r \in Requests, RequestStep(r)
    PROVE  Once'
<1> USE ProcType, ProcParts, ProcDistinct, SuccessOnly
        DEF Grounded, TypeOK, LocalTypeOK, Aimed, At, AtSup, Go, See, Working, localVars,
            historyVars, storeVars, Stands, Once
<1>1. CASE CommitRequest(r)
    <2>1. ASSUME NEW q \in Requests PROVE OneSupervisor(q)'
        <3>1. \A k \in Proc : k # Req(r) => pc'[k] = pc[k]
            BY <1>1 DEF CommitRequest
        <3>2. pc[Req(r)] \in {"create", "late"} /\ pc'[Req(r)] \in {"created", "done"}
            BY <1>1 DEF CommitRequest
        <3>3. pc[Sup(r)] # "idle" => r \in HighRisk
            BY <3>2 DEF OneSupervisor
        <3> QED
            BY <3>1, <3>2, <3>3 DEF OneSupervisor
    <2>2. ASSUME NEW q \in Requests PROVE OneRun(q)'
        <3>1. runs' = runs /\ (req'[q] = "succeeded" => req[q] = "succeeded")
            BY <1>1 DEF CommitRequest
        <3>2. pc'[Sup(q)] = pc[Sup(q)] \/ pc'[Sup(q)] \notin {"idle", "new", "conf_wait", "exec_wait",
                                                           "checked", "handler", "succeed"}
            BY <1>1 DEF CommitRequest
        <3> QED
            BY <3>1, <3>2 DEF OneRun
    <2>3. \A e \in Deciders : Steady(e)
        BY <1>1 DEF OneClaim, Claims, CommitRequest, Steady
    <2> QED
        BY <2>1, <2>2, <2>3, ClaimKept
<1>2. CASE QueueExecution(r)
    <2>1. ASSUME NEW q \in Requests PROVE OneSupervisor(q)'
        BY <1>2 DEF OneSupervisor, QueueExecution
    <2>2. ASSUME NEW q \in Requests PROVE OneRun(q)'
        BY <1>2 DEF OneSupervisor, OneRun, HistoryTypeOK, QueueExecution
    <2>3. \A e \in Deciders : Steady(e)
        BY <1>2 DEF OneClaim, Claims, QueueExecution, Steady
    <2> QED
        BY <2>1, <2>2, <2>3, ClaimKept
<1>3. CASE RereadRequest(r)
    <2>1. ASSUME NEW q \in Requests PROVE OneSupervisor(q)'
        BY <1>3 DEF OneSupervisor, RereadRequest
    <2>2. ASSUME NEW q \in Requests PROVE OneRun(q)'
        BY <1>3 DEF OneSupervisor, OneRun, HistoryTypeOK, RereadRequest
    <2>3. \A e \in Deciders : Steady(e)
        BY <1>3 DEF OneClaim, Claims, RereadRequest, Steady
    <2> QED
        BY <2>1, <2>2, <2>3, ClaimKept
<1>4. CASE ExecuteRequest(r)
    <2>1. r \notin HighRisk /\ seen' = seen /\ target' = target
        BY <1>4 DEF OneSupervisor, ExecuteRequest
    <2>2. ASSUME NEW q \in Requests PROVE OneSupervisor(q)'
        BY <1>4, <2>1 DEF OneSupervisor, ExecuteRequest
    <2>3. ASSUME NEW q \in Requests PROVE OneRun(q)'
        BY <1>4 DEF OneSupervisor, OneRun, HistoryTypeOK, ExecuteRequest
    <2>4. ASSUME NEW e \in Deciders, Claims(e) PROVE target[Dec(e)] \in HighRisk
        BY <2>4 DEF OneClaim, RowsAgree, Claims
    <2>5. ASSUME NEW e \in Deciders PROVE Steady(e)
        BY <1>4, <2>1, <2>4 DEF OneClaim, Claims, ExecuteRequest, Steady
    <2> QED
        BY <2>2, <2>3, <2>5, ClaimKept
<1>5. CASE TrackConfirmation(r)
    <2>1. ASSUME NEW q \in Requests PROVE OneSupervisor(q)'
        BY <1>5 DEF OneSupervisor, TrackConfirmation
    <2>2. ASSUME NEW q \in Requests PROVE OneRun(q)'
        BY <1>5 DEF OneSupervisor, OneRun, HistoryTypeOK, TrackConfirmation
    <2>3. \A e \in Deciders : Steady(e)
        BY <1>5 DEF OneClaim, Claims, TrackConfirmation, Steady
    <2> QED
        BY <2>1, <2>2, <2>3, ClaimKept
<1>6. CASE FailNewRequest(r)
    <2>1. ASSUME NEW q \in Requests PROVE OneSupervisor(q)'
        BY <1>6 DEF OneSupervisor, FailNewRequest
    <2>2. ASSUME NEW q \in Requests PROVE OneRun(q)'
        BY <1>6 DEF OneSupervisor, OneRun, HistoryTypeOK, FailNewRequest
    <2>3. \A e \in Deciders : Steady(e)
        BY <1>6 DEF OneClaim, Claims, FailNewRequest, Steady
    <2> QED
        BY <2>1, <2>2, <2>3, ClaimKept
<1> HIDE DEF Once
<1> QED
    BY <1>1, <1>2, <1>3, <1>4, <1>5, <1>6, Zenon DEF RequestStep

\* Steps of wait_for_terminal() start no second run.
LEMMA WaitOnce ==
    ASSUME Grounded, Once, (\A q \in Requests : Stands(q)), NEW r \in Requests, WaitStep(r)
    PROVE  Once'
<1> USE ProcType, ProcParts, ProcDistinct, SuccessOnly
        DEF Grounded, TypeOK, LocalTypeOK, Aimed, At, AtSup, Go, See, Working, localVars,
            historyVars, storeVars, Stands, Once
<1>1. CASE WaitStart(r)
    BY <1>1, QuietStep DEF Quiet, Claims, WaitStart
<1>2. CASE WaitRead(r)
    BY <1>2, QuietStep DEF Quiet, Claims, WaitRead
<1>3. CASE WaitResolved(r)
    BY <1>3, QuietStep DEF Quiet, Claims, WaitResolved
<1>4. CASE WaitExpire(r)
    <2>1. \A q \in Requests : req'[q] = "succeeded" => req[q] = "succeeded"
        BY <1>4 DEF WaitExpire
    <2>2. Quiet
        BY <1>4, <2>1 DEF Quiet, Claims, WaitExpire
    <2> QED
        BY <2>2, QuietStep
<1>5. CASE WaitExpired(r)
    BY <1>5, QuietStep DEF Quiet, Claims, WaitExpired
<1>6. CASE WaitTimeout(r)
    BY <1>6, QuietStep DEF Quiet, Claims, WaitTimeout
<1>7. CASE WaitFail(r)
    <2>1. \A q \in Requests : req'[q] = "succeeded" => req[q] = "succeeded"
        BY <1>7 DEF WaitFail
    <2>2. Quiet
        BY <1>7, <2>1 DEF Quiet, Claims, WaitFail
    <2> QED
        BY <2>2, QuietStep
<1>8. CASE WaitFailed(r)
    BY <1>8, QuietStep DEF Quiet, Claims, WaitFailed
<1> HIDE DEF Once
<1> QED
    BY <1>1, <1>2, <1>3, <1>4, <1>5, <1>6, <1>7, <1>8, Zenon DEF WaitStep

\* Steps of supervisors start no second run.
LEMMA SupOnce ==
    ASSUME Grounded, Once, (\A q \in Requests : Stands(q)), NEW r \in Requests, SupStep(r)
    PROVE  Once'
<1> USE ProcType, ProcParts, ProcDistinct, SuccessOnly
        DEF Grounded, TypeOK, LocalTypeOK, Aimed, At, AtSup, Go, See, Working, localVars,
            historyVars, storeVars, Stands, Once
<1>1. CASE SupStart(r)
    <2>1. ASSUME NEW q \in Requests PROVE OneSupervisor(q)'
        BY <1>1 DEF OneSupervisor, SupStart, RunHandler
    <2>2. ASSUME NEW q \in Requests PROVE OneRun(q)'
        BY <1>1 DEF OneSupervisor, OneRun, HistoryTypeOK, SupStart, RunHandler
    <2>3. \A e \in Deciders : Steady(e)
        BY <1>1 DEF OneClaim, Claims, SupStart, RunHandler, Steady
    <2> QED
        BY <2>1, <2>2, <2>3, ClaimKept
<1>2. CASE SupLock(r)
    <2>1. ASSUME NEW q \in Requests PROVE OneSupervisor(q)'
        BY <1>2 DEF OneSupervisor, SupLock
    <2>2. ASSUME NEW q \in Requests PROVE OneRun(q)'
        BY <1>2 DEF OneSupervisor, OneRun, HistoryTypeOK, SupLock
    <2>3. \A e \in Deciders : Steady(e)
        BY <1>2 DEF OneClaim, Claims, SupLock, Steady
    <2> QED
        BY <2>1, <2>2, <2>3, ClaimKept
<1>3. CASE SupCheck(r)
    <2>1. ASSUME NEW q \in Requests PROVE OneSupervisor(q)'
        BY <1>3 DEF OneSupervisor, SupCheck
    <2>2. ASSUME NEW q \in Requests PROVE OneRun(q)'
        BY <1>3 DEF OneSupervisor, OneRun, HistoryTypeOK, SupCheck
    <2>3. \A e \in Deciders : Steady(e)
        BY <1>3 DEF OneClaim, Claims, SupCheck, Steady
    <2> QED
        BY <2>1, <2>2, <2>3, ClaimKept
<1>4. CASE SupChecked(r)
    <2>1. ASSUME NEW q \in Requests PROVE OneSupervisor(q)'
        BY <1>4 DEF OneSupervisor, SupChecked, RunHandler
    <2>2. ASSUME NEW q \in Requests PROVE OneRun(q)'
        BY <1>4
        DEF OneSupervisor, OneRun, HistoryTypeOK, SupChecked, RunHandler
    <2>3. \A e \in Deciders : Steady(e)
        BY <1>4 DEF OneClaim, Claims, SupChecked, RunHandler, Steady
    <2> QED
        BY <2>1, <2>2, <2>3, ClaimKept
<1>5. CASE SupFailed(r)
    <2>1. ASSUME NEW q \in Requests PROVE OneSupervisor(q)'
        BY <1>5 DEF OneSupervisor, SupFailed
    <2>2. ASSUME NEW q \in Requests PROVE OneRun(q)'
        BY <1>5 DEF OneSupervisor, OneRun, HistoryTypeOK, SupFailed
    <2>3. \A e \in Deciders : Steady(e)
        BY <1>5 DEF OneClaim, Claims, SupFailed, Steady
    <2> QED
        BY <2>1, <2>2, <2>3, ClaimKept
<1>6. CASE HandlerEnds(r)
    <2>1. ASSUME NEW q \in Requests PROVE OneSupervisor(q)'
        BY <1>6 DEF OneSupervisor, HandlerEnds
    <2>2. ASSUME NEW q \in Requests PROVE OneRun(q)'
        BY <1>6 DEF OneSupervisor, OneRun, HistoryTypeOK, HandlerEnds
    <2>3. \A e \in Deciders : Steady(e)
        BY <1>6 DEF OneClaim, Claims, HandlerEnds, Steady
    <2> QED
        BY <2>1, <2>2, <2>3, ClaimKept
<1>7. CASE SupTimeout(r)
    <2>1. ASSUME NEW q \in Requests PROVE OneSupervisor(q)'
        BY <1>7 DEF OneSupervisor, SupTimeout, Interruptible
    <2>2. ASSUME NEW q \in Requests PROVE OneRun(q)'
        BY <1>7
        DEF OneSupervisor, OneRun, HistoryTypeOK, SupTimeout, Interruptible
    <2>3. \A e \in Deciders : Steady(e)
        BY <1>7 DEF OneClaim, Claims, SupTimeout, Interruptible, Steady
    <2> QED
        BY <2>1, <2>2, <2>3, ClaimKept
<1>8. CASE CommitSuccess(r)
    <2>1. ASSUME NEW q \in Requests PROVE OneSupervisor(q)'
        BY <1>8 DEF OneSupervisor, CommitSuccess
    <2>2. ASSUME NEW q \in Requests PROVE OneRun(q)'
        <3>1. req'[q] = "succeeded" => req[q] = "succeeded" \/ q = r
            BY <1>8 DEF CommitSuccess
        <3>2. runs' = runs
            BY <1>8 DEF CommitSuccess
        <3> QED
            BY <1>8, <3>1, <3>2 DEF OneRun, CommitSuccess
    <2>3. \A e \in Deciders : Steady(e)
        BY <1>8 DEF OneClaim, Claims, CommitSuccess, Steady
    <2> QED
        BY <2>1, <2>2, <2>3, ClaimKept
<1>9. CASE CommitFailure(r)
    <2>1. ASSUME NEW q \in Requests PROVE OneSupervisor(q)'
        BY <1>9 DEF OneSupervisor, CommitFailure, FailureCode
    <2>2. ASSUME NEW q \in Requests PROVE OneRun(q)'
        <3>1. req'[q] = "succeeded" => req[q] = "succeeded"
            BY <1>9 DEF CommitFailure
        <3>2. runs' = runs
            BY <1>9 DEF CommitFailure
        <3> QED
            BY <1>9, <3>1, <3>2 DEF OneRun, CommitFailure
    <2>3. \A e \in Deciders : Steady(e)
        BY <1>9 DEF OneClaim, Claims, CommitFailure, FailureCode, Steady
    <2> QED
        BY <2>1, <2>2, <2>3, ClaimKept
<1>10. CASE SupSettle(r)
    <2>1. ASSUME NEW q \in Requests PROVE OneSupervisor(q)'
        BY <1>10 DEF OneSupervisor, SupSettle
    <2>2. ASSUME NEW q \in Requests PROVE OneRun(q)'
        BY <1>10 DEF OneSupervisor, OneRun, HistoryTypeOK, SupSettle
    <2>3. \A e \in Deciders : Steady(e)
        BY <1>10 DEF OneClaim, Claims, SupSettle, Steady
    <2> QED
        BY <2>1, <2>2, <2>3, ClaimKept
<1>11. CASE SupReleased(r)
    <2>1. ASSUME NEW q \in Requests PROVE OneSupervisor(q)'
        BY <1>11 DEF OneSupervisor, SupReleased
    <2>2. ASSUME NEW q \in Requests PROVE OneRun(q)'
        BY <1>11 DEF OneSupervisor, OneRun, HistoryTypeOK, SupReleased
    <2>3. \A e \in Deciders : Steady(e)
        BY <1>11 DEF OneClaim, Claims, SupReleased, Steady
    <2> QED
        BY <2>1, <2>2, <2>3, ClaimKept
<1>12. CASE SupCancelled(r)
    <2>1. ASSUME NEW q \in Requests PROVE OneSupervisor(q)'
        BY <1>12 DEF OneSupervisor, SupCancelled, Interruptible
    <2>2. ASSUME NEW q \in Requests PROVE OneRun(q)'
        BY <1>12
        DEF OneSupervisor, OneRun, HistoryTypeOK, SupCancelled, Interruptible
    <2>3. \A e \in Deciders : Steady(e)
        BY <1>12 DEF OneClaim, Claims, SupCancelled, Interruptible, Steady
    <2> QED
        BY <2>1, <2>2, <2>3, ClaimKept
<1>13. CASE SupReread(r)
    <2>1. ASSUME NEW q \in Requests PROVE OneSupervisor(q)'
        BY <1>13 DEF OneSupervisor, SupReread
    <2>2. ASSUME NEW q \in Requests PROVE OneRun(q)'
        BY <1>13 DEF OneSupervisor, OneRun, HistoryTypeOK, SupReread
    <2>3. \A e \in Deciders : Steady(e)
        BY <1>13 DEF OneClaim, Claims, SupReread, Steady
    <2> QED
        BY <2>1, <2>2, <2>3, ClaimKept
<1>14. CASE SupAborts(r)
    <2>1. UNCHANGED <<req, conf, runs, target, seen>>
        BY <1>14 DEF SupAborts
    <2>2. /\ pc[Sup(r)] = "publishing"
          /\ \A q \in Proc : /\ pc'[q] \in {pc[q], "done"}
                             /\ q # Sup(r) /\ q[1] # "drop" => pc'[q] = pc[q]
        BY <1>14, AbortEnds, Zenon
    <2>3. ASSUME NEW q \in Requests PROVE OneSupervisor(q)' /\ OneRun(q)'
        BY <2>1, <2>2 DEF OneSupervisor, OneRun
    <2>4. ASSUME NEW e \in Deciders PROVE pc'[Dec(e)] = pc[Dec(e)]
        BY <2>2
    <2>5. ASSUME NEW e \in Deciders, Claims(e)' PROVE pc'[Sup(target[Dec(e)])] = "idle"
        <3>1. Claims(e) /\ target[Dec(e)] \in Requests
            BY <2>1, <2>4, <2>5 DEF Claims
        <3> QED
            BY <2>2, <3>1 DEF OneClaim
    <2>6. \A e \in Deciders : Steady(e)
        BY <2>1, <2>4, <2>5 DEF Claims, Steady
    <2> QED
        BY <2>3, <2>6, ClaimKept
<1> HIDE DEF Once
<1> QED
    BY <1>1, <1>2, <1>3, <1>4, <1>5, <1>6, <1>7, <1>8, <1>9, <1>10, <1>11, <1>12, <1>13, <1>14,
       Zenon
    DEF SupStep

\* Steps of decide() start no second run.
LEMMA DecideOnce ==
    ASSUME Grounded, Once, (\A q \in Requests : Stands(q)), NEW d \in Deciders, DecideStep(d)
    PROVE  Once'
<1> USE ProcType, ProcParts, ProcDistinct, SuccessOnly
        DEF Grounded, TypeOK, LocalTypeOK, Aimed, At, AtSup, Go, See, Working, localVars,
            historyVars, storeVars, Stands, Once
<1>1. CASE DecideLock(d)
    BY <1>1, QuietStep DEF Quiet, Claims, DecideLock
<1>2. CASE DecideClaim(d)
    <2> DEFINE r == target[Dec(d)]
    <2>3. r \in Requests /\ target' = target /\ pc' = [pc EXCEPT ![Dec(d)] = "claimed"]
        BY <1>2 DEF DecideClaim
    <2>a. \A q \in Requests : req'[q] = "succeeded" => req[q] = "succeeded"
        BY <1>2 DEF DecideClaim
    <2>b. runs' = runs
        BY <1>2 DEF DecideClaim
    <2>c. \A q \in Requests : pc'[Sup(q)] = pc[Sup(q)] /\ pc'[Req(q)] = pc[Req(q)]
        BY <2>3
    <2>1. ASSUME NEW q \in Requests PROVE OneSupervisor(q)'
        BY <2>c DEF OneSupervisor
    <2>2. ASSUME NEW q \in Requests PROVE OneRun(q)'
        BY <2>a, <2>b, <2>c DEF OneRun
    <2>4. CASE conf[r] = "pending" /\ seen'[Dec(d)] = "running"
        <3>1. conf'[r] = "approved"
            BY <1>2, <2>3, <2>4, StateType
            DEF DecideClaim, ClaimDecision, Verdict, StoreTypeOK, Choice
        <3>2. pc[Sup(r)] = "idle"
            BY <2>3, <2>4 DEF OneSupervisor, RowsAgree
        <3>3. ASSUME NEW e \in Deciders, e # d, Claims(e)' PROVE Claims(e) /\ target[Dec(e)] # r
            BY <1>2, <2>3, <2>4, <3>3 DEF OneClaim, Claims, DecideClaim
        <3>4. ASSUME NEW e \in Deciders, Claims(e)'
              PROVE  conf'[target'[Dec(e)]] = "approved" /\ pc'[Sup(target'[Dec(e)])] = "idle"
            <4>1. CASE e = d
                BY <2>3, <3>1, <3>2, <4>1
            <4>2. CASE e # d
                <5>1. Claims(e) /\ target[Dec(e)] \in Requests
                    BY <3>3, <3>4, <4>2 DEF Claims
                <5> QED
                    BY <2>3, <5>1 DEF OneClaim
            <4> QED
                BY <4>1, <4>2
        <3>5. ASSUME NEW e \in Deciders, NEW f \in Deciders, Claims(e)', Claims(f)',
                     target'[Dec(e)] = target'[Dec(f)]
              PROVE  e = f
            BY <2>3, <3>3, <3>5 DEF OneClaim
        <3> QED
            BY <2>1, <2>2, <3>4, <3>5 DEF OneClaim, Claims
    <2>5. CASE ~(conf[r] = "pending" /\ seen'[Dec(d)] = "running")
        <3>1. seen'[Dec(d)] # "running"
            BY <1>2, <2>5 DEF DecideClaim
        <3>2. seen' = [seen EXCEPT ![Dec(d)] = seen'[Dec(d)]]
            BY <1>2 DEF DecideClaim
        <3>3. ASSUME NEW e \in Deciders PROVE Steady(e)
            BY <2>3, <3>1, <3>2 DEF OneClaim, Claims, Steady
        <3> QED
            BY <2>1, <2>2, <3>3, ClaimKept
    <2> QED
        BY <2>1, <2>2, <2>4, <2>5
<1>3. CASE DecideRefused(d)
    BY <1>3, QuietStep DEF Quiet, Claims, DecideRefused
<1>4. CASE DecideApproved(d)
    BY <1>4, QuietStep DEF Quiet, Claims, DecideApproved
<1>5. CASE DecideReread(d)
    BY <1>5, QuietStep DEF Quiet, Claims, DecideReread
<1>6. CASE DecideRechecked(d)
    BY <1>6, QuietStep DEF Quiet, Claims, DecideRechecked
<1>7. CASE DecideNoContext(d)
    <2>1. \A q \in Requests : req'[q] = "succeeded" => req[q] = "succeeded"
        BY <1>7 DEF DecideNoContext
    <2>2. Quiet
        BY <1>7, <2>1 DEF Quiet, Claims, DecideNoContext
    <2> QED
        BY <2>2, QuietStep
<1>8. CASE DecideStart(d)
    <2>1. \A q \in Requests : req'[q] = "succeeded" => req[q] = "succeeded"
        BY <1>8 DEF DecideStart
    <2>2. Quiet
        BY <1>8, <2>1 DEF Quiet, Claims, DecideStart
    <2> QED
        BY <2>2, QuietStep
<1>9. CASE DecideStarted(d)
    <2> DEFINE r == target[Dec(d)]
    <2>1. r \in HighRisk /\ conf[r] = "approved" /\ pc[Sup(r)] = "idle" /\ r \in Requests
        BY <1>9 DEF OneClaim, Claims, RowsAgree, DecideStarted
    <2>2. \/ pc' = [pc EXCEPT ![Dec(d)] = "publish"]
          \/ pc' = [pc EXCEPT ![Dec(d)] = "fail_cancel"]
          \/ pc' = [pc EXCEPT ![Dec(d)] = "publish", ![Sup(r)] = "new"]
        BY <1>9 DEF DecideStarted
    <2>3. conf' = conf /\ req' = req /\ runs' = runs /\ seen' = seen /\ target' = target
        BY <1>9 DEF DecideStarted
    <2> HIDE DEF r
    <2>4. ASSUME NEW q \in Requests PROVE OneSupervisor(q)'
        BY <2>1, <2>2, <2>3 DEF OneSupervisor
    <2>5. ASSUME NEW q \in Requests PROVE OneRun(q)'
        BY <2>1, <2>2, <2>3 DEF OneRun
    <2>6. \A e \in Deciders : Steady(e)
        BY <1>9 DEF OneClaim, Claims, DecideStarted, Steady
    <2> QED
        BY <2>4, <2>5, <2>6, ClaimKept
<1> HIDE DEF Once
<1> QED
    BY <1>1, <1>2, <1>3, <1>4, <1>5, <1>6, <1>7, <1>8, <1>9, Zenon DEF DecideStep

\* Steps of cancel() start no second run.
LEMMA CancelOnce ==
    ASSUME Grounded, Once, (\A q \in Requests : Stands(q)), NEW c \in Cancellers, CancelStep(c)
    PROVE  Once'
<1> USE ProcType, ProcParts, ProcDistinct, SuccessOnly
        DEF Grounded, TypeOK, LocalTypeOK, Aimed, At, AtSup, Go, See, Working, localVars,
            historyVars, storeVars, Stands, Once
<1>1. CASE CancelCommit(c)
    BY <1>1, QuietStep DEF Quiet, Claims, CancelCommit
<1>2. CASE CancelResume(c)
    BY <1>2, QuietStep DEF Quiet, Claims, CancelResume
<1> HIDE DEF Once
<1> QED
    BY <1>1, <1>2, Zenon DEF CancelStep

\* Steps of disconnects start no second run.
LEMMA DropOnce ==
    ASSUME Grounded, Once, (\A q \in Requests : Stands(q)), NEW x \in Drops, DropStep(x)
    PROVE  Once'
<1> USE ProcType, ProcParts, ProcDistinct, SuccessOnly
        DEF Grounded, TypeOK, LocalTypeOK, Aimed, At, AtSup, Go, See, Working, localVars,
            historyVars, storeVars, Stands, Once
<1>1. CASE DropBump(x)
    BY <1>1, QuietStep DEF Quiet, Claims, DropBump
<1>2. CASE \E r \in Requests : DropNext(x, r)
    BY <1>2, QuietStep DEF Quiet, Claims, DropNext
<1>3. CASE DropEnd(x)
    BY <1>3, QuietStep DEF Quiet, Claims, DropEnd
<1> HIDE DEF Once
<1> QED
    BY <1>1, <1>2, <1>3, Zenon DEF DropStep

\* Steps of the shared failure and publication start no second run.
LEMMA SharedOnce ==
    ASSUME Grounded, Once, (\A q \in Requests : Stands(q)), NEW p \in Proc, SharedStep(p)
    PROVE  Once'
<1> USE ProcType, ProcParts, ProcDistinct, SuccessOnly
        DEF Grounded, TypeOK, LocalTypeOK, Aimed, At, AtSup, Go, See, Working, localVars,
            historyVars, storeVars, Stands, Once
<1>1. CASE FailCancel(p)
    <2>1. ASSUME NEW q \in Requests PROVE OneSupervisor(q)'
        BY <1>1 DEF OneSupervisor, FailCancel
    <2>2. ASSUME NEW q \in Requests PROVE OneRun(q)'
        BY <1>1 DEF OneSupervisor, OneRun, HistoryTypeOK, FailCancel
    <2>3. \A e \in Deciders : Steady(e)
        BY <1>1 DEF OneClaim, Claims, FailCancel, Steady
    <2> QED
        BY <2>1, <2>2, <2>3, ClaimKept
<1>2. CASE FailMark(p)
    <2>1. ASSUME NEW q \in Requests PROVE OneSupervisor(q)'
        BY <1>2 DEF OneSupervisor, FailMark
    <2>2. ASSUME NEW q \in Requests PROVE OneRun(q)'
        <3>1. runs' = runs /\ (req'[q] = "succeeded" => req[q] = "succeeded")
            BY <1>2 DEF FailMark
        <3>2. pc'[Sup(q)] = pc[Sup(q)] \/ pc'[Sup(q)] \notin {"idle", "new", "conf_wait", "exec_wait",
                                                           "checked", "handler", "succeed"}
            BY <1>2 DEF FailMark
        <3> QED
            BY <3>1, <3>2 DEF OneRun
    <2>3. \A e \in Deciders : Steady(e)
        BY <1>2 DEF OneClaim, Claims, FailMark, Steady
    <2> QED
        BY <2>1, <2>2, <2>3, ClaimKept
<1>3. CASE FailDone(p)
    <2>1. ASSUME NEW q \in Requests PROVE OneSupervisor(q)'
        BY <1>3 DEF OneSupervisor, FailDone
    <2>2. ASSUME NEW q \in Requests PROVE OneRun(q)'
        BY <1>3 DEF OneSupervisor, OneRun, HistoryTypeOK, FailDone
    <2>3. \A e \in Deciders : Steady(e)
        BY <1>3 DEF OneClaim, Claims, FailDone, Steady
    <2> QED
        BY <2>1, <2>2, <2>3, ClaimKept
<1>4. CASE Publish(p)
    <2>1. ASSUME NEW q \in Requests PROVE OneSupervisor(q)'
        BY <1>4 DEF OneSupervisor, Publish, MayPublish
    <2>2. ASSUME NEW q \in Requests PROVE OneRun(q)'
        BY <1>4 DEF OneSupervisor, OneRun, HistoryTypeOK, Publish, MayPublish
    <2>3. \A e \in Deciders : Steady(e)
        BY <1>4 DEF OneClaim, Claims, Publish, MayPublish, Steady
    <2> QED
        BY <2>1, <2>2, <2>3, ClaimKept
<1>5. CASE \E x \in Drops : PublishReturns(p, x)
    <2> PICK x \in Drops : PublishReturns(p, x)
        BY <1>5
    <2>1. ASSUME NEW q \in Requests PROVE OneSupervisor(q)'
        BY <1>5 DEF OneSupervisor, PublishReturns
    <2>2. ASSUME NEW q \in Requests PROVE OneRun(q)'
        BY <1>5 DEF OneSupervisor, OneRun, HistoryTypeOK, PublishReturns
    <2>3. \A e \in Deciders : Steady(e)
        BY <1>5 DEF OneClaim, Claims, PublishReturns, Steady
    <2> QED
        BY <2>1, <2>2, <2>3, ClaimKept
<1> HIDE DEF Once
<1> QED
    BY <1>1, <1>2, <1>3, <1>4, <1>5, Zenon DEF SharedStep

\* Steps of callers, clients, clock and restart start no second run.
LEMMA EnvironmentOnce ==
    ASSUME Grounded, Once, (\A q \in Requests : Stands(q)), Environment
    PROVE  Once'
<1> USE ProcType, ProcParts, ProcDistinct, SuccessOnly
        DEF Grounded, TypeOK, LocalTypeOK, Aimed, At, AtSup, Go, See, Working, localVars,
            historyVars, storeVars, Stands, Once
<1>1. CASE \E r \in Requests : Request(r)
    <2> PICK r \in Requests : Request(r)
        BY <1>1
    <2>1. ASSUME NEW q \in Requests PROVE OneSupervisor(q)'
        BY <1>1 DEF OneSupervisor, Request
    <2>2. ASSUME NEW q \in Requests PROVE OneRun(q)'
        BY <1>1 DEF OneSupervisor, OneRun, HistoryTypeOK, Request
    <2>3. \A e \in Deciders : Steady(e)
        BY <1>1 DEF OneClaim, Claims, Request, Steady
    <2> QED
        BY <2>1, <2>2, <2>3, ClaimKept
<1>2. CASE \E d \in Deciders, r \in Requests : Decide(d, r)
    BY <1>2, QuietStep DEF Quiet, Claims, Decide
<1>3. CASE \E c \in Cancellers, r \in Requests : Cancel(c, r)
    BY <1>3, QuietStep DEF Quiet, Claims, Cancel
<1>4. CASE \E x \in Drops : Disconnect(x)
    BY <1>4, QuietStep DEF Quiet, Claims, Disconnect
<1>5. CASE Reconnect
    BY <1>5, QuietStep DEF Quiet, Claims, Reconnect
<1>6. CASE \E p \in Proc, x \in Drops : PublishToDead(p, x)
    <2> PICK p \in Proc, x \in Drops : PublishToDead(p, x)
        BY <1>6
    <2>1. /\ pc[p] = "publish" /\ pc[Drop(x)] = "idle"
          /\ pc' = [pc EXCEPT ![p] = "publishing", ![Drop(x)] = "conf_wait"]
        BY <1>6 DEF PublishToDead, MayPublish
    <2>2. conf' = conf /\ req' = req /\ runs' = runs /\ seen' = seen /\ target' = target
        BY <1>6 DEF PublishToDead
    <2>3. ASSUME NEW q \in Requests
          PROVE  /\ pc'[Sup(q)] # pc[Sup(q)] => pc[Sup(q)] = "publish" /\ pc'[Sup(q)] = "publishing"
                 /\ pc'[Req(q)] # pc[Req(q)] => pc[Req(q)] = "publish" /\ pc'[Req(q)] = "publishing"
        BY <2>1
    <2>4. ASSUME NEW q \in Requests PROVE OneSupervisor(q)'
        BY <2>2, <2>3 DEF OneSupervisor
    <2>5. ASSUME NEW q \in Requests PROVE OneRun(q)'
        BY <2>2, <2>3 DEF OneRun
    <2>6. \A e \in Deciders : Steady(e)
        BY <2>1, <2>2 DEF OneClaim, Claims, Steady
    <2> QED
        BY <2>4, <2>5, <2>6, ClaimKept
<1>7. CASE \E r \in Requests : PassTime(r)
    BY <1>7, QuietStep DEF Quiet, Claims, PassTime
<1>8. CASE List
    BY <1>8, QuietStep DEF Quiet, Claims, List
<1>9. CASE Restart
    <2>1. ASSUME NEW q \in Requests PROVE OneSupervisor(q)'
        BY <1>9 DEF OneSupervisor, Restart
    <2>2. ASSUME NEW q \in Requests PROVE OneRun(q)'
        BY <1>9 DEF OneSupervisor, OneRun, HistoryTypeOK, Restart
    <2>3. OneClaim'
        BY <1>9 DEF OneClaim, Claims, Restart
    <2> QED
        BY <2>1, <2>2, <2>3
<1>10. CASE \E r \in Requests : CallerCancelled(r)
    <2> PICK r \in Requests : CallerCancelled(r)
        BY <1>10
    <2>1. UNCHANGED <<req, conf, runs, seen, target>>
        BY DEF CallerCancelled
    <2>2. ASSUME NEW q \in Requests PROVE OneSupervisor(q)'
        BY <2>1, CancelledCaller DEF OneSupervisor
    <2>3. ASSUME NEW q \in Requests PROVE OneRun(q)'
        BY <2>1, CancelledCaller DEF OneRun
    <2>4. \A e \in Deciders : Steady(e)
        BY <2>1, CancelledCaller DEF OneClaim, Claims, Steady
    <2> QED
        BY <2>2, <2>3, <2>4, ClaimKept
<1> HIDE DEF Once
<1> QED
    BY <1>1, <1>2, <1>3, <1>4, <1>5, <1>6, <1>7, <1>8, <1>9, <1>10, Zenon DEF Environment

\* No step makes a second claim, a second supervisor or a second run.
LEMMA OnceStep == Grounded /\ Once /\ [Next]_vars => Once'
<1> SUFFICES ASSUME Grounded, Once, [Next]_vars PROVE Once'
    OBVIOUS
<1>1. \A q \in Requests : Stands(q)
    BY StoreRefined, StandStep DEF Grounded, TypeOK
<1>2. CASE Service
    BY <1>1, <1>2, RequestOnce, WaitOnce, SupOnce, DecideOnce, CancelOnce, DropOnce, SharedOnce,
       Zenon
    DEF Service
<1>3. CASE Environment
    BY <1>1, <1>3, EnvironmentOnce
<1>4. CASE UNCHANGED vars
    BY <1>4 DEF Once, OneClaim, OneSupervisor, OneRun, Claims, At, vars, storeVars, localVars,
                historyVars
<1> QED
    BY <1>2, <1>3, <1>4 DEF Next, Quiescent

\* However approvals, cancellations, disconnects, timeouts and restarts race, the
\* handler of a request is called at most once, and only a request whose handler
\* was called is recorded as succeeded.
THEOREM RunsOnce == Spec => []RunsAtMostOnce
<1>1. Once => RunsAtMostOnce
    BY DEF Once, OneRun, RunsAtMostOnce
<1> QED
    BY <1>1, OnceInit, OnceStep, AlwaysGrounded, PTL DEF Spec

-----------------------------------------------------------------------------
(* Who runs a handler.                                                     *)

Started(r) == "execution_started" \in audit[r]

\* request() after its commit and before its supervisor; a supervisor before
\* its handler; decide() between its claim and its supervisor.
Accepted(r) == pc[Req(r)] \in {"created", "exec_wait", "reread"}
Waits(r) == pc[Sup(r)] \in {"new", "conf_wait", "exec_wait", "checked"}
Decides(d) == pc[Dec(d)] \in {"recheck", "rechecked", "start", "started"}

\* What one process may still run it took itself: it created the row, or holds
\* the arguments; and the start is on record where a supervisor exists or is
\* about to.
LawfulRequest(r) ==
    /\ Accepted(r) => born[r] = restarts /\ (r \notin HighRisk => Started(r))
    /\ r \in args => born[r] = restarts
    /\ Waits(r) => born[r] = restarts
    /\ pc[Sup(r)] # "idle" => Started(r)

LawfulDecision(d) ==
    /\ Decides(d) /\ (pc[Dec(d)] \in {"start", "started"} \/ flag[Dec(d)])
         => born[target[Dec(d)]] = restarts
    /\ pc[Dec(d)] = "started" /\ seen[Dec(d)] = "running" => Started(target[Dec(d)])

Lawful == (\A r \in Requests : LawfulRequest(r)) /\ (\A d \in Deciders : LawfulDecision(d))

\* Nothing is accepted at the start.
LEMMA LawfulInit == Init => Lawful
BY ProcType, ProcParts
DEF Init, Lawful, LawfulRequest, LawfulDecision, Accepted, Waits, Decides

\* No transaction takes anything out of the audit trail.
Kept(r) == audit[r] \subseteq audit'[r]

LEMMA AuditKept ==
    ASSUME StoreTypeOK, [StoreNext]_storeVars, NEW q \in Requests
    PROVE  Kept(q)
<1> USE DEF StoreTypeOK, Kept, Record, storeVars
<1>1. CASE \E r \in Requests \ HighRisk : CreateRequest(r)
    BY <1>1 DEF CreateRequest
<1>2. CASE \E r \in HighRisk : CreateConfirmation(r)
    BY <1>2, HighRiskAssumption DEF CreateConfirmation
<1>3. CASE \E r \in Requests, d \in {"approve", "reject"}, late \in BOOLEAN :
               ClaimDecision(r, d, late)
    BY <1>3 DEF ClaimDecision, Verdict
<1>4. CASE \E r \in Requests : StartExecution(r)
    BY <1>4 DEF StartExecution, TransitionRequest
<1>5. CASE \E r \in Requests : Succeed(r)
    BY <1>5 DEF Succeed, TransitionRequest
<1>6. CASE \E r \in Requests, e \in ErrorCode : Fail(r, e)
    BY <1>6 DEF Fail, TransitionRequest
<1>7. CASE \E r \in Requests : MarkUnavailable(r)
    BY <1>7 DEF MarkUnavailable, TransitionRequest
<1>8. CASE \E r \in Requests : CancelRequest(r)
    BY <1>8 DEF CancelRequest
<1>9. CASE \E r \in Requests : PassDeadline(r)
    BY <1>9 DEF PassDeadline
<1>10. CASE ListPendingConfirmations
    BY <1>10 DEF ListPendingConfirmations, Overdue
<1>11. CASE UNCHANGED storeVars
    BY <1>11
<1> HIDE DEF Kept
<1> QED
    BY StoreSteps, <1>1, <1>2, <1>3, <1>4, <1>5, <1>6, <1>7, <1>8, <1>9, <1>10, <1>11, Zenon

\* A step that accepts nothing, decides nothing further and makes no supervisor.
Tame ==
    /\ restarts' = restarts /\ born' = born /\ args' \subseteq args
    /\ \A q \in Requests : /\ Accepted(q)' => Accepted(q)
                           /\ Waits(q)' => Waits(q)
                           /\ pc'[Sup(q)] # "idle" => pc[Sup(q)] # "idle"
    /\ \A d \in Deciders :
         Decides(d)' => /\ pc'[Dec(d)] = pc[Dec(d)] /\ flag'[Dec(d)] = flag[Dec(d)]
                        /\ seen'[Dec(d)] = seen[Dec(d)] /\ target'[Dec(d)] = target[Dec(d)]

\* Such a step breaks nothing.
LEMMA TameStep ==
    ASSUME Grounded, Lawful, \A q \in Requests : Kept(q), Tame
    PROVE  Lawful'
<1>1. ASSUME NEW r \in Requests PROVE LawfulRequest(r)'
    BY DEF Lawful, LawfulRequest, Tame, Kept, Started
<1>2. ASSUME NEW d \in Deciders PROVE LawfulDecision(d)'
    <2>1. CASE ~Decides(d)'
        BY <2>1 DEF LawfulDecision, Decides
    <2>2. CASE Decides(d)'
        <3>1. target[Dec(d)] \in Requests
            BY <2>2, ProcType, ProcParts DEF Tame, Decides, Grounded, Aimed, Working
        <3> QED
            BY <2>2, <3>1 DEF Lawful, LawfulDecision, Tame, Kept, Started, Decides
    <2> QED
        BY <2>1, <2>2
<1> QED
    BY <1>1, <1>2 DEF Lawful

-----------------------------------------------------------------------------
(* One lemma per kind of process.                                          *)

\* Steps of request(): the row is this process's own, and so are its arguments.
LEMMA RequestLawful ==
    ASSUME Grounded, Once, Lawful, (\A q \in Requests : Kept(q)), NEW r \in Requests,
           RequestStep(r)
    PROVE  Lawful'
<1> USE ProcType, ProcParts, ProcDistinct, TameStep
        DEF Grounded, TypeOK, MemoryTypeOK, LocalTypeOK, HistoryTypeOK, Aimed, At, Go, See,
            Working, localVars, historyVars, memoryVars, storeVars
<1>1. CASE CommitRequest(r)
    <2>1. r \notin HighRisk => Started(r)'
        BY <1>1 DEF CommitRequest, CreateRequest, Record, Started, StoreTypeOK
    <2>2. ASSUME NEW q \in Requests PROVE LawfulRequest(q)'
        BY <1>1, <2>1 DEF CommitRequest, Lawful, LawfulRequest, Accepted, Waits, Kept, Started
    <2>3. ASSUME NEW d \in Deciders PROVE LawfulDecision(d)'
        BY <1>1 DEF CommitRequest, Lawful, LawfulDecision, Decides, Kept, Started
    <2> QED
        BY <2>2, <2>3 DEF Lawful
<1>2. CASE QueueExecution(r)
    BY <1>2 DEF QueueExecution, Tame, Accepted, Waits, Decides
<1>3. CASE RereadRequest(r)
    BY <1>3 DEF RereadRequest, Tame, Accepted, Waits, Decides
<1>4. CASE ExecuteRequest(r)
    <2>1. born[r] = restarts /\ Started(r)
        BY <1>4 DEF ExecuteRequest, Lawful, LawfulRequest, Accepted, Once, OneSupervisor
    <2>2. ASSUME NEW q \in Requests PROVE LawfulRequest(q)'
        BY <1>4, <2>1 DEF ExecuteRequest, Lawful, LawfulRequest, Accepted, Waits, Kept, Started
    <2>3. ASSUME NEW d \in Deciders PROVE LawfulDecision(d)'
        BY <1>4 DEF ExecuteRequest, Lawful, LawfulDecision, Decides, Kept, Started
    <2> QED
        BY <2>2, <2>3 DEF Lawful
<1>5. CASE TrackConfirmation(r)
    <2>1. born[r] = restarts
        BY <1>5 DEF TrackConfirmation, Lawful, LawfulRequest, Accepted
    <2>2. ASSUME NEW q \in Requests PROVE LawfulRequest(q)'
        BY <1>5, <2>1
        DEF TrackConfirmation, Lawful, LawfulRequest, Accepted, Waits, Kept, Started
    <2>3. ASSUME NEW d \in Deciders PROVE LawfulDecision(d)'
        BY <1>5 DEF TrackConfirmation, Lawful, LawfulDecision, Decides, Kept, Started
    <2> QED
        BY <2>2, <2>3 DEF Lawful
<1>6. CASE FailNewRequest(r)
    BY <1>6 DEF FailNewRequest, Forget, Tame, Accepted, Waits, Decides
<1> QED
    BY <1>1, <1>2, <1>3, <1>4, <1>5, <1>6, Zenon DEF RequestStep

\* Steps of waiters.
LEMMA WaitLawful ==
    ASSUME Grounded, Lawful, (\A q \in Requests : Kept(q)), NEW r \in Requests,
           WaitStep(r)
    PROVE  Lawful'
<1> USE ProcType, ProcParts, ProcDistinct, TameStep
        DEF Grounded, TypeOK, MemoryTypeOK, LocalTypeOK, HistoryTypeOK, Aimed, At, AtSup, Go, See,
            Working, localVars, historyVars, memoryVars, storeVars, Forget
<1>1. CASE WaitStart(r)
    BY <1>1 DEF WaitStart, Tame, Accepted, Waits, Decides
<1>2. CASE WaitRead(r)
    BY <1>2 DEF WaitRead, Tame, Accepted, Waits, Decides
<1>3. CASE WaitResolved(r)
    BY <1>3 DEF WaitResolved, Tame, Accepted, Waits, Decides
<1>4. CASE WaitExpire(r)
    BY <1>4 DEF WaitExpire, Tame, Accepted, Waits, Decides
<1>5. CASE WaitExpired(r)
    BY <1>5 DEF WaitExpired, Tame, Accepted, Waits, Decides
<1>6. CASE WaitTimeout(r)
    BY <1>6 DEF WaitTimeout, Tame, Accepted, Waits, Decides
<1>7. CASE WaitFail(r)
    BY <1>7 DEF WaitFail, Tame, Accepted, Waits, Decides
<1>8. CASE WaitFailed(r)
    BY <1>8 DEF WaitFailed, Tame, Accepted, Waits, Decides
<1> QED
    BY <1>1, <1>2, <1>3, <1>4, <1>5, <1>6, <1>7, <1>8, Zenon DEF WaitStep

\* Steps of supervisors: one that waits was there before.
LEMMA SupLawful ==
    ASSUME Grounded, Lawful, (\A q \in Requests : Kept(q)), NEW r \in Requests,
           SupStep(r)
    PROVE  Lawful'
<1> USE ProcType, ProcParts, ProcDistinct, TameStep
        DEF Grounded, TypeOK, MemoryTypeOK, LocalTypeOK, HistoryTypeOK, Aimed, At, AtSup, Go, See,
            Working, localVars, historyVars, memoryVars, storeVars, Forget
<1>1. CASE SupStart(r)
    BY <1>1 DEF SupStart, RunHandler, Tame, Accepted, Waits, Decides
<1>2. CASE SupLock(r)
    BY <1>2 DEF SupLock, Tame, Accepted, Waits, Decides
<1>3. CASE SupCheck(r)
    BY <1>3 DEF SupCheck, Tame, Accepted, Waits, Decides
<1>4. CASE SupChecked(r)
    BY <1>4 DEF SupChecked, RunHandler, Tame, Accepted, Waits, Decides
<1>5. CASE SupFailed(r)
    BY <1>5 DEF SupFailed, Tame, Accepted, Waits, Decides
<1>6. CASE HandlerEnds(r)
    BY <1>6 DEF HandlerEnds, Tame, Accepted, Waits, Decides
<1>7. CASE SupTimeout(r)
    BY <1>7 DEF SupTimeout, Interruptible, Tame, Accepted, Waits, Decides
<1>8. CASE CommitSuccess(r)
    BY <1>8 DEF CommitSuccess, Tame, Accepted, Waits, Decides
<1>9. CASE CommitFailure(r)
    BY <1>9 DEF CommitFailure, FailureCode, Tame, Accepted, Waits, Decides
<1>10. CASE SupSettle(r)
    BY <1>10 DEF SupSettle, Tame, Accepted, Waits, Decides
<1>11. CASE SupReleased(r)
    BY <1>11 DEF SupReleased, Tame, Accepted, Waits, Decides
<1>12. CASE SupCancelled(r)
    BY <1>12 DEF SupCancelled, Interruptible, Tame, Accepted, Waits, Decides
<1>13. CASE SupReread(r)
    BY <1>13 DEF SupReread, Tame, Accepted, Waits, Decides
<1>14. CASE SupAborts(r)
    <2>1. UNCHANGED <<restarts, born, args, flag, seen, target>>
        BY <1>14 DEF SupAborts
    <2>2. /\ pc[Sup(r)] = "publishing"
          /\ \A q \in Proc : /\ pc'[q] \in {pc[q], "done"}
                             /\ q # Sup(r) /\ q[1] # "drop" => pc'[q] = pc[q]
        BY <1>14, AbortEnds, Zenon
    <2>3. ASSUME NEW q \in Requests
          PROVE  /\ Accepted(q)' => Accepted(q)
                 /\ Waits(q)' => Waits(q)
                 /\ pc'[Sup(q)] # "idle" => pc[Sup(q)] # "idle"
        BY <2>2 DEF Accepted, Waits
    <2>4. ASSUME NEW d \in Deciders PROVE pc'[Dec(d)] = pc[Dec(d)]
        BY <2>2
    <2> QED
        BY <2>1, <2>3, <2>4 DEF Tame
<1> QED
    BY <1>1, <1>2, <1>3, <1>4, <1>5, <1>6, <1>7, <1>8, <1>9, <1>10, <1>11, <1>12, <1>13, <1>14,
       Zenon
    DEF SupStep

\* Steps of cancel().
LEMMA CancelLawful ==
    ASSUME Grounded, Lawful, (\A q \in Requests : Kept(q)), NEW c \in Cancellers,
           CancelStep(c)
    PROVE  Lawful'
<1> USE ProcType, ProcParts, ProcDistinct, TameStep
        DEF Grounded, TypeOK, MemoryTypeOK, LocalTypeOK, HistoryTypeOK, Aimed, At, AtSup, Go, See,
            Working, localVars, historyVars, memoryVars, storeVars, Forget
<1>1. CASE CancelCommit(c)
    BY <1>1 DEF CancelCommit, Tame, Accepted, Waits, Decides
<1>2. CASE CancelResume(c)
    BY <1>2 DEF CancelResume, Tame, Accepted, Waits, Decides
<1> QED
    BY <1>1, <1>2, Zenon DEF CancelStep

\* Steps of disconnects.
LEMMA DropLawful ==
    ASSUME Grounded, Lawful, (\A q \in Requests : Kept(q)), NEW x \in Drops,
           DropStep(x)
    PROVE  Lawful'
<1> USE ProcType, ProcParts, ProcDistinct, TameStep
        DEF Grounded, TypeOK, MemoryTypeOK, LocalTypeOK, HistoryTypeOK, Aimed, At, AtSup, Go, See,
            Working, localVars, historyVars, memoryVars, storeVars, Forget
<1>1. CASE DropBump(x)
    BY <1>1 DEF DropBump, Tame, Accepted, Waits, Decides
<1>2. CASE \E r \in Requests : DropNext(x, r)
    BY <1>2 DEF DropNext, Tame, Accepted, Waits, Decides
<1>3. CASE DropEnd(x)
    BY <1>3 DEF DropEnd, Tame, Accepted, Waits, Decides
<1> QED
    BY <1>1, <1>2, <1>3, Zenon DEF DropStep

\* Steps of the shared failure and of publication.
LEMMA SharedLawful ==
    ASSUME Grounded, Lawful, (\A q \in Requests : Kept(q)), NEW p \in Proc,
           SharedStep(p)
    PROVE  Lawful'
<1> USE ProcType, ProcParts, ProcDistinct, TameStep
        DEF Grounded, TypeOK, MemoryTypeOK, LocalTypeOK, HistoryTypeOK, Aimed, At, AtSup, Go, See,
            Working, localVars, historyVars, memoryVars, storeVars, Forget
<1>1. CASE FailCancel(p)
    BY <1>1 DEF FailCancel, Tame, Accepted, Waits, Decides
<1>2. CASE FailMark(p)
    BY <1>2 DEF FailMark, Tame, Accepted, Waits, Decides
<1>3. CASE FailDone(p)
    BY <1>3 DEF FailDone, Tame, Accepted, Waits, Decides
<1>4. CASE Publish(p)
    BY <1>4 DEF Publish, MayPublish, Tame, Accepted, Waits, Decides
<1>5. CASE \E x \in Drops : PublishReturns(p, x)
    BY <1>5 DEF PublishReturns, Tame, Accepted, Waits, Decides
<1> QED
    BY <1>1, <1>2, <1>3, <1>4, <1>5, Zenon DEF SharedStep

\* Steps of decide(): it goes on with a request whose arguments are here.
LEMMA DecideLawful ==
    ASSUME Grounded, Lawful, (\A q \in Requests : Kept(q)), NEW d \in Deciders, DecideStep(d)
    PROVE  Lawful'
<1> USE ProcType, ProcParts, ProcDistinct, TameStep
        DEF Grounded, TypeOK, MemoryTypeOK, LocalTypeOK, HistoryTypeOK, Aimed, At, AtSup, Go, See,
            Working, localVars, historyVars, memoryVars, storeVars, Forget
<1>1. CASE DecideLock(d)
    BY <1>1 DEF DecideLock, Tame, Accepted, Waits, Decides
<1>2. CASE DecideClaim(d)
    BY <1>2 DEF DecideClaim, Tame, Accepted, Waits, Decides
<1>3. CASE DecideRefused(d)
    BY <1>3 DEF DecideRefused, Tame, Accepted, Waits, Decides
<1>4. CASE DecideApproved(d)
    <2>1. ASSUME NEW q \in Requests PROVE LawfulRequest(q)'
        BY <1>4 DEF DecideApproved, Lawful, LawfulRequest, Accepted, Waits, Kept, Started
    <2>2. ASSUME NEW e \in Deciders PROVE LawfulDecision(e)'
        BY <1>4 DEF DecideApproved, Lawful, LawfulRequest, LawfulDecision, Decides, Kept, Started
    <2> QED
        BY <2>1, <2>2 DEF Lawful
<1>5. CASE DecideReread(d)
    <2>1. ASSUME NEW q \in Requests PROVE LawfulRequest(q)'
        BY <1>5 DEF DecideReread, Lawful, LawfulRequest, Accepted, Waits, Kept, Started
    <2>2. ASSUME NEW e \in Deciders PROVE LawfulDecision(e)'
        BY <1>5 DEF DecideReread, Lawful, LawfulDecision, Decides, Kept, Started
    <2> QED
        BY <2>1, <2>2 DEF Lawful
<1>6. CASE DecideRechecked(d)
    <2>1. ASSUME NEW q \in Requests PROVE LawfulRequest(q)'
        BY <1>6 DEF DecideRechecked, Lawful, LawfulRequest, Accepted, Waits, Kept, Started
    <2>2. ASSUME NEW e \in Deciders PROVE LawfulDecision(e)'
        BY <1>6 DEF DecideRechecked, Lawful, LawfulDecision, Decides, Kept, Started
    <2> QED
        BY <2>1, <2>2 DEF Lawful
<1>7. CASE DecideNoContext(d)
    BY <1>7 DEF DecideNoContext, Tame, Accepted, Waits, Decides
<1>8. CASE DecideStart(d)
    <2>1. ASSUME NEW q \in Requests PROVE LawfulRequest(q)'
        BY <1>8 DEF DecideStart, Lawful, LawfulRequest, Accepted, Waits, Kept, Started
    <2>2. req[target[Dec(d)]] = "running" => Started(target[Dec(d)])'
        BY <1>8 DEF DecideStart, StartExecution, TransitionRequest, Record, Started, StoreTypeOK
    <2>3. ASSUME NEW e \in Deciders PROVE LawfulDecision(e)'
        BY <1>8, <2>2 DEF DecideStart, Lawful, LawfulDecision, Decides, Kept, Started
    <2> QED
        BY <2>1, <2>3 DEF Lawful
<1>9. CASE DecideStarted(d)
    <2>1. /\ target[Dec(d)] \in Requests /\ born[target[Dec(d)]] = restarts
          /\ seen[Dec(d)] = "running" => Started(target[Dec(d)])
        BY <1>9 DEF DecideStarted, Lawful, LawfulDecision, Decides
    <2>2. ASSUME NEW q \in Requests PROVE LawfulRequest(q)'
        BY <1>9, <2>1 DEF DecideStarted, Lawful, LawfulRequest, Accepted, Waits, Kept, Started
    <2>3. ASSUME NEW e \in Deciders PROVE LawfulDecision(e)'
        BY <1>9 DEF DecideStarted, Lawful, LawfulDecision, Decides, Kept, Started
    <2> QED
        BY <2>2, <2>3 DEF Lawful
<1> QED
    BY <1>1, <1>2, <1>3, <1>4, <1>5, <1>6, <1>7, <1>8, <1>9, Zenon DEF DecideStep

\* Steps of callers, clients and the clock; a restart leaves nothing to go on with.
LEMMA EnvironmentLawful ==
    ASSUME Grounded, Lawful, (\A q \in Requests : Kept(q)), Environment
    PROVE  Lawful'
<1> USE ProcType, ProcParts, ProcDistinct, TameStep
        DEF Grounded, TypeOK, MemoryTypeOK, LocalTypeOK, HistoryTypeOK, Aimed, At, AtSup, Go, See,
            Working, localVars, historyVars, memoryVars, storeVars, Forget
<1>1. CASE \E r \in Requests : Request(r)
    BY <1>1 DEF Request, Tame, Accepted, Waits, Decides
<1>2. CASE \E d \in Deciders, r \in Requests : Decide(d, r)
    BY <1>2 DEF Decide, Tame, Accepted, Waits, Decides
<1>3. CASE \E c \in Cancellers, r \in Requests : Cancel(c, r)
    BY <1>3 DEF Cancel, Tame, Accepted, Waits, Decides
<1>4. CASE \E x \in Drops : Disconnect(x)
    BY <1>4 DEF Disconnect, Tame, Accepted, Waits, Decides
<1>5. CASE Reconnect
    BY <1>5 DEF Reconnect, Tame, Accepted, Waits, Decides
<1>6. CASE \E p \in Proc, x \in Drops : PublishToDead(p, x)
    <2> PICK p \in Proc, x \in Drops : PublishToDead(p, x)
        BY <1>6
    <2>1. /\ pc' = [pc EXCEPT ![p] = "publishing", ![Drop(x)] = "conf_wait"]
          /\ pc[p] = "publish"
        BY <1>6 DEF PublishToDead, MayPublish
    <2>2. restarts' = restarts /\ born' = born /\ args' = args
        BY <1>6 DEF PublishToDead
    <2>3. flag' = flag /\ seen' = seen /\ target' = target
        BY <1>6 DEF PublishToDead
    <2>4. ASSUME NEW q \in Requests
          PROVE  /\ Accepted(q)' => Accepted(q)
                 /\ Waits(q)' => Waits(q)
                 /\ pc'[Sup(q)] # "idle" => pc[Sup(q)] # "idle"
        BY <2>1 DEF Accepted, Waits
    <2>5. ASSUME NEW d \in Deciders PROVE Decides(d)' => pc'[Dec(d)] = pc[Dec(d)]
        BY <2>1 DEF Decides
    <2> QED
        BY <2>2, <2>3, <2>4, <2>5 DEF Tame
<1>7. CASE \E r \in Requests : PassTime(r)
    BY <1>7 DEF PassTime, Tame, Accepted, Waits, Decides
<1>8. CASE List
    BY <1>8 DEF List, Tame, Accepted, Waits, Decides
<1>9. CASE Restart
    <2>1. ASSUME NEW q \in Requests PROVE LawfulRequest(q)'
        BY <1>9 DEF Restart, LoseMemory, Lawful, LawfulRequest, Accepted, Waits, Kept, Started
    <2>2. ASSUME NEW d \in Deciders PROVE LawfulDecision(d)'
        BY <1>9 DEF Restart, LoseMemory, Lawful, LawfulDecision, Decides
    <2> QED
        BY <2>1, <2>2 DEF Lawful
<1>10. CASE \E r \in Requests : CallerCancelled(r)
    <2> PICK r \in Requests : CallerCancelled(r)
        BY <1>10
    <2>1. UNCHANGED <<restarts, born, args, flag, seen, target>>
        BY DEF CallerCancelled
    <2> QED
        BY <2>1, CancelledCaller DEF Tame, Accepted, Waits, Decides
<1> QED
    BY <1>1, <1>2, <1>3, <1>4, <1>5, <1>6, <1>7, <1>8, <1>9, <1>10, Zenon DEF Environment

\* No step of the service breaks it.
LEMMA LawfulStep == Grounded /\ Once /\ Lawful /\ [Next]_vars => Lawful'
<1> SUFFICES ASSUME Grounded, Once, Lawful, [Next]_vars PROVE Lawful'
    OBVIOUS
<1>1. \A q \in Requests : Kept(q)
    BY StoreRefined, AuditKept DEF Grounded, TypeOK
<1>2. CASE Service
    BY <1>1, <1>2, RequestLawful, WaitLawful, SupLawful, DecideLawful, CancelLawful, DropLawful,
       SharedLawful, Zenon
    DEF Service
<1>3. CASE Environment
    BY <1>1, <1>3, EnvironmentLawful
<1>4. CASE UNCHANGED vars
    BY <1>4
    DEF Lawful, LawfulRequest, LawfulDecision, Accepted, Waits, Decides, Started, vars, storeVars,
        memoryVars, localVars, historyVars
<1> QED
    BY <1>2, <1>3, <1>4 DEF Next, Quiescent

\* It holds, with the invariants above, in every state.
LEMMA AlwaysLawful == Spec => [](Grounded /\ Once /\ Lawful)
BY GroundedInit, GroundedStep, OnceInit, OnceStep, LawfulInit, LawfulStep, PTL DEF Spec

-----------------------------------------------------------------------------
(* Theorems                                                                *)

\* A handler that was called belongs to a supervisor that exists.
LEMMA RunIsRecorded == Once /\ Lawful => RunsAreAudited
BY DEF Once, OneRun, Lawful, LawfulRequest, Started, RunsAreAudited

\* Whatever approvals, disconnects, time limits and restarts race: no handler is
\* called before the start of its execution is in the audit trail.
THEOREM RunsAudited == Spec => []RunsAreAudited
BY AlwaysLawful, RunIsRecorded, PTL

\* The two steps that call a handler.
LEMMA SupCalls ==
    ASSUME Grounded, Lawful, NEW r \in Requests, SupStep(r), NEW q \in Requests,
           runs'[q] # runs[q]
    PROVE  born[q] = restarts
<1> USE DEF At, AtSup, historyVars, Grounded, TypeOK, HistoryTypeOK, RunHandler
<1>1. CASE SupStart(r) \/ SupChecked(r)
    <2>1. q = r /\ Waits(r)
        BY <1>1 DEF SupStart, SupChecked, Waits
    <2> QED
        BY <2>1 DEF Lawful, LawfulRequest
<1>2. CASE ~(SupStart(r) \/ SupChecked(r))
    BY <1>2
    DEF SupStep, SupLock, SupCheck, SupFailed, HandlerEnds, SupTimeout, CommitSuccess,
        CommitFailure, SupSettle, SupReleased, SupCancelled, SupReread, SupAborts
<1> QED
    BY <1>1, <1>2

\* No other step does.
LEMMA OthersCallNothing ==
    ASSUME \/ \E r \in Requests : RequestStep(r) \/ WaitStep(r)
           \/ \E d \in Deciders : DecideStep(d)
           \/ \E c \in Cancellers : CancelStep(c)
           \/ \E x \in Drops : DropStep(x)
           \/ \E p \in Proc : SharedStep(p)
           \/ Environment \/ Quiescent \/ UNCHANGED vars
    PROVE  runs' = runs
<1> USE DEF historyVars
<1>1. ASSUME NEW r \in Requests, RequestStep(r) PROVE runs' = runs
    BY <1>1 DEF RequestStep, CommitRequest, QueueExecution, RereadRequest, ExecuteRequest,
                TrackConfirmation, FailNewRequest
<1>2. ASSUME NEW r \in Requests, WaitStep(r) PROVE runs' = runs
    BY <1>2 DEF WaitStep, WaitStart, WaitRead, WaitResolved, WaitExpire, WaitExpired, WaitTimeout,
                WaitFail, WaitFailed
<1>3. ASSUME NEW d \in Deciders, DecideStep(d) PROVE runs' = runs
    BY <1>3 DEF DecideStep, DecideLock, DecideClaim, DecideRefused, DecideApproved, DecideReread,
                DecideRechecked, DecideNoContext, DecideStart, DecideStarted
<1>4. ASSUME NEW c \in Cancellers, CancelStep(c) PROVE runs' = runs
    BY <1>4 DEF CancelStep, CancelCommit, CancelResume
<1>5. ASSUME NEW x \in Drops, DropStep(x) PROVE runs' = runs
    BY <1>5 DEF DropStep, DropBump, DropNext, DropEnd
<1>6. ASSUME NEW p \in Proc, SharedStep(p) PROVE runs' = runs
    BY <1>6 DEF SharedStep, FailCancel, FailMark, FailDone, Publish, PublishReturns
<1>7. CASE Environment
    BY <1>7 DEF Environment, Request, CallerCancelled, Decide, Cancel, Disconnect, Reconnect, PublishToDead, PassTime,
                List, Restart
<1>8. CASE Quiescent \/ UNCHANGED vars
    BY <1>8 DEF Quiescent, vars
<1> QED
    BY <1>1, <1>2, <1>3, <1>4, <1>5, <1>6, <1>7, <1>8

\* Nothing is run, or run again, by a process that did not take the request.
THEOREM NothingRunsAgain == Spec => RestartNeverRuns
<1> DEFINE Own == \A r \in Requests : runs'[r] # runs[r] => born[r] = restarts
<1>1. Grounded /\ Lawful /\ [Next]_vars => [Own]_vars
    BY SupCalls, OthersCallNothing DEF Next, Service
<1> QED
    BY <1>1, AlwaysLawful, PTL DEF Spec, RestartNeverRuns

-----------------------------------------------------------------------------
(* The lifecycle the service promises                                      *)

\* Nothing is recorded of a request that was not made.
Unrecorded == \A r \in Requests : req[r] = "absent" => audit[r] = {}

\* Empty tables record nothing.
LEMMA UnrecordedInit == StoreInit => Unrecorded
BY DEF StoreInit, Unrecorded

\* Only the transactions that make a request record something of a new one.
LEMMA UnrecordedStep ==
    StoreTypeOK /\ RowsAgree /\ Unrecorded /\ [StoreNext]_storeVars => Unrecorded'
<1> SUFFICES ASSUME StoreTypeOK, RowsAgree, Unrecorded, [StoreNext]_storeVars
             PROVE  Unrecorded'
    OBVIOUS
<1> USE DEF StoreTypeOK, RowsAgree, Unrecorded, Record, RequestState, Active, Settled,
            ConfirmationState, storeVars
<1>1. CASE \E r \in Requests \ HighRisk : CreateRequest(r)
    BY <1>1 DEF CreateRequest
<1>2. CASE \E r \in HighRisk : CreateConfirmation(r)
    BY <1>2, HighRiskAssumption DEF CreateConfirmation
<1>3. CASE \E r \in Requests, d \in {"approve", "reject"}, late \in BOOLEAN :
               ClaimDecision(r, d, late)
    BY <1>3 DEF ClaimDecision, Verdict
<1>4. CASE \E r \in Requests : StartExecution(r)
    BY <1>4 DEF StartExecution, TransitionRequest
<1>5. CASE \E r \in Requests : Succeed(r)
    BY <1>5 DEF Succeed, TransitionRequest
<1>6. CASE \E r \in Requests, e \in ErrorCode : Fail(r, e)
    BY <1>6 DEF Fail, TransitionRequest
<1>7. CASE \E r \in Requests : MarkUnavailable(r)
    BY <1>7 DEF MarkUnavailable, TransitionRequest
<1>8. CASE \E r \in Requests : CancelRequest(r)
    BY <1>8 DEF CancelRequest
<1>9. CASE \E r \in Requests : PassDeadline(r)
    BY <1>9 DEF PassDeadline
<1>10. CASE ListPendingConfirmations
    BY <1>10 DEF ListPendingConfirmations, Overdue
<1>11. CASE UNCHANGED storeVars
    BY <1>11
<1> HIDE DEF Unrecorded
<1> QED
    BY StoreSteps, <1>1, <1>2, <1>3, <1>4, <1>5, <1>6, <1>7, <1>8, <1>9, <1>10, <1>11, Zenon

\* What a step may do to the rows as the lifecycle sees them.
Mapped(r, from, to) ==
    /\ PhaseOf(r) \in from /\ PhaseOf(r)' = to
    /\ \A q \in Requests \ {r} : PhaseOf(q)' = PhaseOf(q)

\* A step whose effect on the phases is a move of one request is such a move.
LEMMA MoveMaps ==
    ASSUME NEW r \in Requests, NEW from, NEW to, Mapped(r, from, to)
    PROVE  Lifecycle!Move(r, from, to)
BY DEF Mapped, Lifecycle!Move

\* A transaction, which succeeds only where the handler was called, is a step
\* of the lifecycle.
LEMMA StoreMaps ==
    ASSUME StoreTypeOK, RowsAgree, [StoreNext]_storeVars, runs' = runs,
           \A q \in Requests : req'[q] = "succeeded" => req[q] = "succeeded" \/ runs[q] = 1
    PROVE  [Lifecycle!Next]_Lifecycle!lifecycleVars
<1> DEFINE Same == \A q \in Requests : PhaseOf(q)' = PhaseOf(q)
<1>a. ASSUME Same, Granted' = Granted PROVE [Lifecycle!Next]_Lifecycle!lifecycleVars
    BY <1>a DEF Lifecycle!lifecycleVars
<1>b. ASSUME NEW r \in Requests, r \in HighRisk, Mapped(r, {"absent"}, "waiting"),
             Granted' = Granted
      PROVE  Lifecycle!Next
    BY <1>b, MoveMaps, Zenon DEF Lifecycle!Next, Lifecycle!Ask
<1>c. ASSUME NEW r \in Requests, Granted' = Granted \cup {r},
             Mapped(r, IF r \in HighRisk THEN {"waiting"} ELSE {"absent"}, "granted")
      PROVE  Lifecycle!Next
    BY <1>c, MoveMaps, Zenon DEF Lifecycle!Next, Lifecycle!Grant
<1>d. ASSUME NEW r \in Requests, Mapped(r, {"waiting", "granted"}, "stopped"), Granted' = Granted
      PROVE  Lifecycle!Next
    BY <1>d, MoveMaps, Zenon DEF Lifecycle!Next, Lifecycle!Stop
<1>e. ASSUME NEW r \in Requests, Mapped(r, {"granted"}, "succeeded"), Granted' = Granted, runs[r] = 1
      PROVE  Lifecycle!Next
    BY <1>e, MoveMaps, Zenon DEF Lifecycle!Next, Lifecycle!Succeed
<1>f. ASSUME NEW S \in SUBSET Requests, Granted' = Granted, \A q \in S : PhaseOf(q) = "waiting",
             \A q \in Requests : PhaseOf(q)' = IF q \in S THEN "refused" ELSE PhaseOf(q)
      PROVE  Lifecycle!Next
    <2>1. Lifecycle!Refuse(S)
        BY <1>f DEF Lifecycle!Refuse
    <2> QED
        BY <2>1, Zenon DEF Lifecycle!Next
<1> USE DEF StoreTypeOK, RowsAgree, Record, RequestState, Active, Settled, ConfirmationState,
            storeVars
<1>1. CASE \E r \in Requests \ HighRisk : CreateRequest(r)
    <2> PICK r \in Requests \ HighRisk : CreateRequest(r)
        BY <1>1
    <2>1. Mapped(r, {"absent"}, "granted")
        BY DEF CreateRequest, Mapped, PhaseOf
    <2>2. Granted' = Granted \cup {r}
        BY DEF CreateRequest, Granted
    <2> QED
        BY <1>c, <2>1, <2>2
<1>2. CASE \E r \in HighRisk : CreateConfirmation(r)
    <2> PICK r \in HighRisk : CreateConfirmation(r)
        BY <1>2
    <2>0. r \in Requests
        BY HighRiskAssumption
    <2>1. Mapped(r, {"absent"}, "waiting")
        BY <2>0 DEF CreateConfirmation, Mapped, PhaseOf
    <2>2. Granted' = Granted
        BY <2>0 DEF CreateConfirmation, Granted
    <2> QED
        BY <1>b, <2>0, <2>1, <2>2
<1>3. CASE \E r \in Requests, d \in {"approve", "reject"}, late \in BOOLEAN :
               ClaimDecision(r, d, late)
    <2> PICK r \in Requests, d \in {"approve", "reject"}, late \in BOOLEAN :
               ClaimDecision(r, d, late)
        BY <1>3
    <2>1. CASE conf[r] # "pending"
        BY <1>a, <2>1 DEF ClaimDecision, PhaseOf, Granted
    <2>2. CASE conf[r] = "pending" /\ Verdict(d, late) = "approved"
        <3>1. r \in HighRisk /\ Mapped(r, {"waiting"}, "granted")
            BY <2>2 DEF ClaimDecision, Mapped, PhaseOf
        <3>2. Granted' = Granted \cup {r}
            BY <2>2, <3>1 DEF ClaimDecision, Granted
        <3> QED
            BY <1>c, <3>1, <3>2
    <2>3. CASE conf[r] = "pending" /\ Verdict(d, late) # "approved"
        <3>1. Verdict(d, late) \in {"rejected", "expired"}
            BY <2>3 DEF Verdict
        <3>2. /\ PhaseOf(r) = "waiting"
              /\ \A q \in Requests : PhaseOf(q)' = IF q \in {r} THEN "refused" ELSE PhaseOf(q)
            BY <2>3, <3>1 DEF ClaimDecision, PhaseOf
        <3>3. Granted' = Granted
            BY <2>3, <3>1 DEF ClaimDecision, Granted
        <3>4. {r} \in SUBSET Requests /\ \A q \in {r} : PhaseOf(q) = "waiting"
            BY <3>2
        <3> QED
            BY <1>f, <3>2, <3>3, <3>4
    <2> QED
        BY <2>1, <2>2, <2>3
<1>4. CASE \E r \in Requests : StartExecution(r)
    BY <1>a, <1>4 DEF StartExecution, TransitionRequest, PhaseOf, Granted
<1>5. CASE \E r \in Requests : Succeed(r)
    <2> PICK r \in Requests : Succeed(r)
        BY <1>5
    <2>1. CASE req[r] # "running"
        BY <1>a, <2>1 DEF Succeed, TransitionRequest, PhaseOf, Granted
    <2>2. CASE req[r] = "running"
        <3>1. Mapped(r, {"granted"}, "succeeded")
            BY <2>2 DEF Succeed, TransitionRequest, PhaseOf, Mapped
        <3>2. Granted' = Granted /\ runs[r] = 1
            BY <2>2 DEF Succeed, TransitionRequest, Granted
        <3> QED
            BY <1>e, <3>1, <3>2
    <2> QED
        BY <2>1, <2>2
<1>6. CASE \E r \in Requests, e \in ErrorCode : Fail(r, e)
    <2> PICK r \in Requests, e \in ErrorCode : Fail(r, e)
        BY <1>6
    <2>1. CASE req[r] # "running"
        BY <1>a, <2>1 DEF Fail, TransitionRequest, PhaseOf, Granted
    <2>2. CASE req[r] = "running"
        <3>1. Mapped(r, {"waiting", "granted"}, "stopped")
            BY <2>2 DEF Fail, TransitionRequest, PhaseOf, Mapped
        <3>2. Granted' = Granted
            BY <2>2 DEF Fail, TransitionRequest, Granted
        <3> QED
            BY <1>d, <3>1, <3>2
    <2> QED
        BY <2>1, <2>2
<1>7. CASE \E r \in Requests : MarkUnavailable(r)
    BY <1>a, <1>7 DEF MarkUnavailable, TransitionRequest, PhaseOf, Granted
<1>8. CASE \E r \in Requests : CancelRequest(r)
    <2> PICK r \in Requests : CancelRequest(r)
        BY <1>8
    <2>1. CASE req[r] \notin Active
        BY <1>a, <2>1 DEF CancelRequest, PhaseOf, Granted
    <2>2. CASE req[r] \in Active
        <3>1. Mapped(r, {"waiting", "granted"}, "stopped")
            BY <2>2 DEF CancelRequest, PhaseOf, Mapped
        <3>2. Granted' = Granted
            BY <2>2 DEF CancelRequest, Granted
        <3> QED
            BY <1>d, <3>1, <3>2
    <2> QED
        BY <2>1, <2>2
<1>9. CASE \E r \in Requests : PassDeadline(r)
    BY <1>a, <1>9 DEF PassDeadline, PhaseOf, Granted
<1>10. CASE ListPendingConfirmations
    <2>1. Overdue \in SUBSET Requests /\ \A q \in Overdue : PhaseOf(q) = "waiting"
        BY DEF Overdue, PhaseOf
    <2>2. \A q \in Requests : PhaseOf(q)' = IF q \in Overdue THEN "refused" ELSE PhaseOf(q)
        BY <1>10 DEF ListPendingConfirmations, Overdue, PhaseOf
    <2>3. Granted' = Granted
        BY <1>10 DEF ListPendingConfirmations, Overdue, Granted
    <2> QED
        BY <1>f, <2>1, <2>2, <2>3
<1>11. CASE UNCHANGED storeVars
    BY <1>a, <1>11 DEF PhaseOf, Granted
<1> HIDE DEF StoreTypeOK, RowsAgree
<1> QED
    BY StoreSteps, <1>1, <1>2, <1>3, <1>4, <1>5, <1>6, <1>7, <1>8, <1>9, <1>10, <1>11, Zenon

\* A handler that starts was granted, and not called before.
LEMMA CallMaps ==
    ASSUME Grounded, Once, Lawful, Unrecorded, NEW r \in Requests,
           pc[Sup(r)] \in {"new", "checked"}, RunHandler(r), UNCHANGED storeVars
    PROVE  Lifecycle!Next
<1>1. \A q \in Requests : PhaseOf(q)' = PhaseOf(q)
    BY DEF PhaseOf, storeVars
<1>2. Granted' = Granted
    BY DEF Granted, storeVars
<1>3. r \in Granted
    BY DEF Once, OneSupervisor, Lawful, LawfulRequest, Started, Unrecorded, Granted
<1>4. runs \in [Requests -> Nat] /\ runs[r] = 0 /\ runs' = [runs EXCEPT ![r] = 1]
    <2>1. runs \in [Requests -> Nat]
        BY DEF Grounded, TypeOK, HistoryTypeOK
    <2>2. runs[r] = 0
        BY DEF Once, OneRun
    <2> QED
        BY <2>1, <2>2 DEF RunHandler
<1>5. Lifecycle!Invoke(r)
    BY <1>1, <1>2, <1>3, <1>4 DEF Lifecycle!Invoke
<1> QED
    BY <1>5, Zenon DEF Lifecycle!Next

\* Only a supervisor's success succeeds, once its handler was called.
LEMMA SuccessHasRun ==
    ASSUME Once' PROVE \A q \in Requests : req'[q] = "succeeded" => runs'[q] = 1
BY DEF Once, OneRun

\* Every step of the service is a step of the lifecycle, or leaves it alone.
LEMMA LifecycleStep ==
    Grounded /\ Once /\ Lawful /\ Unrecorded /\ [Next]_vars
        => [Lifecycle!Next]_Lifecycle!lifecycleVars
<1> SUFFICES ASSUME Grounded, Once, Lawful, Unrecorded, [Next]_vars
             PROVE  [Lifecycle!Next]_Lifecycle!lifecycleVars
    OBVIOUS
<1>1. CASE runs' = runs
    <2>1. [StoreNext]_storeVars
        BY StoreRefined, Zenon
    <2>2. Once'
        BY OnceStep, Zenon
    <2> QED
        BY <1>1, <2>1, <2>2, SuccessHasRun, StoreMaps DEF Grounded, TypeOK
<1>2. ASSUME NEW r \in Requests, SupStart(r) \/ SupChecked(r), runs' # runs
      PROVE  Lifecycle!Next
    <2>1. /\ pc[Sup(r)] \in {"new", "checked"}
          /\ RunHandler(r)
          /\ UNCHANGED storeVars
        BY <1>2 DEF SupStart, SupChecked, AtSup, At, historyVars
    <2> QED
        BY <2>1, CallMaps, Zenon
<1>3. ASSUME NEW r \in Requests, SupStep(r), ~(SupStart(r) \/ SupChecked(r))
      PROVE  runs' = runs
    BY <1>3
    DEF SupStep, SupLock, SupCheck, SupFailed, HandlerEnds, SupTimeout, CommitSuccess,
        CommitFailure, SupSettle, SupReleased, SupCancelled, SupReread, SupAborts, historyVars
<1>4. runs' = runs \/ \E r \in Requests : (SupStart(r) \/ SupChecked(r))
    BY <1>3, OthersCallNothing DEF Next, Service
<1> QED
    BY <1>1, <1>2, <1>4

\* It starts as the lifecycle does.
LEMMA LifecycleInit == Init => Lifecycle!Init
BY DEF Init, StoreInit, Lifecycle!Init, PhaseOf, Granted

\* The service implements the lifecycle it promises, for any number of requests,
\* callers, disconnects and restarts.
THEOREM LifecycleTheorem == Spec => ImplementsLifecycle
<1>1. StoreTypeOK /\ RowsAgree /\ [Next]_vars /\ Grounded /\ Unrecorded => Unrecorded'
    BY StoreRefined, UnrecordedStep
<1>2. Init => Unrecorded
    BY UnrecordedInit DEF Init
<1>3. Grounded => StoreTypeOK /\ RowsAgree
    BY DEF Grounded, TypeOK
<1> QED
    BY <1>1, <1>2, <1>3, AlwaysLawful, LifecycleInit, LifecycleStep, PTL
    DEF Spec, ImplementsLifecycle, Lifecycle!Spec

-----------------------------------------------------------------------------
(* What the waiter of a request is told                                    *)

\* An outcome that was, or may have become, the one stored.
Fits(s, r) == s = req[r] \/ (s = "cancelled" /\ req[r] = "failed")

Fitted(s, r) == s = req'[r] \/ (s = "cancelled" /\ req'[r] = "failed")

\* What a waiter was told fits its row, and so does the settled row a process
\* last saw of the request it works on, which it will publish (a disconnect
\* publishes the rows as they are then).
Truth ==
    /\ \A r \in Requests : told[r] # "none" => Fits(told[r], r)
    /\ \A p \in Proc :
         /\ p[1] # "drop" /\ seen[p] \in Settled => target[p] \in Requests /\ Fits(seen[p], target[p])
         /\ At(p, "idle") => seen[p] = "absent"

\* Nobody was told or saw anything at the start.
LEMMA TruthInit == Init => Truth
BY DEF Init, Truth, Settled, At

\* What a step may tell the waiter of r, ...
Tells(r) == told'[r] = told[r] \/ told'[r] = "none" \/ Fitted(told'[r], r)

\* ... and what it may let p see.
Sees(p) ==
    /\ p[1] # "drop" => \/ seen'[p] = seen[p] /\ (target'[p] = target[p] \/ seen[p] \notin Settled)
                        \/ seen'[p] \notin Settled
                        \/ target'[p] \in Requests /\ seen'[p] = req'[target'[p]]
    /\ pc'[p] = "idle" => pc[p] = "idle" /\ seen'[p] = seen[p]

\* An outcome that fitted fits after every transaction.
LEMMA FitKept ==
    ASSUME NEW r \in Requests, NEW s \in Settled, Stands(r), Fits(s, r)
    PROVE  Fitted(s, r)
BY DEF Fits, Fitted, Stands, Settled

\* A step that tells and shows no more than that keeps what was said true.
LEMMA TruthKept ==
    ASSUME Grounded, Truth, (\A q \in Requests : Stands(q)), (\A q \in Requests : Tells(q)),
           (\A p \in Proc : Sees(p))
    PROVE  Truth'
<1>1. told \in [Requests -> Settled \cup {"none"}]
    BY DEF Grounded, TypeOK, LocalTypeOK
<1>2. ASSUME NEW r \in Requests, told'[r] # "none" PROVE Fitted(told'[r], r)
    <2>1. CASE told'[r] = told[r]
        BY <1>1, <1>2, <2>1, FitKept DEF Truth
    <2>2. CASE told'[r] # told[r]
        BY <1>2, <2>2 DEF Tells
    <2> QED
        BY <2>1, <2>2
<1>3. ASSUME NEW p \in Proc, p[1] # "drop", seen'[p] \in Settled
      PROVE  target'[p] \in Requests /\ Fitted(seen'[p], target'[p])
    <2>1. CASE seen'[p] = seen[p] /\ target'[p] = target[p]
        BY <1>3, <2>1, FitKept DEF Truth
    <2>2. CASE ~(seen'[p] = seen[p] /\ target'[p] = target[p])
        <3>1. Sees(p)
            OBVIOUS
        <3> QED
            BY <1>3, <2>2, <3>1 DEF Sees, Fitted
    <2> QED
        BY <2>1, <2>2
<1>4. ASSUME NEW p \in Proc, At(p, "idle")' PROVE seen'[p] = "absent"
    BY <1>4 DEF At, Sees, Truth
<1> QED
    BY <1>2, <1>3, <1>4 DEF Truth, Fits, Fitted

\* Waiters are told what fits, by the service's own subscriber ...
LEMMA ResolveTells ==
    ASSUME Grounded, NEW r \in Requests, NEW s, Resolve(r, s), s \in Settled => Fits(s, r),
           req' = req, NEW q \in Requests
    PROVE  Tells(q)
BY DEF Resolve, Tells, Fits, Fitted, Grounded, TypeOK, LocalTypeOK

\* ... and by a publication.
LEMMA NotifyTells ==
    ASSUME Grounded, Truth, NEW p \in Proc, pc[p] = "publish", Notify(p), req' = req,
           NEW q \in Requests
    PROVE  Tells(q)
<1> USE DEF Grounded, TypeOK, LocalTypeOK
<1>1. CASE p[1] = "drop"
    <2>1. told'[q] = told[q] \/ told'[q] = req[q]
        BY <1>1 DEF Notify
    <2> QED
        BY <2>1 DEF Tells, Fitted
<1>2. CASE p[1] # "drop" /\ p[1] = "wait" /\ seen[p] \in Settled
    <2>1. target[p] = p[2] /\ p[2] \in Requests /\ Fits(seen[p], p[2])
        BY <1>2 DEF Truth, Aimed
    <2>2. told' = [told EXCEPT ![p[2]] = seen[p]]
        BY <1>2 DEF Notify
    <2> QED
        BY <2>1, <2>2 DEF Tells, Fits, Fitted
<1>3. CASE p[1] # "drop" /\ ~(p[1] = "wait" /\ seen[p] \in Settled)
    <2>1. Resolve(target[p], seen[p])
        BY <1>3 DEF Notify
    <2>2. CASE seen[p] \in Settled
        BY <1>3, <2>1, <2>2, ResolveTells DEF Truth
    <2>3. CASE seen[p] \notin Settled
        BY <2>1, <2>3 DEF Resolve, Tells
    <2> QED
        BY <2>2, <2>3
<1> QED
    BY <1>1, <1>2, <1>3

\* Steps that tell nothing, show nothing and aim at nothing else.
LEMMA SilentStep ==
    ASSUME Grounded, Truth, (\A q \in Requests : Stands(q)), UNCHANGED <<told, seen, target>>,
           \A p \in Proc : pc'[p] = "idle" => pc[p] = "idle"
    PROVE  Truth'
<1>1. \A q \in Requests : Tells(q)
    BY DEF Tells
<1>2. \A p \in Proc : Sees(p)
    BY DEF Sees
<1> QED
    BY <1>1, <1>2, TruthKept

\* Steps of request().
LEMMA RequestTruth ==
    ASSUME Grounded, Truth, (\A q \in Requests : Stands(q)), NEW r \in Requests, RequestStep(r)
    PROVE  Truth'
<1> USE ProcType, ProcParts, ProcDistinct
        DEF Grounded, TypeOK, LocalTypeOK, Aimed, At, AtSup, Go, See, Working, localVars, storeVars
<1>1. CASE CommitRequest(r)
    BY <1>1, SilentStep DEF CommitRequest
<1>2. CASE QueueExecution(r)
    BY <1>2, SilentStep DEF QueueExecution
<1>3. CASE RereadRequest(r)
    <2>1. ASSUME NEW q \in Requests PROVE Tells(q)
        BY <1>3 DEF Tells, Fits, Fitted, RereadRequest
    <2>2. ASSUME NEW k \in Proc PROVE Sees(k)
        BY <1>3 DEF Truth, Sees, RereadRequest
    <2> QED
        BY <2>1, <2>2, TruthKept
<1>4. CASE ExecuteRequest(r)
    <2>1. ASSUME NEW q \in Requests PROVE Tells(q)
        BY <1>4, ResolveTells DEF Truth, Tells, ExecuteRequest
    <2>2. ASSUME NEW k \in Proc PROVE Sees(k)
        BY <1>4 DEF Truth, Sees, ExecuteRequest
    <2> QED
        BY <2>1, <2>2, TruthKept
<1>5. CASE TrackConfirmation(r)
    <2>1. ASSUME NEW q \in Requests PROVE Tells(q)
        BY <1>5 DEF Tells, Fits, Fitted, TrackConfirmation, Settled
    <2>2. ASSUME NEW k \in Proc PROVE Sees(k)
        BY <1>5 DEF Truth, Sees, TrackConfirmation, Settled
    <2> QED
        BY <2>1, <2>2, TruthKept
<1>6. CASE FailNewRequest(r)
    BY <1>6, SilentStep DEF FailNewRequest
<1> QED
    BY <1>1, <1>2, <1>3, <1>4, <1>5, <1>6, Zenon DEF RequestStep

\* Steps of wait_for_terminal().
LEMMA WaitTruth ==
    ASSUME Grounded, Truth, (\A q \in Requests : Stands(q)), NEW r \in Requests, WaitStep(r)
    PROVE  Truth'
<1> USE ProcType, ProcParts, ProcDistinct
        DEF Grounded, TypeOK, LocalTypeOK, Aimed, At, AtSup, Go, See, Working, localVars, storeVars
<1>1. CASE WaitStart(r)
    BY <1>1, SilentStep DEF WaitStart
<1>2. CASE WaitRead(r)
    <2>1. ASSUME NEW q \in Requests PROVE Tells(q)
        <3>1. req' = req /\ (told' = told \/ told' = [told EXCEPT ![r] = req[r]])
            BY <1>2 DEF WaitRead
        <3> QED
            BY <3>1 DEF Tells, Fitted
    <2>2. ASSUME NEW k \in Proc PROVE Sees(k)
        BY <1>2 DEF Truth, Sees, WaitRead
    <2> QED
        BY <2>1, <2>2, TruthKept
<1>3. CASE WaitResolved(r)
    BY <1>3, SilentStep DEF WaitResolved
<1>4. CASE WaitExpire(r)
    <2>1. ASSUME NEW q \in Requests PROVE Tells(q)
        BY <1>4 DEF Tells, Fits, Fitted, WaitExpire
    <2>2. ASSUME NEW k \in Proc PROVE Sees(k)
        BY <1>4 DEF Truth, Sees, WaitExpire
    <2> QED
        BY <2>1, <2>2, TruthKept
<1>5. CASE WaitExpired(r)
    BY <1>5, SilentStep DEF WaitExpired
<1>6. CASE WaitTimeout(r)
    BY <1>6, SilentStep DEF WaitTimeout
<1>7. CASE WaitFail(r)
    <2>1. ASSUME NEW q \in Requests PROVE Tells(q)
        BY <1>7 DEF Tells, Fits, Fitted, WaitFail
    <2>2. ASSUME NEW k \in Proc PROVE Sees(k)
        BY <1>7 DEF Truth, Sees, WaitFail
    <2> QED
        BY <2>1, <2>2, TruthKept
<1>8. CASE WaitFailed(r)
    BY <1>8, SilentStep DEF WaitFailed
<1> QED
    BY <1>1, <1>2, <1>3, <1>4, <1>5, <1>6, <1>7, <1>8, Zenon DEF WaitStep

\* Steps of supervisors.
LEMMA SupTruth ==
    ASSUME Grounded, Truth, (\A q \in Requests : Stands(q)), NEW r \in Requests, SupStep(r)
    PROVE  Truth'
<1> USE ProcType, ProcParts, ProcDistinct
        DEF Grounded, TypeOK, LocalTypeOK, Aimed, At, AtSup, Go, See, Working, localVars, storeVars
<1>1. CASE SupStart(r)
    BY <1>1, SilentStep DEF SupStart
<1>2. CASE SupLock(r)
    BY <1>2, SilentStep DEF SupLock
<1>3. CASE SupCheck(r)
    <2>1. ASSUME NEW q \in Requests PROVE Tells(q)
        BY <1>3 DEF Tells, Fits, Fitted, SupCheck
    <2>2. ASSUME NEW k \in Proc PROVE Sees(k)
        BY <1>3 DEF Truth, Sees, SupCheck
    <2> QED
        BY <2>1, <2>2, TruthKept
<1>4. CASE SupChecked(r)
    BY <1>4, SilentStep DEF SupChecked
<1>5. CASE SupFailed(r)
    BY <1>5, SilentStep DEF SupFailed
<1>6. CASE HandlerEnds(r)
    BY <1>6, SilentStep DEF HandlerEnds
<1>7. CASE SupTimeout(r)
    BY <1>7, SilentStep DEF SupTimeout
<1>8. CASE CommitSuccess(r)
    <2>1. ASSUME NEW q \in Requests PROVE Tells(q)
        BY <1>8 DEF Tells, Fits, Fitted, CommitSuccess
    <2>2. ASSUME NEW k \in Proc PROVE Sees(k)
        BY <1>8 DEF Truth, Sees, CommitSuccess
    <2> QED
        BY <2>1, <2>2, TruthKept
<1>9. CASE CommitFailure(r)
    <2>1. ASSUME NEW q \in Requests PROVE Tells(q)
        BY <1>9 DEF Tells, Fits, Fitted, CommitFailure
    <2>2. ASSUME NEW k \in Proc PROVE Sees(k)
        BY <1>9 DEF Truth, Sees, CommitFailure
    <2> QED
        BY <2>1, <2>2, TruthKept
<1>10. CASE SupSettle(r)
    <2>1. ASSUME NEW q \in Requests PROVE Tells(q)
        BY <1>10, ResolveTells DEF Truth, Tells, SupSettle
    <2>2. ASSUME NEW k \in Proc PROVE Sees(k)
        BY <1>10 DEF Truth, Sees, SupSettle
    <2> QED
        BY <2>1, <2>2, TruthKept
<1>11. CASE SupReleased(r)
    BY <1>11, SilentStep DEF SupReleased
<1>12. CASE SupCancelled(r)
    BY <1>12, SilentStep DEF SupCancelled
<1>13. CASE SupReread(r)
    <2>1. ASSUME NEW q \in Requests PROVE Tells(q)
        <3>1. req' = req /\ Resolve(r, req[r]) /\ Fits(req[r], r)
            BY <1>13 DEF SupReread, Fits
        <3> QED
            BY <3>1, ResolveTells
    <2>2. ASSUME NEW k \in Proc PROVE Sees(k)
        BY <1>13 DEF Truth, Sees, SupReread, Fits
    <2> QED
        BY <2>1, <2>2, TruthKept
<1>14. CASE SupAborts(r)
    BY <1>14, SilentStep DEF SupAborts
<1> QED
    BY <1>1, <1>2, <1>3, <1>4, <1>5, <1>6, <1>7, <1>8, <1>9, <1>10, <1>11, <1>12, <1>13, <1>14, Zenon DEF SupStep

\* Steps of decide().
LEMMA DecideTruth ==
    ASSUME Grounded, Truth, (\A q \in Requests : Stands(q)), NEW d \in Deciders, DecideStep(d)
    PROVE  Truth'
<1> USE ProcType, ProcParts, ProcDistinct
        DEF Grounded, TypeOK, LocalTypeOK, Aimed, At, AtSup, Go, See, Working, localVars, storeVars
<1>1. CASE DecideLock(d)
    BY <1>1, SilentStep DEF DecideLock
<1>2. CASE DecideClaim(d)
    <2>1. ASSUME NEW q \in Requests PROVE Tells(q)
        BY <1>2 DEF Tells, Fits, Fitted, DecideClaim, Settled
    <2>2. ASSUME NEW k \in Proc PROVE Sees(k)
        BY <1>2 DEF Truth, Sees, DecideClaim, Settled
    <2> QED
        BY <2>1, <2>2, TruthKept
<1>3. CASE DecideRefused(d)
    BY <1>3, SilentStep DEF DecideRefused
<1>4. CASE DecideApproved(d)
    BY <1>4, SilentStep DEF DecideApproved
<1>5. CASE DecideReread(d)
    <2>1. ASSUME NEW q \in Requests PROVE Tells(q)
        BY <1>5 DEF Tells, Fits, Fitted, DecideReread
    <2>2. ASSUME NEW k \in Proc PROVE Sees(k)
        BY <1>5 DEF Truth, Sees, DecideReread
    <2> QED
        BY <2>1, <2>2, TruthKept
<1>6. CASE DecideRechecked(d)
    BY <1>6, SilentStep DEF DecideRechecked
<1>7. CASE DecideNoContext(d)
    <2>1. ASSUME NEW q \in Requests PROVE Tells(q)
        BY <1>7 DEF Tells, Fits, Fitted, DecideNoContext
    <2>2. ASSUME NEW k \in Proc PROVE Sees(k)
        BY <1>7 DEF Truth, Sees, DecideNoContext
    <2> QED
        BY <2>1, <2>2, TruthKept
<1>8. CASE DecideStart(d)
    <2>1. ASSUME NEW q \in Requests PROVE Tells(q)
        BY <1>8 DEF Tells, Fits, Fitted, DecideStart, StartExecution, TransitionRequest
    <2>2. target[Dec(d)] \in Requests /\ target' = target
        BY <1>8 DEF DecideStart
    <2>3. req'[target[Dec(d)]] = req[target[Dec(d)]]
        BY <1>8, <2>2 DEF DecideStart, StartExecution, TransitionRequest, StoreTypeOK
    <2>4. seen' = [seen EXCEPT ![Dec(d)] = req[target[Dec(d)]]] /\ pc' = [pc EXCEPT ![Dec(d)] = "started"]
        BY <1>8 DEF DecideStart
    <2>5. ASSUME NEW k \in Proc PROVE Sees(k)
        BY <2>2, <2>3, <2>4 DEF Sees
    <2> QED
        BY <2>1, <2>5, TruthKept
<1>9. CASE DecideStarted(d)
    BY <1>9, SilentStep DEF DecideStarted
<1> QED
    BY <1>1, <1>2, <1>3, <1>4, <1>5, <1>6, <1>7, <1>8, <1>9, Zenon DEF DecideStep

\* Steps of cancel().
LEMMA CancelTruth ==
    ASSUME Grounded, Truth, (\A q \in Requests : Stands(q)), NEW c \in Cancellers, CancelStep(c)
    PROVE  Truth'
<1> USE ProcType, ProcParts, ProcDistinct
        DEF Grounded, TypeOK, LocalTypeOK, Aimed, At, AtSup, Go, See, Working, localVars, storeVars
<1>1. CASE CancelCommit(c)
    <2>1. ASSUME NEW q \in Requests PROVE Tells(q)
        BY <1>1 DEF Tells, Fits, Fitted, CancelCommit
    <2>2. ASSUME NEW k \in Proc PROVE Sees(k)
        BY <1>1 DEF Truth, Sees, CancelCommit
    <2> QED
        BY <2>1, <2>2, TruthKept
<1>2. CASE CancelResume(c)
    BY <1>2, SilentStep DEF CancelResume
<1> QED
    BY <1>1, <1>2, Zenon DEF CancelStep

\* Steps of disconnects.
LEMMA DropTruth ==
    ASSUME Grounded, Truth, (\A q \in Requests : Stands(q)), NEW x \in Drops, DropStep(x)
    PROVE  Truth'
<1> USE ProcType, ProcParts, ProcDistinct
        DEF Grounded, TypeOK, LocalTypeOK, Aimed, At, AtSup, Go, See, Working, localVars, storeVars
<1>1. CASE DropBump(x)
    BY <1>1, SilentStep DEF DropBump
<1>2. CASE \E r \in Requests : DropNext(x, r)
    <2>1. ASSUME NEW q \in Requests PROVE Tells(q)
        BY <1>2 DEF Tells, Fits, Fitted, DropNext
    <2>2. ASSUME NEW k \in Proc PROVE Sees(k)
        BY <1>2 DEF Truth, Sees, DropNext
    <2> QED
        BY <2>1, <2>2, TruthKept
<1>3. CASE DropEnd(x)
    BY <1>3, SilentStep DEF DropEnd
<1> QED
    BY <1>1, <1>2, <1>3, Zenon DEF DropStep

\* Steps of the shared failure and of publication.
LEMMA SharedTruth ==
    ASSUME Grounded, Truth, (\A q \in Requests : Stands(q)), NEW p \in Proc, SharedStep(p)
    PROVE  Truth'
<1> USE ProcType, ProcParts, ProcDistinct
        DEF Grounded, TypeOK, LocalTypeOK, Aimed, At, AtSup, Go, See, Working, localVars, storeVars
<1>1. CASE FailCancel(p)
    BY <1>1, SilentStep DEF FailCancel
<1>2. CASE FailMark(p)
    <2>1. ASSUME NEW q \in Requests PROVE Tells(q)
        BY <1>2 DEF Tells, Fits, Fitted, FailMark
    <2>2. ASSUME NEW k \in Proc PROVE Sees(k)
        BY <1>2 DEF Truth, Sees, FailMark
    <2> QED
        BY <2>1, <2>2, TruthKept
<1>3. CASE FailDone(p)
    BY <1>3, SilentStep DEF FailDone
<1>4. CASE Publish(p)
    <2>1. ASSUME NEW q \in Requests PROVE Tells(q)
        BY <1>4, NotifyTells DEF Publish, MayPublish
    <2>2. ASSUME NEW k \in Proc PROVE Sees(k)
        BY <1>4 DEF Truth, Sees, Publish, MayPublish
    <2> QED
        BY <2>1, <2>2, TruthKept
<1>5. CASE \E x \in Drops : PublishReturns(p, x)
    BY <1>5, SilentStep DEF PublishReturns
<1> QED
    BY <1>1, <1>2, <1>3, <1>4, <1>5, Zenon DEF SharedStep

\* Steps of callers, clients, clock and restart.
LEMMA EnvironmentTruth ==
    ASSUME Grounded, Truth, (\A q \in Requests : Stands(q)), Environment
    PROVE  Truth'
<1> USE ProcType, ProcParts, ProcDistinct
        DEF Grounded, TypeOK, LocalTypeOK, Aimed, At, AtSup, Go, See, Working, localVars, storeVars
<1>1. CASE \E r \in Requests : Request(r)
    BY <1>1, SilentStep DEF Request
<1>2. CASE \E d \in Deciders, r \in Requests : Decide(d, r)
    <2>1. ASSUME NEW q \in Requests PROVE Tells(q)
        BY <1>2 DEF Tells, Fits, Fitted, Decide, Settled
    <2>2. ASSUME NEW k \in Proc PROVE Sees(k)
        BY <1>2 DEF Truth, Sees, Decide, Settled
    <2> QED
        BY <2>1, <2>2, TruthKept
<1>3. CASE \E c \in Cancellers, r \in Requests : Cancel(c, r)
    <2>1. ASSUME NEW q \in Requests PROVE Tells(q)
        BY <1>3 DEF Tells, Fits, Fitted, Cancel, Settled
    <2>2. ASSUME NEW k \in Proc PROVE Sees(k)
        BY <1>3 DEF Truth, Sees, Cancel, Settled
    <2> QED
        BY <2>1, <2>2, TruthKept
<1>4. CASE \E x \in Drops : Disconnect(x)
    BY <1>4, SilentStep DEF Disconnect
<1>5. CASE Reconnect
    BY <1>5, SilentStep DEF Reconnect
<1>6. CASE \E p \in Proc, x \in Drops : PublishToDead(p, x)
    <2> PICK p \in Proc, x \in Drops : PublishToDead(p, x)
        BY <1>6
    <2>1. ASSUME NEW q \in Requests PROVE Tells(q)
        BY <1>6, NotifyTells DEF PublishToDead, MayPublish
    <2>2. ASSUME NEW k \in Proc PROVE Sees(k)
        BY <1>6 DEF Truth, Sees, PublishToDead, MayPublish
    <2> QED
        BY <2>1, <2>2, TruthKept
<1>7. CASE \E r \in Requests : PassTime(r)
    BY <1>7, SilentStep DEF PassTime
<1>8. CASE List
    BY <1>8, SilentStep DEF List
<1>9. CASE Restart
    BY <1>9, SilentStep DEF Restart
<1>10. CASE \E r \in Requests : CallerCancelled(r)
    BY <1>10, SilentStep, CancelledCaller DEF CallerCancelled
<1> QED
    BY <1>1, <1>2, <1>3, <1>4, <1>5, <1>6, <1>7, <1>8, <1>9, <1>10, Zenon DEF Environment

\* No step tells or shows anything that does not fit.
LEMMA TruthStep == Grounded /\ Truth /\ [Next]_vars => Truth'
<1> SUFFICES ASSUME Grounded, Truth, [Next]_vars PROVE Truth'
    OBVIOUS
<1>1. \A q \in Requests : Stands(q)
    BY StoreRefined, StandStep DEF Grounded, TypeOK
<1>2. CASE Service
    BY <1>1, <1>2, RequestTruth, WaitTruth, SupTruth, DecideTruth, CancelTruth, DropTruth,
       SharedTruth, Zenon
    DEF Service
<1>3. CASE Environment
    BY <1>1, <1>3, EnvironmentTruth
<1>4. CASE UNCHANGED vars
    BY <1>1, <1>4, SilentStep DEF vars, localVars
<1> QED
    BY <1>2, <1>3, <1>4 DEF Next, Quiescent

\* Whoever settles a request, and in whatever order its updates come: what the
\* conversation is told of it is the outcome stored, or a cancellation that the
\* loss of its client turned into a failure.
THEOREM WaiterTheorem == Spec => []WaiterToldOutcome
<1>1. Truth => WaiterToldOutcome
    BY Zenon DEF Truth, Fits, WaiterToldOutcome
<1> QED
    BY <1>1, AlwaysGrounded, TruthInit, TruthStep, PTL DEF Spec

-----------------------------------------------------------------------------
(* Nobody leaves a running row behind                                      *)

\* Where a supervisor may still have a running row to settle.
Attending == {"new", "conf_wait", "exec_wait", "checked", "handler", "succeed", "fail_cancel",
              "fail_unavailable", "fail_timeout", "fail_error"}

\* A decide() that has the running row r to hand over or to settle.
Carries(d, r) ==
    /\ target[Dec(d)] = r
    /\ Claims(d) \/ pc[Dec(d)] \in {"no_context", "fail_cancel"}

\* Its caller was cancelled before it had a supervisor.
Orphaned(r) == r \in Abandonable /\ pc[Req(r)] = "done" /\ pc[Sup(r)] = "idle"

Attended(r) ==
    req[r] = "running" /\ born[r] = restarts =>
        \/ pc[Sup(r)] \in Attending
        \/ r \notin HighRisk /\ Accepted(r)
        \/ \E d \in Deciders : Carries(d, r)
        \/ Orphaned(r)

Present(r) == req[r] # "absent"
Begun(r) == req[r] \in {"running"} \cup Settled
Ended(r) == req[r] \in Settled

\* What a process knows of the row it works on, by where it stands.
Marks == {"created", "exec_wait", "reread", "conf_wait", "cancel", "fail_cancel", "wait_running",
          "fail_mark", "fail_done", "cancelled", "failed", "rechecked", "started"}

Knows(p) ==
    /\ p[1] # "drop" /\ pc[p] \in {"created", "exec_wait", "reread", "conf_wait", "cancel"}
         => Present(target[p])
    /\ pc[p] = "fail_cancel" => Present(target[p])
    /\ p[1] = "wait" /\ pc[p] \in {"wait_running", "exec_wait"} => Begun(target[p])
    /\ pc[p] \in {"fail_mark", "fail_done"} => Ended(target[p])
    /\ p[1] # "drop" /\ pc[p] \in {"cancelled", "failed"} => Ended(target[p])
    /\ pc[p] \in {"rechecked", "started"} \/ (pc[p] = "reread" /\ p[1] = "request")
         => seen[p] \in {"running"} \cup Settled

\* Running rows of this process are in somebody's hands; whoever is about to
\* cancel or to leave a row knows enough of it to do so.
InHand ==
    /\ \A r \in Requests : Attended(r) /\ born[r] <= restarts
    /\ \A p \in Proc : Knows(p)
    /\ \A r \in tracked : Present(r)
    /\ \A x \in Drops : \A r \in todo[x] : Present(r)
    /\ \A r \in stopping : Ended(r)

Firm == Grounded /\ Once /\ Lawful /\ Unrecorded /\ Truth /\ InHand

\* Nothing is in anybody's hands at the start.
LEMMA InHandInit == Init => InHand
BY RestartsAssumption
DEF Init, StoreInit, InHand, Attended, Knows

\* Rows are not deleted, and do not go back.
GoesOn(r) ==
    /\ Present(r) => req'[r] # "absent"
    /\ Begun(r) => req'[r] \in {"running"} \cup Settled
    /\ Ended(r) => req'[r] \in Settled

LEMMA RowsGoOn ==
    ASSUME StoreTypeOK, RowsAgree, [StoreNext]_storeVars, NEW q \in Requests
    PROVE  GoesOn(q)
<1> USE DEF StoreTypeOK, RowsAgree, GoesOn, Present, Begun, Ended, RequestState, Active, Settled,
            ConfirmationState, storeVars
<1>1. CASE \E r \in Requests \ HighRisk : CreateRequest(r)
    BY <1>1 DEF CreateRequest
<1>2. CASE \E r \in HighRisk : CreateConfirmation(r)
    BY <1>2, HighRiskAssumption DEF CreateConfirmation
<1>3. CASE \E r \in Requests, d \in {"approve", "reject"}, late \in BOOLEAN :
               ClaimDecision(r, d, late)
    BY <1>3 DEF ClaimDecision, Verdict
<1>4. CASE \E r \in Requests : StartExecution(r)
    BY <1>4 DEF StartExecution, TransitionRequest
<1>5. CASE \E r \in Requests : Succeed(r)
    BY <1>5 DEF Succeed, TransitionRequest
<1>6. CASE \E r \in Requests, e \in ErrorCode : Fail(r, e)
    BY <1>6 DEF Fail, TransitionRequest
<1>7. CASE \E r \in Requests : MarkUnavailable(r)
    BY <1>7 DEF MarkUnavailable, TransitionRequest
<1>8. CASE \E r \in Requests : CancelRequest(r)
    BY <1>8 DEF CancelRequest
<1>9. CASE \E r \in Requests : PassDeadline(r)
    BY <1>9 DEF PassDeadline
<1>10. CASE ListPendingConfirmations
    BY <1>10 DEF ListPendingConfirmations, Overdue
<1>11. CASE UNCHANGED storeVars
    BY <1>11
<1> HIDE DEF GoesOn
<1> QED
    BY StoreSteps, <1>1, <1>2, <1>3, <1>4, <1>5, <1>6, <1>7, <1>8, <1>9, <1>10, <1>11, Zenon

\* A row becomes running by its creation or by an approval only, and leaves
\* "running" where it is cancelled, failed or succeeds.
LEMMA RunningOnly ==
    ASSUME StoreTypeOK, NEW r, NEW q \in Requests
    PROVE  /\ CancelRequest(r) \/ MarkUnavailable(r) \/ StartExecution(r) \/ Succeed(r)
                => (req'[q] = "running" => req[q] = "running")
           /\ \A e : Fail(r, e) => (req'[q] = "running" => req[q] = "running")
           /\ \A d, late : ClaimDecision(r, d, late)
                => (req'[q] = "running" => req[q] = "running" \/ (r = q /\ d # "reject" /\ ~late))
           /\ CreateConfirmation(r) \/ PassDeadline(r) \/ ListPendingConfirmations
                => (req'[q] = "running" => req[q] = "running")
           /\ CreateRequest(r) => (req'[q] = "running" => req[q] = "running" \/ r = q)
           /\ CancelRequest(q) => req'[q] \notin Active
           /\ Succeed(q) => req'[q] # "running"
           /\ \A e : Fail(q, e) => req'[q] # "running"
BY DEF CancelRequest, MarkUnavailable, StartExecution, Fail, Succeed, TransitionRequest,
       ClaimDecision, Verdict, CreateRequest, CreateConfirmation, PassDeadline,
       ListPendingConfirmations, StoreTypeOK, storeVars, Active

\* A request with a supervisor has begun.
LEMMA SupBegun ==
    ASSUME Grounded, Once, Lawful, Unrecorded, NEW r \in Requests, pc[Sup(r)] # "idle"
    PROVE  Begun(r)
<1>1. CASE r \in HighRisk
    BY <1>1
    DEF Once, OneSupervisor, Grounded, TypeOK, StoreTypeOK, RowsAgree, RequestState, Active, Begun
<1>2. CASE r \notin HighRisk
    <2>1. req[r] # "absent"
        BY DEF Lawful, LawfulRequest, Started, Unrecorded
    <2> QED
        BY <1>2, <2>1 DEF Grounded, TypeOK, StoreTypeOK, RowsAgree, RequestState, Active, Begun
<1> QED
    BY <1>1, <1>2

\* So has one that a decide() has claimed.
LEMMA ClaimBegun ==
    ASSUME Grounded, Once, NEW d \in Deciders, Claims(d)
    PROVE  target[Dec(d)] \in Requests /\ Begun(target[Dec(d)])
<1>1. target[Dec(d)] \in Requests
    BY ProcType, ProcParts DEF Grounded, Aimed, Claims, At, Working
<1> QED
    BY <1>1
    DEF Once, OneClaim, Grounded, TypeOK, StoreTypeOK, RowsAgree, RequestState, Active, Begun

\* Who works knows for what.
LEMMA WorksFor ==
    ASSUME Grounded, NEW p \in Proc,
           (p[1] # "drop" /\ Working(p)) \/ pc[p] \in {"fail_cancel", "fail_mark", "fail_done"}
    PROVE  target[p] \in Requests
BY DEF Grounded, Aimed, Proc

\* A step that leaves the knowledge of p as it is.
Undisturbed(p) ==
    \/ pc'[p] \notin Marks
    \/ pc'[p] = "conf_wait" /\ p[1] = "drop"
    \/ pc'[p] = pc[p] /\ target'[p] = target[p] /\ seen'[p] = seen[p]

LEMMA KnowsStill ==
    ASSUME Grounded, NEW p \in Proc, Knows(p), (\A q \in Requests : GoesOn(q)), Undisturbed(p)
    PROVE  Knows(p)'
<1>1. CASE pc'[p] \notin Marks
    BY <1>1 DEF Marks, Knows
<1>2. CASE pc'[p] = "conf_wait" /\ p[1] = "drop"
    BY <1>2 DEF Knows
<1>3. CASE pc'[p] = pc[p] /\ target'[p] = target[p] /\ seen'[p] = seen[p]
    <2>1. CASE target[p] \in Requests
        BY <1>3, <2>1 DEF Knows, GoesOn, Present, Begun, Ended
    <2>2. CASE target[p] \notin Requests
        <3>1. pc[p] \notin Marks \/ (p[1] = "drop" /\ pc[p] \notin {"fail_cancel", "fail_mark", "fail_done"})
            BY <2>2, WorksFor DEF Marks, Working
        <3> QED
            BY <1>3, <3>1 DEF Knows, Marks
    <2> QED
        BY <2>1, <2>2
<1> QED
    BY <1>1, <1>2, <1>3 DEF Undisturbed

\* A step after which a running row is in the hands it was in, or in a supervisor's.
Handed(r) ==
    req'[r] = "running" /\ born'[r] = restarts' =>
        /\ req[r] = "running" /\ born[r] = restarts
        /\ pc[Sup(r)] \in Attending => pc'[Sup(r)] \in Attending
        /\ r \notin HighRisk /\ Accepted(r)
             => \/ pc'[Req(r)] \in {"created", "exec_wait", "reread"} \/ pc'[Sup(r)] \in Attending
                \/ Orphaned(r)'
        /\ Orphaned(r) => pc'[Req(r)] = "done" /\ pc'[Sup(r)] \in {"idle"} \cup Attending
        /\ \A d \in Deciders : Carries(d, r) =>
             \/ pc'[Sup(r)] \in Attending
             \/ /\ target'[Dec(d)] = r
                /\ \/ pc'[Dec(d)] = "claimed" /\ seen'[Dec(d)] = "running"
                   \/ pc'[Dec(d)] \in {"recheck", "rechecked", "start", "started", "no_context",
                                       "fail_cancel"}

LEMMA HandedOn ==
    ASSUME NEW r \in Requests, Attended(r), Handed(r)
    PROVE  Attended(r)'
BY DEF Attended, Handed, Accepted, Carries, Claims, Orphaned, At

\* What else a step may do.
Orderly ==
    /\ \A r \in tracked' : r \in tracked \/ Present(r)
    /\ \A x \in Drops : \A r \in todo'[x] : r \in todo[x] \cup tracked
    /\ \A r \in stopping' : r \in stopping \/ Ended(r)
    /\ \A r \in Requests : born'[r] <= restarts'

LEMMA InHandStill ==
    ASSUME Grounded, InHand, Orderly, TypeOK', \A r \in Requests : GoesOn(r),
           \A r \in Requests : Handed(r) \/ Attended(r)',
           \A p \in Proc : Undisturbed(p) \/ Knows(p)'
    PROVE  InHand'
<1>1. ASSUME NEW r \in Requests PROVE Attended(r)' /\ born'[r] <= restarts'
    BY HandedOn DEF InHand, Orderly
<1>2. ASSUME NEW p \in Proc PROVE Knows(p)'
    BY KnowsStill DEF InHand
<1>3. ASSUME NEW r \in tracked' PROVE Present(r)'
    BY DEF InHand, Orderly, GoesOn, Present, TypeOK, MemoryTypeOK
<1>4. ASSUME NEW x \in Drops, NEW r \in todo'[x] PROVE Present(r)'
    <2>1. r \in Requests
        BY DEF TypeOK, DropTypeOK
    <2>2. Present(r)
        BY DEF InHand, Orderly
    <2> QED
        BY <2>1, <2>2 DEF GoesOn, Present
<1>5. ASSUME NEW r \in stopping' PROVE Ended(r)'
    BY DEF InHand, Orderly, GoesOn, Ended, TypeOK, MemoryTypeOK
<1> QED
    BY <1>1, <1>2, <1>3, <1>4, <1>5 DEF InHand

\* Steps of request().
LEMMA RequestHand ==
    ASSUME Grounded, Once, Lawful, Unrecorded, Truth, InHand, TypeOK',
           (\A q \in Requests : GoesOn(q)), NEW r \in Requests, RequestStep(r)
    PROVE  InHand'
<1> USE ProcType, ProcParts, ProcDistinct
        DEF Grounded, TypeOK, LocalTypeOK, Aimed, At, AtSup, Go, See, Working, localVars, storeVars,
            memoryVars, dropVars, historyVars
<1>1. CASE CommitRequest(r)
    <2>7. req' = [req EXCEPT ![r] = IF r \in HighRisk THEN "pending_confirmation" ELSE "running"]
        BY <1>1 DEF CommitRequest, CreateRequest, CreateConfirmation
    <2>6. LET label == IF pc[Req(r)] = "create" THEN "created" ELSE "done"
          IN  pc' = [pc EXCEPT ![Req(r)] = label]
        BY <1>1 DEF CommitRequest
    <2>8. target' = target /\ seen' = seen /\ tracked' = tracked
        BY <1>1 DEF CommitRequest
    <2>9. born' = [born EXCEPT ![r] = restarts] /\ restarts' = restarts
        BY <1>1 DEF CommitRequest
    <2>1. ASSUME NEW q \in Requests PROVE Handed(q) \/ Attended(q)'
        <3>1. CASE q = r
            <4>1. pc[Req(r)] = "create" \/ Orphaned(r)'
                BY <1>1, <2>6, AbandonableAssumption
                DEF CommitRequest, Orphaned, Once, OneSupervisor
            <4> QED
                BY <2>6, <2>7, <2>8, <3>1, <4>1 DEF Attended, Accepted, StoreTypeOK
        <3>2. CASE q # r
            BY <2>6, <2>7, <2>8, <2>9, <3>2 DEF Handed, Accepted, Attending, Carries, Claims, Orphaned, HistoryTypeOK, StoreTypeOK
        <3> QED
            BY <3>1, <3>2
    <2>2. ASSUME NEW k \in Proc PROVE Undisturbed(k) \/ Knows(k)'
        <3>1. CASE k # Req(r)
            BY <1>1, <3>1 DEF Undisturbed, Marks, CommitRequest
        <3>2. CASE k = Req(r)
            <4>1. pc'[k] \in {"created", "done"} /\ target'[k] = r /\ k[1] = "request" /\ req'[r] # "absent"
                BY <2>6, <2>7, <2>8, <3>2 DEF StoreTypeOK
            <4> QED
                BY <4>1 DEF Knows, Present
        <3> QED
            BY <3>1, <3>2
    <2>3. Orderly
        BY <1>1 DEF Orderly, InHand, HistoryTypeOK, CommitRequest
    <2> QED
        BY <2>1, <2>2, <2>3, InHandStill
<1>2. CASE QueueExecution(r)
    <2>1. ASSUME NEW q \in Requests PROVE Handed(q)
        BY <1>2, RunningOnly DEF Handed, Accepted, Attending, Carries, Claims, Orphaned, QueueExecution
    <2>2. ASSUME NEW k \in Proc PROVE Undisturbed(k) \/ Knows(k)'
        <3>1. CASE k # Req(r)
            BY <1>2, <3>1 DEF Undisturbed, Marks, QueueExecution
        <3>2. CASE k = Req(r)
            BY <1>2, <3>2 DEF Knows, InHand, Present, QueueExecution
        <3> QED
            BY <3>1, <3>2
    <2>3. Orderly
        BY <1>2 DEF Orderly, InHand, HistoryTypeOK, QueueExecution
    <2> QED
        BY <2>1, <2>2, <2>3, InHandStill
<1>3. CASE RereadRequest(r)
    <2>1. ASSUME NEW q \in Requests PROVE Handed(q)
        BY <1>3, RunningOnly DEF Handed, Accepted, Attending, Carries, Claims, Orphaned, RereadRequest
    <2>2. ASSUME NEW k \in Proc PROVE Undisturbed(k) \/ Knows(k)'
        <3>1. CASE k # Req(r)
            BY <1>3, <3>1 DEF Undisturbed, Marks, RereadRequest
        <3>2. CASE k = Req(r)
            <4>1. r \notin HighRisk /\ Present(r)
                BY <1>3 DEF RereadRequest, Once, OneSupervisor, InHand, Knows
            <4>2. Begun(r)
                BY <4>1 DEF StoreTypeOK, RowsAgree, RequestState, Active, Present, Begun
            <4>3. pc'[k] = "reread" /\ target'[k] = r /\ k[1] = "request" /\ seen'[k] = req[r] /\ req' = req
                BY <1>3, <3>2 DEF RereadRequest
            <4> QED
                BY <4>1, <4>2, <4>3 DEF Knows, Begun, Present
        <3> QED
            BY <3>1, <3>2
    <2>3. Orderly
        BY <1>3 DEF Orderly, InHand, HistoryTypeOK, RereadRequest
    <2> QED
        BY <2>1, <2>2, <2>3, InHandStill
<1>4. CASE ExecuteRequest(r)
    <2>6. seen[Req(r)] \in {"running"} \cup Settled /\ r \notin HighRisk
        BY <1>4 DEF ExecuteRequest, InHand, Knows, Once, OneSupervisor
    <2>7. seen[Req(r)] # "running" => req[r] # "running"
        BY <2>6 DEF Truth, Fits, Settled
    <2>8. req' = req /\ target' = target /\ seen' = seen /\ born' = born /\ restarts' = restarts
        BY <1>4 DEF ExecuteRequest
    <2>9. pc' = IF seen[Req(r)] = "running" THEN [pc EXCEPT ![Req(r)] = "done", ![Sup(r)] = "new"]
                ELSE [pc EXCEPT ![Req(r)] = "done"]
        BY <1>4 DEF ExecuteRequest
    <2>1. ASSUME NEW q \in Requests PROVE Handed(q)
        BY <2>7, <2>8, <2>9 DEF Handed, Accepted, Attending, Carries, Claims, Orphaned
    <2>2. ASSUME NEW k \in Proc PROVE Undisturbed(k) \/ Knows(k)'
        <3>1. CASE k # Req(r)
            BY <1>4, <3>1 DEF Undisturbed, Marks, ExecuteRequest
        <3>2. CASE k = Req(r)
            BY <1>4, <3>2 DEF Undisturbed, Marks, ExecuteRequest
        <3> QED
            BY <3>1, <3>2
    <2>3. Orderly
        BY <1>4 DEF Orderly, InHand, HistoryTypeOK, ExecuteRequest
    <2> QED
        BY <2>1, <2>2, <2>3, InHandStill
<1>5. CASE TrackConfirmation(r)
    <2>1. ASSUME NEW q \in Requests PROVE Handed(q)
        BY <1>5, RunningOnly DEF Handed, Accepted, Attending, Carries, Claims, Orphaned, TrackConfirmation
    <2>2. ASSUME NEW k \in Proc PROVE Undisturbed(k) \/ Knows(k)'
        <3>1. CASE k # Req(r)
            BY <1>5, <3>1 DEF Undisturbed, Marks, TrackConfirmation
        <3>2. CASE k = Req(r)
            BY <1>5, <3>2 DEF Knows, InHand, Present, TrackConfirmation
        <3> QED
            BY <3>1, <3>2
    <2>3. Orderly
        <3>1. Present(r)
            BY <1>5 DEF TrackConfirmation, InHand, Knows
        <3> QED
            BY <1>5, <3>1 DEF Orderly, InHand, HistoryTypeOK, TrackConfirmation
    <2> QED
        BY <2>1, <2>2, <2>3, InHandStill
<1>6. CASE FailNewRequest(r)
    <2>1. ASSUME NEW q \in Requests PROVE Handed(q)
        BY <1>6, RunningOnly DEF Handed, Accepted, Attending, Carries, Claims, Orphaned, FailNewRequest, Forget
    <2>2. ASSUME NEW k \in Proc PROVE Undisturbed(k) \/ Knows(k)'
        <3>1. CASE k # Req(r)
            BY <1>6, <3>1 DEF Undisturbed, Marks, FailNewRequest, Forget
        <3>2. CASE k = Req(r)
            BY <1>6, <3>2 DEF Knows, InHand, Present, FailNewRequest, Forget
        <3> QED
            BY <3>1, <3>2
    <2>3. Orderly
        BY <1>6 DEF Orderly, InHand, HistoryTypeOK, FailNewRequest, Forget
    <2> QED
        BY <2>1, <2>2, <2>3, InHandStill
<1> QED
    BY <1>1, <1>2, <1>3, <1>4, <1>5, <1>6, Zenon DEF RequestStep

\* Steps of wait_for_terminal().
LEMMA WaitHand ==
    ASSUME Grounded, Once, Lawful, Unrecorded, Truth, InHand, TypeOK',
           (\A q \in Requests : GoesOn(q)), NEW r \in Requests, WaitStep(r)
    PROVE  InHand'
<1> USE ProcType, ProcParts, ProcDistinct
        DEF Grounded, TypeOK, LocalTypeOK, Aimed, At, AtSup, Go, See, Working, localVars, storeVars,
            memoryVars, dropVars, historyVars
<1>1. CASE WaitStart(r)
    <2>1. ASSUME NEW q \in Requests PROVE Handed(q)
        BY <1>1, RunningOnly DEF Handed, Accepted, Attending, Carries, Claims, Orphaned, WaitStart
    <2>2. ASSUME NEW k \in Proc PROVE Undisturbed(k) \/ Knows(k)'
        <3>1. CASE k # Wait(r)
            BY <1>1, <3>1 DEF Undisturbed, Marks, WaitStart
        <3>2. CASE k = Wait(r)
            BY <1>1, <3>2 DEF Undisturbed, Marks, WaitStart
        <3> QED
            BY <3>1, <3>2
    <2>3. Orderly
        BY <1>1 DEF Orderly, InHand, HistoryTypeOK, WaitStart
    <2> QED
        BY <2>1, <2>2, <2>3, InHandStill
<1>2. CASE WaitRead(r)
    <2>1. ASSUME NEW q \in Requests PROVE Handed(q)
        BY <1>2, RunningOnly DEF Handed, Accepted, Attending, Carries, Claims, Orphaned, WaitRead
    <2>2. ASSUME NEW k \in Proc PROVE Undisturbed(k) \/ Knows(k)'
        <3>1. CASE k # Wait(r)
            BY <1>2, <3>1 DEF Undisturbed, Marks, WaitRead
        <3>2. CASE k = Wait(r)
            BY <1>2, <3>2 DEF Knows, InHand, Present, Begun, WaitRead
        <3> QED
            BY <3>1, <3>2
    <2>3. Orderly
        BY <1>2 DEF Orderly, InHand, HistoryTypeOK, WaitRead
    <2> QED
        BY <2>1, <2>2, <2>3, InHandStill
<1>3. CASE WaitResolved(r)
    <2>1. ASSUME NEW q \in Requests PROVE Handed(q)
        BY <1>3, RunningOnly DEF Handed, Accepted, Attending, Carries, Claims, Orphaned, WaitResolved
    <2>2. ASSUME NEW k \in Proc PROVE Undisturbed(k) \/ Knows(k)'
        <3>1. CASE k # Wait(r)
            BY <1>3, <3>1 DEF Undisturbed, Marks, WaitResolved
        <3>2. CASE k = Wait(r)
            BY <1>3, <3>2 DEF Undisturbed, Marks, WaitResolved
        <3> QED
            BY <3>1, <3>2
    <2>3. Orderly
        BY <1>3 DEF Orderly, InHand, HistoryTypeOK, WaitResolved
    <2> QED
        BY <2>1, <2>2, <2>3, InHandStill
<1>4. CASE WaitExpire(r)
    <2>7. ASSUME NEW q \in Requests PROVE req'[q] = "running" => req[q] = "running"
        BY <1>4, RunningOnly DEF WaitExpire
    <2>8. pc' = [pc EXCEPT ![Wait(r)] = "expired"] /\ target' = target
        BY <1>4 DEF WaitExpire
    <2>9. seen' = [seen EXCEPT ![Wait(r)] = seen'[Wait(r)]] /\ born' = born /\ restarts' = restarts
        BY <1>4 DEF WaitExpire
    <2>1. ASSUME NEW q \in Requests PROVE Handed(q)
        BY <1>4, <2>7, <2>8, <2>9 DEF Handed, Accepted, Attending, Carries, Claims, Orphaned, WaitExpire
    <2>2. ASSUME NEW k \in Proc PROVE Undisturbed(k) \/ Knows(k)'
        <3>1. CASE k # Wait(r)
            BY <1>4, <3>1 DEF Undisturbed, Marks, WaitExpire
        <3>2. CASE k = Wait(r)
            BY <1>4, <3>2 DEF Undisturbed, Marks, WaitExpire
        <3> QED
            BY <3>1, <3>2
    <2>3. Orderly
        BY <1>4 DEF Orderly, InHand, HistoryTypeOK, WaitExpire
    <2> QED
        BY <2>1, <2>2, <2>3, InHandStill
<1>5. CASE WaitExpired(r)
    <2>1. ASSUME NEW q \in Requests PROVE Handed(q)
        BY <1>5, RunningOnly DEF Handed, Accepted, Attending, Carries, Claims, Orphaned, WaitExpired, Forget
    <2>2. ASSUME NEW k \in Proc PROVE Undisturbed(k) \/ Knows(k)'
        <3>1. CASE k # Wait(r)
            BY <1>5, <3>1 DEF Undisturbed, Marks, WaitExpired, Forget
        <3>2. CASE k = Wait(r)
            BY <1>5, <3>2 DEF Undisturbed, Marks, WaitExpired, Forget
        <3> QED
            BY <3>1, <3>2
    <2>3. Orderly
        BY <1>5 DEF Orderly, InHand, HistoryTypeOK, WaitExpired, Forget
    <2> QED
        BY <2>1, <2>2, <2>3, InHandStill
<1>6. CASE WaitTimeout(r)
    <2>1. ASSUME NEW q \in Requests PROVE Handed(q)
        BY <1>6, RunningOnly DEF Handed, Accepted, Attending, Carries, Claims, Orphaned, WaitTimeout
    <2>2. ASSUME NEW k \in Proc PROVE Undisturbed(k) \/ Knows(k)'
        <3>1. CASE k # Wait(r)
            BY <1>6, <3>1 DEF Undisturbed, Marks, WaitTimeout
        <3>2. CASE k = Wait(r)
            <4>1. Begun(r) /\ req' = req
                BY <1>6 DEF WaitTimeout, InHand, Knows
            <4>2. pc'[k] = "exec_wait" /\ target'[k] = r /\ k[1] = "wait"
                BY <1>6, <3>2 DEF WaitTimeout
            <4> QED
                BY <4>1, <4>2 DEF Knows, Begun, Present, Settled
        <3> QED
            BY <3>1, <3>2
    <2>3. Orderly
        BY <1>6 DEF Orderly, InHand, HistoryTypeOK, WaitTimeout
    <2> QED
        BY <2>1, <2>2, <2>3, InHandStill
<1>7. CASE WaitFail(r)
    <2>7. ASSUME NEW q \in Requests PROVE req'[q] = "running" => req[q] = "running"
        BY <1>7, RunningOnly DEF WaitFail
    <2>8. pc' = [pc EXCEPT ![Wait(r)] = "failed"] /\ target' = target
        BY <1>7 DEF WaitFail
    <2>9. seen' = [seen EXCEPT ![Wait(r)] = seen'[Wait(r)]] /\ born' = born /\ restarts' = restarts
        BY <1>7 DEF WaitFail
    <2>1. ASSUME NEW q \in Requests PROVE Handed(q)
        BY <1>7, <2>7, <2>8, <2>9 DEF Handed, Accepted, Attending, Carries, Claims, Orphaned, WaitFail
    <2>2. ASSUME NEW k \in Proc PROVE Undisturbed(k) \/ Knows(k)'
        <3>1. CASE k # Wait(r)
            BY <1>7, <3>1 DEF Undisturbed, Marks, WaitFail
        <3>2. CASE k = Wait(r)
            <4>1. Begun(r)
                BY <1>7 DEF WaitFail, InHand, Knows
            <4>2. req'[r] \in Settled
                BY <1>7, <4>1 DEF WaitFail, Fail, TransitionRequest, Begun, Settled, StoreTypeOK
            <4>3. pc'[k] = "failed" /\ target'[k] = r /\ k[1] = "wait"
                BY <1>7, <3>2 DEF WaitFail
            <4> QED
                BY <4>2, <4>3 DEF Knows, Ended
        <3> QED
            BY <3>1, <3>2
    <2>3. Orderly
        BY <1>7 DEF Orderly, InHand, HistoryTypeOK, WaitFail
    <2> QED
        BY <2>1, <2>2, <2>3, InHandStill
<1>8. CASE WaitFailed(r)
    <2>1. ASSUME NEW q \in Requests PROVE Handed(q)
        BY <1>8, RunningOnly DEF Handed, Accepted, Attending, Carries, Claims, Orphaned, WaitFailed, CancelTask
    <2>2. ASSUME NEW k \in Proc PROVE Undisturbed(k) \/ Knows(k)'
        <3>1. CASE k # Wait(r)
            BY <1>8, <3>1 DEF Undisturbed, Marks, WaitFailed, CancelTask
        <3>2. CASE k = Wait(r)
            BY <1>8, <3>2 DEF Undisturbed, Marks, WaitFailed, CancelTask
        <3> QED
            BY <3>1, <3>2
    <2>3. Orderly
        <3>1. Ended(r)
            BY <1>8 DEF WaitFailed, InHand, Knows
        <3> QED
            BY <1>8, <3>1 DEF Orderly, InHand, HistoryTypeOK, WaitFailed, CancelTask
    <2> QED
        BY <2>1, <2>2, <2>3, InHandStill
<1> QED
    BY <1>1, <1>2, <1>3, <1>4, <1>5, <1>6, <1>7, <1>8, Zenon DEF WaitStep

\* Steps of supervisors.
LEMMA SupHand ==
    ASSUME Grounded, Once, Lawful, Unrecorded, Truth, InHand, TypeOK',
           (\A q \in Requests : GoesOn(q)), NEW r \in Requests, SupStep(r)
    PROVE  InHand'
<1> USE ProcType, ProcParts, ProcDistinct
        DEF Grounded, TypeOK, LocalTypeOK, Aimed, At, AtSup, Go, See, Working, localVars, storeVars,
            memoryVars, dropVars, historyVars
<1>1. CASE SupStart(r)
    <2>1. ASSUME NEW q \in Requests PROVE Handed(q)
        BY <1>1, RunningOnly DEF Handed, Accepted, Attending, Carries, Claims, Orphaned, SupStart, RunHandler
    <2>2. ASSUME NEW k \in Proc PROVE Undisturbed(k) \/ Knows(k)'
        <3>1. CASE k # Sup(r)
            BY <1>1, <3>1 DEF Undisturbed, Marks, SupStart, RunHandler
        <3>2. CASE k = Sup(r)
            <4>1. Present(r)
                BY <1>1, SupBegun DEF SupStart, Begun, Present, Settled
            <4> QED
                BY <1>1, <3>2, <4>1 DEF Knows, Present, SupStart, RunHandler
        <3> QED
            BY <3>1, <3>2
    <2>3. Orderly
        BY <1>1 DEF Orderly, InHand, HistoryTypeOK, SupStart, RunHandler
    <2> QED
        BY <2>1, <2>2, <2>3, InHandStill
<1>2. CASE SupLock(r)
    <2>1. ASSUME NEW q \in Requests PROVE Handed(q)
        BY <1>2, RunningOnly DEF Handed, Accepted, Attending, Carries, Claims, Orphaned, SupLock
    <2>2. ASSUME NEW k \in Proc PROVE Undisturbed(k) \/ Knows(k)'
        <3>1. CASE k # Sup(r)
            BY <1>2, <3>1 DEF Undisturbed, Marks, SupLock
        <3>2. CASE k = Sup(r)
            BY <1>2, <3>2 DEF Knows, InHand, Present, SupLock
        <3> QED
            BY <3>1, <3>2
    <2>3. Orderly
        BY <1>2 DEF Orderly, InHand, HistoryTypeOK, SupLock
    <2> QED
        BY <2>1, <2>2, <2>3, InHandStill
<1>3. CASE SupCheck(r)
    <2>1. ASSUME NEW q \in Requests PROVE Handed(q)
        BY <1>3, RunningOnly DEF Handed, Accepted, Attending, Carries, Claims, Orphaned, SupCheck, Forget
    <2>2. ASSUME NEW k \in Proc PROVE Undisturbed(k) \/ Knows(k)'
        <3>1. CASE k # Sup(r)
            BY <1>3, <3>1 DEF Undisturbed, Marks, SupCheck, Forget
        <3>2. CASE k = Sup(r)
            BY <1>3, <3>2 DEF Knows, InHand, Present, SupCheck, Forget
        <3> QED
            BY <3>1, <3>2
    <2>3. Orderly
        BY <1>3 DEF Orderly, InHand, HistoryTypeOK, SupCheck, Forget
    <2> QED
        BY <2>1, <2>2, <2>3, InHandStill
<1>4. CASE SupChecked(r)
    <2>1. ASSUME NEW q \in Requests PROVE Handed(q)
        BY <1>4, RunningOnly DEF Handed, Accepted, Attending, Carries, Claims, Orphaned, SupChecked, Forget, RunHandler
    <2>2. ASSUME NEW k \in Proc PROVE Undisturbed(k) \/ Knows(k)'
        <3>1. CASE k # Sup(r)
            BY <1>4, <3>1 DEF Undisturbed, Marks, SupChecked, Forget, RunHandler
        <3>2. CASE k = Sup(r)
            BY <1>4, <3>2 DEF Undisturbed, Marks, SupChecked, Forget, RunHandler
        <3> QED
            BY <3>1, <3>2
    <2>3. Orderly
        BY <1>4 DEF Orderly, InHand, HistoryTypeOK, SupChecked, Forget, RunHandler
    <2> QED
        BY <2>1, <2>2, <2>3, InHandStill
<1>5. CASE SupFailed(r)
    <2>1. ASSUME NEW q \in Requests PROVE Handed(q)
        BY <1>5, RunningOnly DEF Handed, Accepted, Attending, Carries, Claims, Orphaned, SupFailed
    <2>2. ASSUME NEW k \in Proc PROVE Undisturbed(k) \/ Knows(k)'
        <3>1. CASE k # Sup(r)
            BY <1>5, <3>1 DEF Undisturbed, Marks, SupFailed
        <3>2. CASE k = Sup(r)
            BY <1>5, <3>2 DEF Undisturbed, Marks, SupFailed
        <3> QED
            BY <3>1, <3>2
    <2>3. Orderly
        BY <1>5 DEF Orderly, InHand, HistoryTypeOK, SupFailed
    <2> QED
        BY <2>1, <2>2, <2>3, InHandStill
<1>6. CASE HandlerEnds(r)
    <2>1. ASSUME NEW q \in Requests PROVE Handed(q)
        BY <1>6, RunningOnly DEF Handed, Accepted, Attending, Carries, Claims, Orphaned, HandlerEnds
    <2>2. ASSUME NEW k \in Proc PROVE Undisturbed(k) \/ Knows(k)'
        <3>1. CASE k # Sup(r)
            BY <1>6, <3>1 DEF Undisturbed, Marks, HandlerEnds
        <3>2. CASE k = Sup(r)
            BY <1>6, <3>2 DEF Undisturbed, Marks, HandlerEnds
        <3> QED
            BY <3>1, <3>2
    <2>3. Orderly
        BY <1>6 DEF Orderly, InHand, HistoryTypeOK, HandlerEnds
    <2> QED
        BY <2>1, <2>2, <2>3, InHandStill
<1>7. CASE SupTimeout(r)
    <2>1. ASSUME NEW q \in Requests PROVE Handed(q)
        BY <1>7, RunningOnly DEF Handed, Accepted, Attending, Carries, Claims, Orphaned, SupTimeout, Interruptible
    <2>2. ASSUME NEW k \in Proc PROVE Undisturbed(k) \/ Knows(k)'
        <3>1. CASE k # Sup(r)
            BY <1>7, <3>1 DEF Undisturbed, Marks, SupTimeout, Interruptible
        <3>2. CASE k = Sup(r)
            BY <1>7, <3>2 DEF Undisturbed, Marks, SupTimeout, Interruptible
        <3> QED
            BY <3>1, <3>2
    <2>3. Orderly
        BY <1>7 DEF Orderly, InHand, HistoryTypeOK, SupTimeout, Interruptible
    <2> QED
        BY <2>1, <2>2, <2>3, InHandStill
<1>8. CASE CommitSuccess(r)
    <2>7. ASSUME NEW q \in Requests PROVE req'[q] = "running" => req[q] = "running"
        BY <1>8, RunningOnly DEF CommitSuccess
    <2>8. pc' = [pc EXCEPT ![Sup(r)] = "succeeded"] /\ target' = target
        BY <1>8 DEF CommitSuccess
    <2>9. seen' = [seen EXCEPT ![Sup(r)] = seen'[Sup(r)]] /\ born' = born /\ restarts' = restarts
        BY <1>8 DEF CommitSuccess
    <2>6. req'[r] # "running"
        BY <1>8, RunningOnly DEF CommitSuccess
    <2>1. ASSUME NEW q \in Requests PROVE Handed(q)
        BY <2>6, <2>7, <2>8, <2>9 DEF Handed, Accepted, Attending, Carries, Claims, Orphaned
    <2>2. ASSUME NEW k \in Proc PROVE Undisturbed(k) \/ Knows(k)'
        <3>1. CASE k # Sup(r)
            BY <1>8, <3>1 DEF Undisturbed, Marks, CommitSuccess
        <3>2. CASE k = Sup(r)
            BY <1>8, <3>2 DEF Undisturbed, Marks, CommitSuccess
        <3> QED
            BY <3>1, <3>2
    <2>3. Orderly
        BY <1>8 DEF Orderly, InHand, HistoryTypeOK, CommitSuccess
    <2> QED
        BY <2>1, <2>2, <2>3, InHandStill
<1>9. CASE CommitFailure(r)
    <2> PICK e : Fail(r, e)
        BY <1>9 DEF CommitFailure
    <2>6. req'[r] # "running"
        BY RunningOnly
    <2>7. ASSUME NEW q \in Requests PROVE req'[q] = "running" => req[q] = "running"
        BY RunningOnly
    <2>8. pc' = [pc EXCEPT ![Sup(r)] = "failed"] /\ target' = target
        BY <1>9 DEF CommitFailure
    <2>9. seen' = [seen EXCEPT ![Sup(r)] = seen'[Sup(r)]] /\ born' = born /\ restarts' = restarts
        BY <1>9 DEF CommitFailure
    <2>1. ASSUME NEW q \in Requests PROVE Handed(q)
        BY <2>6, <2>7, <2>8, <2>9 DEF Handed, Accepted, Attending, Carries, Claims, Orphaned
    <2>2. ASSUME NEW k \in Proc PROVE Undisturbed(k) \/ Knows(k)'
        <3>1. CASE k # Sup(r)
            BY <1>9, <3>1 DEF Undisturbed, Marks, CommitFailure, FailureCode
        <3>2. CASE k = Sup(r)
            <4>1. Begun(r)
                BY <1>9, SupBegun DEF CommitFailure, FailureCode
            <4>2. req'[r] \in Settled
                BY <4>1 DEF Fail, TransitionRequest, Begun, Settled, StoreTypeOK
            <4>3. pc'[k] = "failed" /\ target'[k] = r /\ k[1] = "supervise"
                BY <2>8, <3>2
            <4> QED
                BY <4>2, <4>3 DEF Knows, Ended
        <3> QED
            BY <3>1, <3>2
    <2>3. Orderly
        BY <1>9 DEF Orderly, InHand, HistoryTypeOK, CommitFailure, FailureCode
    <2> QED
        BY <2>1, <2>2, <2>3, InHandStill
<1>10. CASE SupSettle(r)
    <2>1. ASSUME NEW q \in Requests PROVE Handed(q)
        BY <1>10, RunningOnly DEF Handed, Accepted, Attending, Carries, Claims, Orphaned, SupSettle
    <2>2. ASSUME NEW k \in Proc PROVE Undisturbed(k) \/ Knows(k)'
        <3>1. CASE k # Sup(r)
            BY <1>10, <3>1 DEF Undisturbed, Marks, SupSettle
        <3>2. CASE k = Sup(r)
            BY <1>10, <3>2 DEF Undisturbed, Marks, SupSettle
        <3> QED
            BY <3>1, <3>2
    <2>3. Orderly
        BY <1>10 DEF Orderly, InHand, HistoryTypeOK, SupSettle
    <2> QED
        BY <2>1, <2>2, <2>3, InHandStill
<1>11. CASE SupReleased(r)
    <2>1. ASSUME NEW q \in Requests PROVE Handed(q)
        BY <1>11, RunningOnly DEF Handed, Accepted, Attending, Carries, Claims, Orphaned, SupReleased
    <2>2. ASSUME NEW k \in Proc PROVE Undisturbed(k) \/ Knows(k)'
        <3>1. CASE k # Sup(r)
            BY <1>11, <3>1 DEF Undisturbed, Marks, SupReleased
        <3>2. CASE k = Sup(r)
            BY <1>11, <3>2 DEF Undisturbed, Marks, SupReleased
        <3> QED
            BY <3>1, <3>2
    <2>3. Orderly
        BY <1>11 DEF Orderly, InHand, HistoryTypeOK, SupReleased
    <2> QED
        BY <2>1, <2>2, <2>3, InHandStill
<1>12. CASE SupCancelled(r)
    <2>7. req[r] \in Settled /\ req' = req /\ target' = target /\ seen' = seen
        BY <1>12 DEF SupCancelled, InHand, Ended
    <2>8. \E l \in {"reread", "done"} : pc' = [pc EXCEPT ![Sup(r)] = l]
        BY <1>12 DEF SupCancelled
    <2>9. born' = born /\ restarts' = restarts
        BY <1>12 DEF SupCancelled
    <2>1. ASSUME NEW q \in Requests PROVE Handed(q)
        BY <2>7, <2>8, <2>9 DEF Handed, Accepted, Attending, Carries, Claims, Orphaned, Settled
    <2>2. ASSUME NEW k \in Proc PROVE Undisturbed(k) \/ Knows(k)'
        <3>1. CASE k # Sup(r)
            BY <1>12, <3>1 DEF Undisturbed, Marks, SupCancelled, Interruptible
        <3>2. CASE k = Sup(r)
            <4>1. pc'[k] \in {"reread", "done"} /\ target'[k] = r /\ k[1] = "supervise" /\ req'[r] \in Settled
                BY <2>7, <2>8, <3>2
            <4> QED
                BY <4>1 DEF Knows, Present, Settled
        <3> QED
            BY <3>1, <3>2
    <2>3. Orderly
        BY <1>12 DEF Orderly, InHand, HistoryTypeOK, SupCancelled, Interruptible
    <2> QED
        BY <2>1, <2>2, <2>3, InHandStill
<1>13. CASE SupReread(r)
    <2>1. ASSUME NEW q \in Requests PROVE Handed(q)
        BY <1>13, RunningOnly DEF Handed, Accepted, Attending, Carries, Claims, Orphaned, SupReread
    <2>2. ASSUME NEW k \in Proc PROVE Undisturbed(k) \/ Knows(k)'
        <3>1. CASE k # Sup(r)
            BY <1>13, <3>1 DEF Undisturbed, Marks, SupReread
        <3>2. CASE k = Sup(r)
            BY <1>13, <3>2 DEF Undisturbed, Marks, SupReread
        <3> QED
            BY <3>1, <3>2
    <2>3. Orderly
        BY <1>13 DEF Orderly, InHand, HistoryTypeOK, SupReread
    <2> QED
        BY <2>1, <2>2, <2>3, InHandStill
<1>14. CASE SupAborts(r)
    <2>1. ASSUME NEW q \in Requests PROVE Handed(q)
        BY <1>14, RunningOnly DEF Handed, Accepted, Attending, Carries, Claims, Orphaned, SupAborts
    <2>2. ASSUME NEW k \in Proc PROVE Undisturbed(k)
        BY <1>14 DEF Undisturbed, Marks, SupAborts
    <2>3. Orderly
        BY <1>14 DEF Orderly, InHand, HistoryTypeOK, SupAborts
    <2> QED
        BY <2>1, <2>2, <2>3, InHandStill
<1> QED
    BY <1>1, <1>2, <1>3, <1>4, <1>5, <1>6, <1>7, <1>8, <1>9, <1>10, <1>11, <1>12, <1>13, <1>14, Zenon DEF SupStep

\* Steps of decide().
LEMMA DecideHand ==
    ASSUME Grounded, Once, Lawful, Unrecorded, Truth, InHand, TypeOK',
           (\A q \in Requests : GoesOn(q)), NEW d \in Deciders, DecideStep(d)
    PROVE  InHand'
<1> USE ProcType, ProcParts, ProcDistinct
        DEF Grounded, TypeOK, LocalTypeOK, Aimed, At, AtSup, Go, See, Working, localVars, storeVars,
            memoryVars, dropVars, historyVars
<1>1. CASE DecideLock(d)
    <2>1. ASSUME NEW q \in Requests PROVE Handed(q)
        BY <1>1, RunningOnly DEF Handed, Accepted, Attending, Carries, Claims, Orphaned, DecideLock
    <2>2. ASSUME NEW k \in Proc PROVE Undisturbed(k) \/ Knows(k)'
        <3>1. CASE k # Dec(d)
            BY <1>1, <3>1 DEF Undisturbed, Marks, DecideLock
        <3>2. CASE k = Dec(d)
            BY <1>1, <3>2 DEF Knows, InHand, Present, DecideLock
        <3> QED
            BY <3>1, <3>2
    <2>3. Orderly
        BY <1>1 DEF Orderly, InHand, HistoryTypeOK, DecideLock
    <2> QED
        BY <2>1, <2>2, <2>3, InHandStill
<1>2. CASE DecideClaim(d)
    <2>5. target[Dec(d)] \in Requests
        BY <1>2 DEF DecideClaim
    <2>6. conf[target[Dec(d)]] = "pending" => seen'[Dec(d)] = req'[target[Dec(d)]]
        BY <1>2 DEF DecideClaim
    <2>7. ASSUME NEW q \in Requests, q # target[Dec(d)] PROVE req'[q] = "running" => req[q] = "running"
        BY <1>2, <2>5, <2>7 DEF DecideClaim, ClaimDecision, StoreTypeOK
    <2>4. conf[target[Dec(d)]] # "pending" => req' = req
        BY <1>2 DEF DecideClaim, ClaimDecision
    <2>8. pc' = [pc EXCEPT ![Dec(d)] = "claimed"] /\ target' = target
        BY <1>2 DEF DecideClaim
    <2>9. seen' = [seen EXCEPT ![Dec(d)] = seen'[Dec(d)]] /\ born' = born /\ restarts' = restarts
        BY <1>2 DEF DecideClaim
    <2>10. pc[Dec(d)] = "exec_wait"
        BY <1>2 DEF DecideClaim
    <2>1. ASSUME NEW q \in Requests PROVE Handed(q) \/ Attended(q)'
        <3>1. CASE q = target[Dec(d)] /\ conf[q] = "pending" /\ req'[q] = "running"
            <4>1. Claims(d)' /\ target'[Dec(d)] = q
                BY <2>6, <2>8, <3>1 DEF Claims
            <4> QED
                BY <4>1, Zenon DEF Attended, Carries
        <3>2. CASE req'[q] = "running" => req[q] = "running"
            BY <2>8, <2>9, <2>10, <3>2 DEF Handed, Accepted, Attending, Carries, Claims, Orphaned
        <3> QED
            BY <2>4, <2>7, <3>1, <3>2
    <2>2. ASSUME NEW k \in Proc PROVE Undisturbed(k) \/ Knows(k)'
        <3>1. CASE k # Dec(d)
            BY <1>2, <3>1 DEF Undisturbed, Marks, DecideClaim
        <3>2. CASE k = Dec(d)
            BY <1>2, <3>2 DEF Undisturbed, Marks, DecideClaim
        <3> QED
            BY <3>1, <3>2
    <2>3. Orderly
        BY <1>2 DEF Orderly, InHand, HistoryTypeOK, DecideClaim
    <2> QED
        BY <2>1, <2>2, <2>3, InHandStill
<1>3. CASE DecideRefused(d)
    <2>1. ASSUME NEW q \in Requests PROVE Handed(q)
        BY <1>3, RunningOnly DEF Handed, Accepted, Attending, Carries, Claims, Orphaned, DecideRefused
    <2>2. ASSUME NEW k \in Proc PROVE Undisturbed(k) \/ Knows(k)'
        <3>1. CASE k # Dec(d)
            BY <1>3, <3>1 DEF Undisturbed, Marks, DecideRefused
        <3>2. CASE k = Dec(d)
            BY <1>3, <3>2 DEF Undisturbed, Marks, DecideRefused
        <3> QED
            BY <3>1, <3>2
    <2>3. Orderly
        BY <1>3 DEF Orderly, InHand, HistoryTypeOK, DecideRefused
    <2> QED
        BY <2>1, <2>2, <2>3, InHandStill
<1>4. CASE DecideApproved(d)
    <2>1. ASSUME NEW q \in Requests PROVE Handed(q)
        BY <1>4, RunningOnly DEF Handed, Accepted, Attending, Carries, Claims, Orphaned, DecideApproved, Forget
    <2>2. ASSUME NEW k \in Proc PROVE Undisturbed(k) \/ Knows(k)'
        <3>1. CASE k # Dec(d)
            BY <1>4, <3>1 DEF Undisturbed, Marks, DecideApproved, Forget
        <3>2. CASE k = Dec(d)
            <4>1. Claims(d)
                BY <1>4 DEF DecideApproved, Claims
            <4>2. target[Dec(d)] \in Requests /\ req[target[Dec(d)]] # "absent"
                BY <4>1, ClaimBegun DEF Begun, Settled
            <4>3. pc'[k] \in {"fail_cancel", "recheck", "start", "no_context"} /\ target'[k] = target[Dec(d)] /\ req' = req
                BY <1>4, <3>2 DEF DecideApproved
            <4> QED
                BY <3>2, <4>2, <4>3 DEF Knows, Present
        <3> QED
            BY <3>1, <3>2
    <2>3. Orderly
        BY <1>4 DEF Orderly, InHand, HistoryTypeOK, DecideApproved, Forget
    <2> QED
        BY <2>1, <2>2, <2>3, InHandStill
<1>5. CASE DecideReread(d)
    <2>1. ASSUME NEW q \in Requests PROVE Handed(q)
        BY <1>5, RunningOnly DEF Handed, Accepted, Attending, Carries, Claims, Orphaned, DecideReread
    <2>2. ASSUME NEW k \in Proc PROVE Undisturbed(k) \/ Knows(k)'
        <3>1. CASE k # Dec(d)
            BY <1>5, <3>1 DEF Undisturbed, Marks, DecideReread
        <3>2. CASE k = Dec(d)
            <4>1. Claims(d)
                BY <1>5 DEF DecideReread, Claims
            <4>2. req[target[Dec(d)]] \in {"running"} \cup Settled
                BY <4>1, ClaimBegun DEF Begun
            <4>3. pc'[k] = "rechecked" /\ seen'[k] = req[target[Dec(d)]]
                BY <1>5, <3>2 DEF DecideReread
            <4> QED
                BY <3>2, <4>2, <4>3 DEF Knows
        <3> QED
            BY <3>1, <3>2
    <2>3. Orderly
        BY <1>5 DEF Orderly, InHand, HistoryTypeOK, DecideReread
    <2> QED
        BY <2>1, <2>2, <2>3, InHandStill
<1>6. CASE DecideRechecked(d)
    <2>6. target[Dec(d)] \in Requests
        BY <1>6 DEF DecideRechecked
    <2>7. seen[Dec(d)] \in Settled => req[target[Dec(d)]] # "running"
        BY DEF Truth, Fits, Settled
    <2>8. req' = req /\ target' = target /\ seen' = seen /\ born' = born /\ restarts' = restarts
        BY <1>6 DEF DecideRechecked
    <2>9. \/ pc' = [pc EXCEPT ![Dec(d)] = "done"] /\ seen[Dec(d)] \in Settled
          \/ \E l \in {"fail_cancel", "no_context", "start"} : pc' = [pc EXCEPT ![Dec(d)] = l]
        BY <1>6 DEF DecideRechecked
    <2>5. \A k \in Proc : k # Dec(d) => pc'[k] = pc[k]
        BY <2>9
    <2>1. ASSUME NEW q \in Requests PROVE Handed(q)
        BY <1>6, <2>5, <2>6, <2>7, <2>8, <2>9
        DEF DecideRechecked, Handed, Accepted, Attending, Carries, Claims, Orphaned
    <2>2. ASSUME NEW k \in Proc PROVE Undisturbed(k) \/ Knows(k)'
        <3>1. CASE k # Dec(d)
            BY <1>6, <3>1 DEF Undisturbed, Marks, DecideRechecked, Forget
        <3>2. CASE k = Dec(d)
            <4>1. Claims(d)
                BY <1>6 DEF DecideRechecked, Claims
            <4>2. target[Dec(d)] \in Requests /\ req[target[Dec(d)]] # "absent"
                BY <4>1, ClaimBegun DEF Begun, Settled
            <4>3. pc'[k] \in {"fail_cancel", "done", "start", "no_context"} /\ target'[k] = target[Dec(d)] /\ req' = req
                BY <1>6, <3>2 DEF DecideRechecked, Forget
            <4> QED
                BY <3>2, <4>2, <4>3 DEF Knows, Present
        <3> QED
            BY <3>1, <3>2
    <2>3. Orderly
        BY <1>6 DEF Orderly, InHand, HistoryTypeOK, DecideRechecked, Forget
    <2> QED
        BY <2>1, <2>2, <2>3, InHandStill
<1>7. CASE DecideNoContext(d)
    <2>5. target[Dec(d)] \in Requests
        BY <1>7 DEF DecideNoContext
    <2>6. req'[target[Dec(d)]] # "running"
        BY <1>7, <2>5, RunningOnly DEF DecideNoContext
    <2>7. ASSUME NEW q \in Requests PROVE req'[q] = "running" => req[q] = "running"
        BY <1>7, RunningOnly DEF DecideNoContext
    <2>8. pc' = [pc EXCEPT ![Dec(d)] = "publish"] /\ target' = target
        BY <1>7 DEF DecideNoContext
    <2>9. seen' = [seen EXCEPT ![Dec(d)] = seen'[Dec(d)]] /\ born' = born /\ restarts' = restarts
        BY <1>7 DEF DecideNoContext
    <2>1. ASSUME NEW q \in Requests PROVE Handed(q)
        BY <2>6, <2>7, <2>8, <2>9 DEF Handed, Accepted, Attending, Carries, Claims, Orphaned
    <2>2. ASSUME NEW k \in Proc PROVE Undisturbed(k) \/ Knows(k)'
        <3>1. CASE k # Dec(d)
            BY <1>7, <3>1 DEF Undisturbed, Marks, DecideNoContext
        <3>2. CASE k = Dec(d)
            BY <1>7, <3>2 DEF Undisturbed, Marks, DecideNoContext
        <3> QED
            BY <3>1, <3>2
    <2>3. Orderly
        BY <1>7 DEF Orderly, InHand, HistoryTypeOK, DecideNoContext
    <2> QED
        BY <2>1, <2>2, <2>3, InHandStill
<1>8. CASE DecideStart(d)
    <2>7. ASSUME NEW q \in Requests PROVE req'[q] = "running" => req[q] = "running"
        BY <1>8, RunningOnly DEF DecideStart
    <2>8. pc' = [pc EXCEPT ![Dec(d)] = "started"] /\ target' = target
        BY <1>8 DEF DecideStart
    <2>9. seen' = [seen EXCEPT ![Dec(d)] = seen'[Dec(d)]] /\ born' = born /\ restarts' = restarts
        BY <1>8 DEF DecideStart
    <2>1. ASSUME NEW q \in Requests PROVE Handed(q)
        BY <2>7, <2>8, <2>9 DEF Handed, Accepted, Attending, Carries, Claims, Orphaned
    <2>2. ASSUME NEW k \in Proc PROVE Undisturbed(k) \/ Knows(k)'
        <3>1. CASE k # Dec(d)
            BY <1>8, <3>1 DEF Undisturbed, Marks, DecideStart
        <3>2. CASE k = Dec(d)
            <4>1. Claims(d)
                BY <1>8 DEF DecideStart, Claims
            <4>2. req[target[Dec(d)]] \in {"running"} \cup Settled
                BY <4>1, ClaimBegun DEF Begun
            <4>3. pc'[k] = "started" /\ seen'[k] = req[target[Dec(d)]]
                BY <1>8, <3>2 DEF DecideStart
            <4> QED
                BY <3>2, <4>2, <4>3 DEF Knows
        <3> QED
            BY <3>1, <3>2
    <2>3. Orderly
        BY <1>8 DEF Orderly, InHand, HistoryTypeOK, DecideStart
    <2> QED
        BY <2>1, <2>2, <2>3, InHandStill
<1>9. CASE DecideStarted(d)
    <2>5. target[Dec(d)] \in Requests /\ pc[Dec(d)] = "started"
        BY <1>9 DEF DecideStarted
    <2>6. seen[Dec(d)] \in {"running"} \cup Settled
        BY <2>5 DEF InHand, Knows
    <2>7. seen[Dec(d)] # "running" => req[target[Dec(d)]] # "running"
        BY <2>6 DEF Truth, Fits, Settled
    <2>8. req' = req /\ target' = target /\ seen' = seen /\ born' = born /\ restarts' = restarts
        BY <1>9 DEF DecideStarted
    <2>9. \/ pc' = [pc EXCEPT ![Dec(d)] = "publish"] /\ seen[Dec(d)] # "running"
          \/ pc' = [pc EXCEPT ![Dec(d)] = "fail_cancel"]
          \/ pc' = [pc EXCEPT ![Dec(d)] = "publish", ![Sup(target[Dec(d)])] = "new"]
        BY <1>9 DEF DecideStarted
    <2>1. ASSUME NEW q \in Requests PROVE Handed(q)
        BY <2>5, <2>6, <2>7, <2>8, <2>9 DEF Handed, Accepted, Attending, Carries, Claims, Orphaned
    <2>2. ASSUME NEW k \in Proc PROVE Undisturbed(k) \/ Knows(k)'
        <3>1. CASE k # Dec(d)
            BY <1>9, <3>1 DEF Undisturbed, Marks, DecideStarted, Forget
        <3>2. CASE k = Dec(d)
            <4>1. Claims(d)
                BY <1>9 DEF DecideStarted, Claims
            <4>2. target[Dec(d)] \in Requests /\ req[target[Dec(d)]] # "absent"
                BY <4>1, ClaimBegun DEF Begun, Settled
            <4>3. pc'[k] \in {"fail_cancel", "publish"} /\ target'[k] = target[Dec(d)] /\ req' = req
                BY <1>9, <3>2 DEF DecideStarted, Forget
            <4> QED
                BY <3>2, <4>2, <4>3 DEF Knows, Present
        <3> QED
            BY <3>1, <3>2
    <2>3. Orderly
        BY <1>9 DEF Orderly, InHand, HistoryTypeOK, DecideStarted, Forget
    <2> QED
        BY <2>1, <2>2, <2>3, InHandStill
<1> QED
    BY <1>1, <1>2, <1>3, <1>4, <1>5, <1>6, <1>7, <1>8, <1>9, Zenon DEF DecideStep

\* Steps of cancel().
LEMMA CancelHand ==
    ASSUME Grounded, Once, Lawful, Unrecorded, Truth, InHand, TypeOK',
           (\A q \in Requests : GoesOn(q)), NEW c \in Cancellers, CancelStep(c)
    PROVE  InHand'
<1> USE ProcType, ProcParts, ProcDistinct
        DEF Grounded, TypeOK, LocalTypeOK, Aimed, At, AtSup, Go, See, Working, localVars, storeVars,
            memoryVars, dropVars, historyVars
<1>1. CASE CancelCommit(c)
    <2>7. ASSUME NEW q \in Requests PROVE req'[q] = "running" => req[q] = "running"
        BY <1>1, RunningOnly DEF CancelCommit
    <2>8. pc' = [pc EXCEPT ![Can(c)] = "cancelled"] /\ target' = target
        BY <1>1 DEF CancelCommit
    <2>9. seen' = [seen EXCEPT ![Can(c)] = seen'[Can(c)]] /\ born' = born /\ restarts' = restarts
        BY <1>1 DEF CancelCommit
    <2>1. ASSUME NEW q \in Requests PROVE Handed(q)
        BY <2>7, <2>8, <2>9 DEF Handed, Accepted, Attending, Carries, Claims, Orphaned
    <2>2. ASSUME NEW k \in Proc PROVE Undisturbed(k) \/ Knows(k)'
        <3>1. CASE k # Can(c)
            BY <1>1, <3>1 DEF Undisturbed, Marks, CancelCommit
        <3>2. CASE k = Can(c)
            <4>1. target[Can(c)] \in Requests /\ req[target[Can(c)]] # "absent"
                BY <1>1 DEF CancelCommit, InHand, Knows, Present
            <4>2. req'[target[Can(c)]] \in Settled
                BY <1>1, <4>1 DEF CancelCommit, CancelRequest, StoreTypeOK, RequestState, Settled
            <4>3. pc'[k] = "cancelled" /\ target'[k] = target[Can(c)] /\ k[1] = "cancel"
                BY <2>8, <3>2
            <4> QED
                BY <4>2, <4>3 DEF Knows, Ended
        <3> QED
            BY <3>1, <3>2
    <2>3. Orderly
        BY <1>1 DEF Orderly, InHand, HistoryTypeOK, CancelCommit
    <2> QED
        BY <2>1, <2>2, <2>3, InHandStill
<1>2. CASE CancelResume(c)
    <2>1. ASSUME NEW q \in Requests PROVE Handed(q)
        BY <1>2, RunningOnly DEF Handed, Accepted, Attending, Carries, Claims, Orphaned, CancelResume, CancelTask, Forget
    <2>2. ASSUME NEW k \in Proc PROVE Undisturbed(k) \/ Knows(k)'
        <3>1. CASE k # Can(c)
            BY <1>2, <3>1 DEF Undisturbed, Marks, CancelResume, CancelTask, Forget
        <3>2. CASE k = Can(c)
            BY <1>2, <3>2 DEF Undisturbed, Marks, CancelResume, CancelTask, Forget
        <3> QED
            BY <3>1, <3>2
    <2>3. Orderly
        <3>1. Ended(target[Can(c)])
            BY <1>2 DEF CancelResume, InHand, Knows
        <3> QED
            BY <1>2, <3>1 DEF Orderly, InHand, HistoryTypeOK, CancelResume, CancelTask, Forget
    <2> QED
        BY <2>1, <2>2, <2>3, InHandStill
<1> QED
    BY <1>1, <1>2, Zenon DEF CancelStep

\* Steps of disconnects.
LEMMA DropHand ==
    ASSUME Grounded, Once, Lawful, Unrecorded, Truth, InHand, TypeOK',
           (\A q \in Requests : GoesOn(q)), NEW x \in Drops, DropStep(x)
    PROVE  InHand'
<1> USE ProcType, ProcParts, ProcDistinct
        DEF Grounded, TypeOK, LocalTypeOK, Aimed, At, AtSup, Go, See, Working, localVars, storeVars,
            memoryVars, dropVars, historyVars
<1>1. CASE DropBump(x)
    <2>1. ASSUME NEW q \in Requests PROVE Handed(q)
        BY <1>1, RunningOnly DEF Handed, Accepted, Attending, Carries, Claims, Orphaned, DropBump
    <2>2. ASSUME NEW k \in Proc PROVE Undisturbed(k) \/ Knows(k)'
        <3>1. CASE k # Drop(x)
            BY <1>1, <3>1 DEF Undisturbed, Marks, DropBump
        <3>2. CASE k = Drop(x)
            BY <1>1, <3>2 DEF Undisturbed, Marks, DropBump
        <3> QED
            BY <3>1, <3>2
    <2>3. Orderly
        BY <1>1 DEF Orderly, InHand, HistoryTypeOK, DropBump
    <2> QED
        BY <2>1, <2>2, <2>3, InHandStill
<1>2. CASE \E r \in Requests : DropNext(x, r)
    <2> PICK r \in Requests : DropNext(x, r)
        BY <1>2
    <2>1. ASSUME NEW q \in Requests PROVE Handed(q)
        BY <1>2, RunningOnly DEF Handed, Accepted, Attending, Carries, Claims, Orphaned, DropNext, Forget
    <2>2. ASSUME NEW k \in Proc PROVE Undisturbed(k) \/ Knows(k)'
        <3>1. CASE k # Drop(x)
            BY <1>2, <3>1 DEF Undisturbed, Marks, DropNext, Forget
        <3>2. CASE k = Drop(x)
            BY <1>2, <3>2 DEF Knows, InHand, Present, DropNext, Forget
        <3> QED
            BY <3>1, <3>2
    <2>3. Orderly
        BY <1>2 DEF Orderly, InHand, HistoryTypeOK, DropNext, Forget
    <2> QED
        BY <2>1, <2>2, <2>3, InHandStill
<1>3. CASE DropEnd(x)
    <2>1. ASSUME NEW q \in Requests PROVE Handed(q)
        BY <1>3, RunningOnly DEF Handed, Accepted, Attending, Carries, Claims, Orphaned, DropEnd
    <2>2. ASSUME NEW k \in Proc PROVE Undisturbed(k) \/ Knows(k)'
        <3>1. CASE k # Drop(x)
            BY <1>3, <3>1 DEF Undisturbed, Marks, DropEnd
        <3>2. CASE k = Drop(x)
            BY <1>3, <3>2 DEF Undisturbed, Marks, DropEnd
        <3> QED
            BY <3>1, <3>2
    <2>3. Orderly
        BY <1>3 DEF Orderly, InHand, HistoryTypeOK, DropEnd
    <2> QED
        BY <2>1, <2>2, <2>3, InHandStill
<1> QED
    BY <1>1, <1>2, <1>3, Zenon DEF DropStep

\* Steps of the shared failure and of publication.
LEMMA SharedHand ==
    ASSUME Grounded, Once, Lawful, Unrecorded, Truth, InHand, TypeOK',
           (\A q \in Requests : GoesOn(q)), NEW p \in Proc, SharedStep(p)
    PROVE  InHand'
<1> USE ProcType, ProcParts, ProcDistinct
        DEF Grounded, TypeOK, LocalTypeOK, Aimed, At, AtSup, Go, See, Working, localVars, storeVars,
            memoryVars, dropVars, historyVars
<1>1. CASE FailCancel(p)
    <2>5. target[p] \in Requests
        BY <1>1 DEF FailCancel
    <2>6. req'[target[p]] # "running"
        BY <1>1, <2>5, RunningOnly DEF FailCancel, Active
    <2>7. ASSUME NEW q \in Requests PROVE req'[q] = "running" => req[q] = "running"
        BY <1>1, RunningOnly DEF FailCancel
    <2>8. pc' = [pc EXCEPT ![p] = "fail_mark"] /\ target' = target
        BY <1>1 DEF FailCancel
    <2>9. seen' = seen /\ born' = born /\ restarts' = restarts /\ pc[p] = "fail_cancel"
        BY <1>1 DEF FailCancel
    <2>1. ASSUME NEW q \in Requests PROVE Handed(q)
        <3>1. CASE q = target[p]
            BY <2>6, <3>1 DEF Handed
        <3>2. CASE q # target[p] /\ p # Sup(q)
            BY <2>7, <2>8, <2>9, <3>2 DEF Handed, Accepted, Attending, Carries, Claims, Orphaned
        <3> QED
            BY <3>1, <3>2
    <2>2. ASSUME NEW k \in Proc PROVE Undisturbed(k) \/ Knows(k)'
        <3>1. CASE k # p
            BY <1>1, <3>1 DEF Undisturbed, Marks, FailCancel
        <3>2. CASE k = p
            <4>1. req[target[p]] # "absent"
                BY <2>9 DEF InHand, Knows, Present
            <4>2. req'[target[p]] \in Settled
                BY <1>1, <2>5, <4>1 DEF FailCancel, CancelRequest, StoreTypeOK, RequestState, Settled
            <4>3. pc'[k] = "fail_mark" /\ target'[k] = target[p]
                BY <2>8, <3>2
            <4> QED
                BY <4>2, <4>3 DEF Knows, Ended
        <3> QED
            BY <3>1, <3>2
    <2>3. Orderly
        BY <1>1 DEF Orderly, InHand, HistoryTypeOK, FailCancel
    <2> QED
        BY <2>1, <2>2, <2>3, InHandStill
<1>2. CASE FailMark(p)
    <2>5. target[p] \in Requests
        BY <1>2 DEF FailMark
    <2>6. Ended(target[p]) /\ pc[p] = "fail_mark"
        BY <1>2 DEF FailMark, InHand, Knows
    <2>7. ASSUME NEW q \in Requests PROVE req'[q] = "running" => req[q] = "running"
        BY <1>2, RunningOnly DEF FailMark
    <2>8. pc' = [pc EXCEPT ![p] = "fail_done"] /\ target' = target
        BY <1>2 DEF FailMark
    <2>9. seen' = [seen EXCEPT ![p] = seen'[p]] /\ born' = born /\ restarts' = restarts
        BY <1>2 DEF FailMark
    <2>1. ASSUME NEW q \in Requests PROVE Handed(q)
        BY <2>6, <2>7, <2>8, <2>9 DEF Handed, Accepted, Attending, Carries, Claims, Orphaned
    <2>2. ASSUME NEW k \in Proc PROVE Undisturbed(k) \/ Knows(k)'
        <3>1. CASE k # p
            BY <1>2, <3>1 DEF Undisturbed, Marks, FailMark
        <3>2. CASE k = p
            <4>1. pc'[k] = "fail_done" /\ target'[k] = target[p] /\ req'[target[p]] \in Settled
                BY <2>5, <2>6, <2>8, <3>2 DEF GoesOn, Ended
            <4> QED
                BY <4>1 DEF Knows, Ended
        <3> QED
            BY <3>1, <3>2
    <2>3. Orderly
        BY <1>2 DEF Orderly, InHand, HistoryTypeOK, FailMark
    <2> QED
        BY <2>1, <2>2, <2>3, InHandStill
<1>3. CASE FailDone(p)
    <2>1. ASSUME NEW q \in Requests PROVE Handed(q)
        BY <1>3, RunningOnly DEF Handed, Accepted, Attending, Carries, Claims, Orphaned, FailDone, CancelTask, Ended, Knows
    <2>2. ASSUME NEW k \in Proc PROVE Undisturbed(k) \/ Knows(k)'
        <3>1. CASE k # p
            BY <1>3, <3>1 DEF Undisturbed, Marks, FailDone, CancelTask, Ended, Knows
        <3>2. CASE k = p
            BY <1>3, <3>2 DEF Undisturbed, Marks, FailDone, CancelTask, Ended, Knows
        <3> QED
            BY <3>1, <3>2
    <2>3. Orderly
        BY <1>3 DEF Orderly, InHand, HistoryTypeOK, FailDone, CancelTask, Ended, Knows
    <2> QED
        BY <2>1, <2>2, <2>3, InHandStill
<1>4. CASE Publish(p)
    <2>1. ASSUME NEW q \in Requests PROVE Handed(q)
        BY <1>4, RunningOnly DEF Handed, Accepted, Attending, Carries, Claims, Orphaned, Publish, MayPublish
    <2>2. ASSUME NEW k \in Proc PROVE Undisturbed(k) \/ Knows(k)'
        <3>1. CASE k # p
            BY <1>4, <3>1 DEF Undisturbed, Marks, Publish, MayPublish
        <3>2. CASE k = p
            BY <1>4, <3>2 DEF Undisturbed, Marks, Publish, MayPublish
        <3> QED
            BY <3>1, <3>2
    <2>3. Orderly
        BY <1>4 DEF Orderly, InHand, HistoryTypeOK, Publish, MayPublish
    <2> QED
        BY <2>1, <2>2, <2>3, InHandStill
<1>5. CASE \E x \in Drops : PublishReturns(p, x)
    <2>1. ASSUME NEW q \in Requests PROVE Handed(q)
        BY <1>5, RunningOnly DEF Handed, Accepted, Attending, Carries, Claims, Orphaned, PublishReturns
    <2>2. ASSUME NEW k \in Proc PROVE Undisturbed(k) \/ Knows(k)'
        <3>1. CASE k # p
            BY <1>5, <3>1 DEF Undisturbed, Marks, PublishReturns
        <3>2. CASE k = p
            BY <1>5, <3>2 DEF Undisturbed, Marks, PublishReturns
        <3> QED
            BY <3>1, <3>2
    <2>3. Orderly
        BY <1>5 DEF Orderly, InHand, HistoryTypeOK, PublishReturns
    <2> QED
        BY <2>1, <2>2, <2>3, InHandStill
<1> QED
    BY <1>1, <1>2, <1>3, <1>4, <1>5, Zenon DEF SharedStep

\* Steps of callers, clients, clock and restart.
LEMMA EnvironmentHand ==
    ASSUME Grounded, Once, Lawful, Unrecorded, Truth, InHand, TypeOK',
           (\A q \in Requests : GoesOn(q)), Environment
    PROVE  InHand'
<1> USE ProcType, ProcParts, ProcDistinct
        DEF Grounded, TypeOK, LocalTypeOK, Aimed, At, AtSup, Go, See, Working, localVars, storeVars,
            memoryVars, dropVars, historyVars
<1>1. CASE \E r \in Requests : Request(r)
    <2>1. ASSUME NEW q \in Requests PROVE Handed(q)
        BY <1>1, RunningOnly DEF Handed, Accepted, Attending, Carries, Claims, Orphaned, Request
    <2>2. ASSUME NEW k \in Proc PROVE Undisturbed(k)
        BY <1>1 DEF Undisturbed, Marks, Request
    <2>3. Orderly
        BY <1>1 DEF Orderly, InHand, HistoryTypeOK, Request
    <2> QED
        BY <2>1, <2>2, <2>3, InHandStill
<1>2. CASE \E d \in Deciders, r \in Requests : Decide(d, r)
    <2> PICK d \in Deciders, r \in Requests : Decide(d, r)
        BY <1>2
    <2>1. ASSUME NEW q \in Requests PROVE Handed(q)
        BY <1>2, RunningOnly DEF Handed, Accepted, Attending, Carries, Claims, Orphaned, Decide, RowsAgree
    <2>2. ASSUME NEW k \in Proc PROVE Undisturbed(k) \/ Knows(k)'
        <3>1. CASE k # Dec(d)
            BY <1>2, <3>1 DEF Undisturbed, Marks, Decide, RowsAgree
        <3>2. CASE k = Dec(d)
            BY <1>2, <3>2 DEF Knows, InHand, Present, Decide, RowsAgree
        <3> QED
            BY <3>1, <3>2
    <2>3. Orderly
        BY <1>2 DEF Orderly, InHand, HistoryTypeOK, Decide, RowsAgree
    <2> QED
        BY <2>1, <2>2, <2>3, InHandStill
<1>3. CASE \E c \in Cancellers, r \in Requests : Cancel(c, r)
    <2> PICK c \in Cancellers, r \in Requests : Cancel(c, r)
        BY <1>3
    <2>1. ASSUME NEW q \in Requests PROVE Handed(q)
        BY <1>3, RunningOnly DEF Handed, Accepted, Attending, Carries, Claims, Orphaned, Cancel
    <2>2. ASSUME NEW k \in Proc PROVE Undisturbed(k) \/ Knows(k)'
        <3>1. CASE k # Can(c)
            BY <1>3, <3>1 DEF Undisturbed, Marks, Cancel
        <3>2. CASE k = Can(c)
            BY <1>3, <3>2 DEF Knows, InHand, Present, Cancel
        <3> QED
            BY <3>1, <3>2
    <2>3. Orderly
        BY <1>3 DEF Orderly, InHand, HistoryTypeOK, Cancel
    <2> QED
        BY <2>1, <2>2, <2>3, InHandStill
<1>4. CASE \E x \in Drops : Disconnect(x)
    <2>1. ASSUME NEW q \in Requests PROVE Handed(q)
        BY <1>4, RunningOnly DEF Handed, Accepted, Attending, Carries, Claims, Orphaned, Disconnect
    <2>2. ASSUME NEW k \in Proc PROVE Undisturbed(k)
        BY <1>4 DEF Undisturbed, Marks, Disconnect
    <2>3. Orderly
        BY <1>4 DEF Orderly, InHand, HistoryTypeOK, Disconnect
    <2> QED
        BY <2>1, <2>2, <2>3, InHandStill
<1>5. CASE Reconnect
    <2>1. ASSUME NEW q \in Requests PROVE Handed(q)
        BY <1>5, RunningOnly DEF Handed, Accepted, Attending, Carries, Claims, Orphaned, Reconnect
    <2>2. ASSUME NEW k \in Proc PROVE Undisturbed(k)
        BY <1>5 DEF Undisturbed, Marks, Reconnect
    <2>3. Orderly
        BY <1>5 DEF Orderly, InHand, HistoryTypeOK, Reconnect
    <2> QED
        BY <2>1, <2>2, <2>3, InHandStill
<1>6. CASE \E p \in Proc, x \in Drops : PublishToDead(p, x)
    <2> PICK p \in Proc, x \in Drops : PublishToDead(p, x)
        BY <1>6
    <2>1. ASSUME NEW q \in Requests PROVE Handed(q)
        BY <1>6, RunningOnly DEF Handed, Accepted, Attending, Carries, Claims, Orphaned, PublishToDead, MayPublish
    <2>2. ASSUME NEW k \in Proc PROVE Undisturbed(k)
        BY <1>6 DEF Undisturbed, Marks, PublishToDead, MayPublish
    <2>3. Orderly
        BY <1>6 DEF Orderly, InHand, HistoryTypeOK, PublishToDead, MayPublish
    <2> QED
        BY <2>1, <2>2, <2>3, InHandStill
<1>7. CASE \E r \in Requests : PassTime(r)
    <2>1. ASSUME NEW q \in Requests PROVE Handed(q)
        BY <1>7, RunningOnly DEF Handed, Accepted, Attending, Carries, Claims, Orphaned, PassTime
    <2>2. ASSUME NEW k \in Proc PROVE Undisturbed(k)
        BY <1>7 DEF Undisturbed, Marks, PassTime
    <2>3. Orderly
        BY <1>7 DEF Orderly, InHand, HistoryTypeOK, PassTime
    <2> QED
        BY <2>1, <2>2, <2>3, InHandStill
<1>8. CASE List
    <2>1. ASSUME NEW q \in Requests PROVE Handed(q)
        BY <1>8, RunningOnly DEF Handed, Accepted, Attending, Carries, Claims, Orphaned, List
    <2>2. ASSUME NEW k \in Proc PROVE Undisturbed(k)
        BY <1>8 DEF Undisturbed, Marks, List
    <2>3. Orderly
        BY <1>8 DEF Orderly, InHand, HistoryTypeOK, List
    <2> QED
        BY <2>1, <2>2, <2>3, InHandStill
<1>9. CASE Restart
    <2>1. ASSUME NEW q \in Requests PROVE Handed(q)
        <3>1. born'[q] # restarts'
            BY <1>9 DEF Restart, InHand, HistoryTypeOK
        <3> QED
            BY <3>1 DEF Handed
    <2>2. ASSUME NEW k \in Proc PROVE Undisturbed(k)
        BY <1>9 DEF Undisturbed, Marks, Restart, LoseMemory
    <2>3. Orderly
        BY <1>9 DEF Orderly, InHand, HistoryTypeOK, Restart, LoseMemory
    <2> QED
        BY <2>1, <2>2, <2>3, InHandStill
<1>10. CASE \E r \in Requests : CallerCancelled(r)
    <2> PICK r \in Requests : CallerCancelled(r)
        BY <1>10
    <2>1. UNCHANGED <<req, born, restarts, tracked, todo, stopping, seen, target>>
        BY DEF CallerCancelled
    <2>2. ASSUME NEW q \in Requests PROVE Handed(q)
        BY <2>1, CancelledCaller
        DEF Handed, Accepted, Attending, Carries, Claims, Orphaned, Once, OneSupervisor
    <2>3. ASSUME NEW k \in Proc PROVE Undisturbed(k)
        BY <2>1, CancelledCaller DEF Undisturbed, Marks
    <2>4. Orderly
        BY <2>1 DEF Orderly, InHand
    <2> QED
        BY <2>2, <2>3, <2>4, InHandStill
<1> QED
    BY <1>1, <1>2, <1>3, <1>4, <1>5, <1>6, <1>7, <1>8, <1>9, <1>10, Zenon DEF Environment

\* No step leaves a running row, or a row to be cancelled, unattended.
LEMMA InHandStep == Firm /\ [Next]_vars => InHand'
<1> SUFFICES ASSUME Grounded, Once, Lawful, Unrecorded, Truth, InHand, [Next]_vars PROVE InHand'
    BY DEF Firm
<1>1. \A q \in Requests : GoesOn(q)
    BY StoreRefined, RowsGoOn DEF Grounded, TypeOK
<1>2. TypeOK'
    BY GroundedStep DEF Grounded
<1>3. CASE Service
    BY <1>1, <1>2, <1>3, RequestHand, WaitHand, SupHand, DecideHand, CancelHand, DropHand,
       SharedHand, Zenon
    DEF Service
<1>4. CASE Environment
    BY <1>1, <1>2, <1>4, EnvironmentHand
<1>5. CASE UNCHANGED vars
    BY <1>5
    DEF vars, storeVars, memoryVars, dropVars, localVars, historyVars,
        InHand, Attended, Attending, Accepted, Carries, Claims, Orphaned, At, Knows, Present, Begun, Ended
<1> QED
    BY <1>3, <1>4, <1>5 DEF Next, Quiescent

\* Whoever attends a row works for it.
LEMMA AttendedSupervised == Once /\ InHand => NoStrandedRun
<1> SUFFICES ASSUME Once, InHand, NEW r \in Requests, req[r] = "running", born[r] = restarts
             PROVE  \/ Working(Req(r)) \/ Supervised(r) \/ Abandoned(r)
                    \/ \E d \in Deciders : WorksOn(d, r)
    BY DEF NoStrandedRun
<1>1. CASE pc[Sup(r)] \in Attending
    BY <1>1 DEF Attending, Supervised, Working
<1>2. CASE Accepted(r)
    BY <1>2 DEF Accepted, Working
<1>3. CASE \E d \in Deciders : Carries(d, r)
    BY <1>3 DEF Carries, Claims, At, WorksOn, Working
<1>4. CASE Orphaned(r)
    BY <1>4 DEF Orphaned, Abandoned, Finished, At, Once, OneRun
<1> QED
    BY <1>1, <1>2, <1>3, <1>4 DEF InHand, Attended

\* What the proofs have established of a service so far holds in every state of it.
LEMMA AlwaysFirm == Spec => []Firm
<1>1. Grounded /\ Once /\ Lawful /\ Unrecorded /\ [Next]_vars => Unrecorded'
    BY StoreRefined, UnrecordedStep DEF Grounded, TypeOK
<1>2. Init => Unrecorded
    BY UnrecordedInit DEF Init
<1> QED
    BY <1>1, <1>2, AlwaysLawful, TruthInit, TruthStep, InHandInit, InHandStep, PTL DEF Spec, Firm

\* In every order of two approvals, a cancellation, a lost client, a timeout and
\* a restart, a row of this process says "running" only while somebody is there
\* to settle it: its requester, its supervisor or the decide() that claimed it.
THEOREM StrandedTheorem == Spec => []NoStrandedRun
<1>1. Firm => NoStrandedRun
    BY AttendedSupervised DEF Firm
<1> QED
    BY <1>1, AlwaysFirm, PTL

-----------------------------------------------------------------------------
(* A handler runs in the session of its request.                           *)

\* Whether a process waits for _confirmation_lock or holds it, by where it stands.
InConf(p) ==
    \/ pc[p] \in {"conf_wait", "fail_cancel", "fail_mark", "fail_done", "claimed", "recheck",
                  "rechecked", "no_context", "start", "started", "checked", "next"}
    \/ pc[p] = "exec_wait" /\ p[1] \in {"decide", "supervise"}

\* A supervisor does not overtake the request() that is to fail its request.
Follows(r) ==
    Sup(r) \in DOMAIN confLock /\ pc[Req(r)] = "conf_wait" => Req(r) \in confLock[Sup(r)]

\* The lock is a line of those processes, in which only the first goes on.
InLine ==
    /\ \A p \in Proc : p \in DOMAIN confLock <=> InConf(p)
    /\ \A p, q \in DOMAIN confLock : p # q => p \in confLock[q] \/ q \in confLock[p]
    /\ \A p \in Proc : InConf(p) /\ pc[p] # "conf_wait" => confLock[p] = {}
    /\ \A r \in Requests : Follows(r)

\* A process that keeps its place, in the line or out of it.
Unmoved(p) ==
    /\ InConf(p)' <=> InConf(p)
    /\ pc'[p] = "conf_wait" => pc[p] = "conf_wait"
    /\ InConf(p)' /\ pc'[p] # "conf_wait" => pc[p] # "conf_wait" \/ confLock[p] = {}

Joins(p) ==
    /\ confLock' = Join(confLock, p)
    /\ ~InConf(p) /\ pc'[p] = "conf_wait"
    /\ \A r \in Requests : p = Req(r) => pc[Sup(r)] = "idle"
    /\ \A q \in Proc : q # p => Unmoved(q)

Leaves(S) ==
    /\ confLock' = LeaveAll(confLock, S)
    /\ \A q \in Proc : IF q \in S THEN ~InConf(q)' ELSE Unmoved(q)

\* What a step may do to the line.
InOrder ==
    \/ confLock' = confLock /\ \A q \in Proc : Unmoved(q)
    \/ \E p \in Proc : Joins(p)
    \/ \E S \in SUBSET Proc : Leaves(S)

\* The line stays one.
LEMMA LineKept ==
    ASSUME Grounded, InLine, InOrder
    PROVE  InLine'
<1> USE ProcType, ProcDistinct DEF InLine
<1>0. DOMAIN confLock \subseteq Proc
      /\ \A p \in DOMAIN confLock : confLock[p] \subseteq DOMAIN confLock \ {p}
    BY DEF Grounded, TypeOK, LockTypeOK, IsLock
<1>1. CASE confLock' = confLock /\ \A q \in Proc : Unmoved(q)
    <2>1. \A q \in Proc : q \in DOMAIN confLock' <=> InConf(q)'
        BY <1>1 DEF Unmoved
    <2>2. ASSUME NEW q \in Proc, InConf(q)', pc'[q] # "conf_wait" PROVE confLock'[q] = {}
        BY <1>1, <2>2 DEF Unmoved
    <2>3. ASSUME NEW r \in Requests PROVE Follows(r)'
        BY <1>1 DEF Unmoved, Follows
    <2>4. \A q, k \in DOMAIN confLock' : q # k => q \in confLock'[k] \/ k \in confLock'[q]
        BY <1>1
    <2> QED
        BY <2>1, <2>2, <2>3, <2>4
<1>2. CASE \E p \in Proc : Joins(p)
    <2> PICK p \in Proc : Joins(p)
        BY <1>2
    <2>1. DOMAIN confLock' = DOMAIN confLock \cup {p} /\ p \notin DOMAIN confLock
        BY DEF Joins, Join
    <2>2. confLock'[p] = DOMAIN confLock \ {p} /\ \A q \in DOMAIN confLock : confLock'[q] = confLock[q]
        BY <2>1 DEF Joins, Join
    <2>3. \A q \in Proc : q \in DOMAIN confLock' <=> InConf(q)'
        BY <2>1 DEF Joins, Unmoved, InConf
    <2>4. \A q, k \in DOMAIN confLock' : q # k => q \in confLock'[k] \/ k \in confLock'[q]
        BY <2>1, <2>2
    <2>5. ASSUME NEW q \in Proc, InConf(q)', pc'[q] # "conf_wait" PROVE confLock'[q] = {}
        BY <2>1, <2>2, <2>5 DEF Joins, Unmoved
    <2>6. ASSUME NEW r \in Requests PROVE Follows(r)'
        <3>1. CASE p = Req(r)
            <4>1. pc[Sup(r)] = "idle"
                BY <3>1 DEF Joins
            <4>2. Sup(r) \notin DOMAIN confLock'
                BY <2>1, <3>1, <4>1 DEF InConf
            <4> QED
                BY <4>2 DEF Follows
        <3>2. CASE p = Sup(r)
            BY <2>1, <2>2, <3>2 DEF Follows, Joins, Unmoved, InConf
        <3>3. CASE p # Req(r) /\ p # Sup(r)
            BY <2>1, <2>2, <3>3 DEF Follows, Joins, Unmoved
        <3> QED
            BY <3>1, <3>2, <3>3
    <2> QED
        BY <2>3, <2>4, <2>5, <2>6
<1>3. CASE \E S \in SUBSET Proc : Leaves(S)
    <2> PICK S \in SUBSET Proc : Leaves(S)
        BY <1>3
    <2>1. DOMAIN confLock' = DOMAIN confLock \ S
        BY DEF Leaves, LeaveAll
    <2>2. \A q \in DOMAIN confLock' : confLock'[q] = confLock[q] \ S
        BY <2>1 DEF Leaves, LeaveAll
    <2>3. \A q \in Proc : q \in DOMAIN confLock' <=> InConf(q)'
        BY <2>1 DEF Leaves, Unmoved
    <2>4. \A q, k \in DOMAIN confLock' : q # k => q \in confLock'[k] \/ k \in confLock'[q]
        BY <2>1, <2>2
    <2>5. ASSUME NEW q \in Proc, InConf(q)', pc'[q] # "conf_wait" PROVE confLock'[q] = {}
        BY <2>1, <2>2, <2>3, <2>5 DEF Leaves, Unmoved
    <2>6. ASSUME NEW r \in Requests PROVE Follows(r)'
        <3>1. pc'[Req(r)] = "conf_wait" => Req(r) \notin S /\ pc[Req(r)] = "conf_wait"
            BY DEF Leaves, Unmoved, InConf
        <3> QED
            BY <2>1, <2>2, <3>1 DEF Follows
    <2> QED
        BY <2>3, <2>4, <2>5, <2>6
<1> QED
    BY <1>1, <1>2, <1>3 DEF InOrder

\* Before request() has kept the arguments, nobody can run the request.
Early(r) == pc[Req(r)] \in {"idle", "create", "created"}

\* A decide() that found the arguments of r, and is about to start it.
Primed(d, r) ==
    /\ target[Dec(d)] = r
    /\ \/ pc[Dec(d)] \in {"start", "started"}
       \/ pc[Dec(d)] \in {"recheck", "rechecked"} /\ flag[Dec(d)]

Unheard(r) ==
    Early(r) => /\ r \notin args \cup tracked
                /\ pc[Sup(r)] = "idle"
                /\ \A d \in Deciders : ~Primed(d, r)

\* A disconnect that has moved the generation and is yet to fail r.
Sweeping(x) == pc[Drop(x)] \in {"next", "fail_cancel", "fail_mark", "fail_done"}
Sweeps(x, r) == Sweeping(x) /\ r \in todo[x]

\* A tracked request belongs to this session, or somebody is about to fail it;
\* one that a supervisor has checked belongs to this session.
InSession(r) ==
    /\ r \in tracked =>
         gen[r] = generation \/ pc[Req(r)] = "conf_wait" \/ \E x \in Drops : Sweeps(x, r)
    /\ pc[Sup(r)] = "checked" => gen[r] = generation
    /\ runs[r] > 0 => session[r] = gen[r]
    /\ ~online /\ r \in tracked =>
         \/ pc[Req(r)] = "conf_wait"
         \/ \E x \in Drops : At(Drop(x), "conf_wait") \/ Sweeps(x, r)

\* A request that waits for a confirmation while request() is not at work on it.
Asked(r) ==
    /\ req[r] = "pending_confirmation" /\ born[r] = restarts
    /\ pc[Req(r)] \in {"idle", "publish", "publishing", "done"}

Failing(x, r) == At(Drop(x), "fail_cancel") /\ target[Drop(x)] = r

\* It is tracked, or a disconnect is just cancelling it, or the one that forgot
\* it was ended by a call that raised.
Watched(r) ==
    Asked(r) => \/ r \in tracked
                \/ \E x \in Drops : Failing(x, r)
                \/ r \in forgotten /\ cut # {}

Tended(r) == Unheard(r) /\ (cut = {} => InSession(r)) /\ Watched(r)

\* Where a decide() knows that its confirmation is decided.
Late(d) == pc[Dec(d)] \in {"claimed", "recheck", "rechecked", "no_context", "start", "started"}

InTime ==
    /\ InLine
    /\ \A d \in Deciders : Late(d) => Begun(target[Dec(d)])
    /\ \A r \in Confirmed : Tended(r)

\* A step that leaves r tended.
SparesEarly(r) ==
    /\ r \in args' => r \in args
    /\ r \in tracked' => r \in tracked
    /\ Early(r)' => /\ Early(r)
                    /\ pc'[Sup(r)] = pc[Sup(r)]
                    /\ \A d \in Deciders : Primed(d, r)' => Primed(d, r) \/ r \in args

SparesSession(r) ==
    /\ gen'[r] = gen[r] /\ generation' = generation
    /\ (runs'[r] = runs[r] /\ session'[r] = session[r]) \/ session'[r] = gen[r]
    /\ ~online' => ~online
    /\ pc'[Sup(r)] = "checked" => pc[Sup(r)] = "checked" \/ gen[r] = generation
    /\ r \in tracked' /\ pc[Req(r)] = "conf_wait" => pc'[Req(r)] = "conf_wait"
    /\ \A x \in Drops : cut' = {} /\ r \in tracked' =>
         /\ At(Drop(x), "conf_wait") => pc'[Drop(x)] = "conf_wait"
         /\ Sweeps(x, r) => Sweeps(x, r)'

SparesWatch(r) ==
    Asked(r)' => /\ Asked(r)
                 /\ r \in tracked => r \in tracked' \/ \E x \in Drops : Failing(x, r)'
                 /\ \A x \in Drops : Failing(x, r) => Failing(x, r)'
                 /\ r \in forgotten => r \in forgotten'

Spares(r) ==
    /\ SparesEarly(r)
    /\ cut' = {} => cut = {} /\ SparesSession(r)
    /\ SparesWatch(r)

\* A request that is spared stays tended.
LEMMA TendedStill ==
    ASSUME NEW r \in Confirmed, Tended(r), Spares(r)
    PROVE  Tended(r)'
<1>1. Unheard(r)'
    BY DEF Tended, Spares, SparesEarly, Unheard
<1>2. ASSUME cut' = {} PROVE InSession(r)'
    BY <1>2 DEF Tended, Spares, SparesEarly, SparesSession, InSession, At
<1>3. Watched(r)'
    BY DEF Tended, Spares, SparesWatch, Watched
<1> QED
    BY <1>1, <1>2, <1>3 DEF Tended

\* A step that moves nobody to where a decided confirmation must be known.
Patient(d) == Late(d)' => Late(d) /\ target'[Dec(d)] = target[Dec(d)]

\* A step that keeps the line in order, and spares or tends each request, keeps
\* the invariant.
LEMMA InTimeStill ==
    ASSUME Grounded, InTime, InOrder, \A q \in Requests : GoesOn(q),
           \A d \in Deciders : Patient(d) \/ Begun(target[Dec(d)])',
           \A r \in Confirmed : Spares(r) \/ Tended(r)'
    PROVE  InTime'
<1>1. InLine'
    BY LineKept DEF InTime
<1>2. ASSUME NEW d \in Deciders, Late(d)' PROVE Begun(target[Dec(d)])'
    <2>1. CASE Late(d) /\ target'[Dec(d)] = target[Dec(d)]
        <3>1. target[Dec(d)] \in Requests
            BY <2>1, ProcType, ProcParts DEF Grounded, Aimed, Late, Working
        <3> QED
            BY <2>1, <3>1 DEF InTime, GoesOn, Begun
    <2> QED
        BY <1>2, <2>1 DEF Patient
<1>3. ASSUME NEW r \in Confirmed PROVE Tended(r)'
    BY TendedStill DEF InTime
<1> QED
    BY <1>1, <1>2, <1>3 DEF InTime

\* Nothing puts a row up for confirmation but its creation.
LEMMA PendingOnly ==
    ASSUME StoreTypeOK, NEW r, NEW q \in Requests
    PROVE  /\ CancelRequest(r) \/ MarkUnavailable(r) \/ StartExecution(r) \/ Succeed(r)
                => (req'[q] = "pending_confirmation" => req[q] = "pending_confirmation")
           /\ \A e : Fail(r, e) => (req'[q] = "pending_confirmation" => req[q] = "pending_confirmation")
           /\ \A d, late : ClaimDecision(r, d, late)
                => (req'[q] = "pending_confirmation" => req[q] = "pending_confirmation")
           /\ CreateRequest(r) \/ PassDeadline(r) \/ ListPendingConfirmations
                => (req'[q] = "pending_confirmation" => req[q] = "pending_confirmation")
           /\ CreateConfirmation(r)
                => (req'[q] = "pending_confirmation" => req[q] = "pending_confirmation" \/ r = q)
           /\ CancelRequest(q) => req'[q] # "pending_confirmation"
BY DEF CancelRequest, MarkUnavailable, StartExecution, Fail, Succeed, TransitionRequest,
       ClaimDecision, Verdict, CreateRequest, CreateConfirmation, PassDeadline,
       ListPendingConfirmations, StoreTypeOK, storeVars, Active

\* Nobody is in line, and nothing is asked, at the start.
LEMMA InTimeInit == Init => InTime
<1> SUFFICES ASSUME Init PROVE InTime
    OBVIOUS
<1> USE ProcType, ProcParts DEF Init, StoreInit
<1>1. InLine
    BY DEF InLine, InConf, Follows, Free
<1>2. \A d \in Deciders : ~Late(d)
    BY DEF Late
<1>3. ASSUME NEW r \in Confirmed PROVE Tended(r)
    <2>1. r \in Requests
        BY ModelAssumption DEF Confirmed
    <2> QED
        BY <2>1 DEF Tended, Unheard, Early, Primed, InSession, Watched, Asked
<1> QED
    BY <1>1, <1>2, <1>3 DEF InTime

\* A step that neither begins nor ends anything the invariant is about.
Remains(q) ==
    /\ (runs'[q] = runs[q] /\ session'[q] = session[q]) \/ (cut = {} => session'[q] = gen[q])
    /\ req'[q] = "pending_confirmation"
         => req[q] = "pending_confirmation" /\ (q \in tracked => q \in tracked')

PlainRequest(q) ==
    /\ Remains(q)
    /\ \/ pc'[Req(q)] = pc[Req(q)]
       \/ /\ ~Early(q) /\ pc[Req(q)] # "conf_wait"
          /\ pc'[Req(q)] \notin {"idle", "create", "created"}
          /\ Asked(q)' => Asked(q)
    /\ \/ pc'[Sup(q)] = pc[Sup(q)]
       \/ /\ ~(Early(q) /\ pc[Sup(q)] = "idle")
          /\ pc'[Sup(q)] = "checked" /\ cut = {} => gen[q] = generation
    /\ \A d \in Deciders : Primed(d, q)' => Primed(d, q) \/ q \in args

PlainDrop(x) ==
    /\ target'[Drop(x)] = target[Drop(x)]
    /\ \/ pc'[Drop(x)] = pc[Drop(x)]
       \/ pc[Drop(x)] # "conf_wait" /\ ~Sweeping(x)
       \/ /\ Sweeping(x) /\ Sweeping(x)'
          /\ \A q \in Confirmed : Failing(x, q) => req'[q] # "pending_confirmation"

Plain ==
    /\ UNCHANGED <<gen, generation, online, todo, cut, forgotten, born, restarts>>
    /\ args' \subseteq args /\ tracked' \subseteq tracked
    /\ \A q \in Confirmed : PlainRequest(q)
    /\ \A x \in Drops : PlainDrop(x)

\* Such a step spares every request.
LEMMA PlainSpares ==
    ASSUME InTime, Plain, NEW q \in Confirmed
    PROVE  Spares(q)
<1> USE DEF Plain, Remains, PlainRequest, PlainDrop
<1>1. SparesEarly(q)
    BY DEF SparesEarly, Early, InTime, Tended, Unheard
<1>2. ASSUME cut = {} PROVE SparesSession(q)
    <2>1. ASSUME NEW x \in Drops
          PROVE  /\ At(Drop(x), "conf_wait") => pc'[Drop(x)] = "conf_wait"
                 /\ Sweeps(x, q) => Sweeps(x, q)'
        BY DEF At, Sweeps, Sweeping
    <2> QED
        BY <1>2, <2>1 DEF SparesSession, Early
<1>3. SparesWatch(q)
    <2>1. Asked(q)' => Asked(q)
        BY DEF Asked
    <2>2. ASSUME Asked(q)', NEW x \in Drops, Failing(x, q) PROVE Failing(x, q)'
        BY <2>2 DEF Failing, Asked, Sweeping, At
    <2> QED
        BY <2>1, <2>2 DEF SparesWatch, Asked
<1> QED
    BY <1>1, <1>2, <1>3 DEF Spares

\* So it keeps the invariant.
LEMMA PlainStep ==
    ASSUME Grounded, InTime, InOrder, Plain, \A q \in Requests : GoesOn(q),
           \A d \in Deciders : Patient(d) \/ Begun(target[Dec(d)])'
    PROVE  InTime'
BY PlainSpares, InTimeStill

\* A process that steps outside the line, and where it is of no account to it.
Aside(k) ==
    \/ pc'[k] = pc[k] /\ target'[k] = target[k] /\ flag'[k] = flag[k]
    \/ /\ ~InConf(k) /\ ~InConf(k)'
       /\ k[1] = "drop" => target'[k] = target[k]
       /\ k[1] = "request" /\ k[2] \in Confirmed
            => {pc[k], pc'[k]} \subseteq {"publish", "publishing", "done"}
       /\ k[1] = "supervise" /\ k[2] \in Confirmed => pc[k] # "idle"

\* Steps outside the line, of processes the invariant does not look at there.
LEMMA AsideStep ==
    ASSUME Grounded, InTime, \A q \in Requests : GoesOn(q),
           UNCHANGED <<confLock, gen, generation, online, todo, cut, forgotten, born, restarts>>,
           args' \subseteq args, tracked' \subseteq tracked,
           \A q \in Confirmed : Remains(q),
           \A k \in Proc : Aside(k)
    PROVE  InTime'
<1> USE ProcType, ProcParts DEF Aside, InConf
<1>0. Confirmed \subseteq Requests
    BY ModelAssumption DEF Confirmed
<1>1. InOrder
    <2>1. ASSUME NEW k \in Proc PROVE Unmoved(k)
        BY DEF Unmoved
    <2> QED
        BY <2>1 DEF InOrder
<1>2. ASSUME NEW d \in Deciders PROVE Patient(d)
    BY DEF Patient, Late
<1>3. ASSUME NEW q \in Confirmed PROVE PlainRequest(q)
    <2>1. \/ pc'[Req(q)] = pc[Req(q)]
          \/ {pc[Req(q)], pc'[Req(q)]} \subseteq {"publish", "publishing", "done"}
        BY <1>0
    <2>2. \/ pc'[Req(q)] = pc[Req(q)]
          \/ /\ ~Early(q) /\ pc[Req(q)] # "conf_wait"
             /\ pc'[Req(q)] \notin {"idle", "create", "created"}
             /\ Asked(q)' => Asked(q)
        BY <2>1 DEF Early, Asked, Remains
    <2>3. \/ pc'[Sup(q)] = pc[Sup(q)]
          \/ /\ ~(Early(q) /\ pc[Sup(q)] = "idle")
             /\ pc'[Sup(q)] = "checked" /\ cut = {} => gen[q] = generation
        BY <1>0
    <2>4. ASSUME NEW d \in Deciders, Primed(d, q)' PROVE Primed(d, q)
        BY <2>4 DEF Primed
    <2> QED
        BY <2>2, <2>3, <2>4 DEF PlainRequest
<1>4. ASSUME NEW x \in Drops PROVE PlainDrop(x)
    BY DEF PlainDrop, Sweeping
<1> QED
    BY <1>1, <1>2, <1>3, <1>4, PlainStep DEF Plain

\* One process leaves the line, or was not in it.
LEMMA OneLeaves ==
    ASSUME NEW p \in Proc, confLock' = Leave(confLock, p), ~InConf(p)',
           \A k \in Proc : k # p => pc'[k] = pc[k] \/ (~InConf(k) /\ ~InConf(k)')
    PROVE  InOrder
<1>1. ASSUME NEW k \in Proc, k # p PROVE Unmoved(k)
    BY <1>1 DEF Unmoved, InConf
<1>2. Leaves({p})
    BY <1>1 DEF Leaves, Leave
<1> QED
    BY <1>2 DEF InOrder

\* One process goes on in the line.
LEMMA OneGoesOn ==
    ASSUME InTime, NEW p \in Proc, confLock' = confLock, InConf(p), InConf(p)',
           pc'[p] # "conf_wait", pc[p] # "conf_wait" \/ Holds(confLock, p),
           \A k \in Proc : k # p => pc'[k] = pc[k]
    PROVE  InOrder
<1>1. ASSUME NEW k \in Proc PROVE Unmoved(k)
    BY DEF Unmoved, InConf, Holds
<1> QED
    BY <1>1 DEF InOrder

\* One process joins it.
LEMMA OneJoins ==
    ASSUME NEW p \in Proc, confLock' = Join(confLock, p), ~InConf(p), pc'[p] = "conf_wait",
           p[1] # "request" \/ pc[Sup(p[2])] = "idle",
           \A k \in Proc : k # p => pc'[k] = pc[k] \/ (~InConf(k) /\ ~InConf(k)')
    PROVE  InOrder
<1>1. ASSUME NEW k \in Proc, k # p PROVE Unmoved(k)
    BY <1>1 DEF Unmoved, InConf
<1>2. Joins(p)
    BY <1>1, ProcParts DEF Joins
<1> QED
    BY <1>2 DEF InOrder

\* A step of a supervisor, in or out of the line.
LEMMA SupervisorStep ==
    ASSUME Grounded, InTime, InOrder, \A q \in Requests : GoesOn(q),
           UNCHANGED <<gen, generation, online, todo, cut, forgotten, born, restarts, target, flag>>,
           args' \subseteq args, tracked' \subseteq tracked,
           \A q \in Confirmed : Remains(q),
           NEW r \in Requests, pc[Sup(r)] # "idle",
           \A k \in Proc : k # Sup(r) => pc'[k] = pc[k],
           r \in Confirmed /\ pc'[Sup(r)] = "checked" /\ cut = {} => gen[r] = generation
    PROVE  InTime'
<1> USE ProcType, ProcParts, ProcDistinct
<1>0. Confirmed \subseteq Requests
    BY ModelAssumption DEF Confirmed
<1>1. ASSUME NEW d \in Deciders PROVE Patient(d)
    BY DEF Patient, Late
<1>2. ASSUME NEW q \in Confirmed PROVE PlainRequest(q)
    BY <1>0 DEF PlainRequest, Primed
<1>3. ASSUME NEW x \in Drops PROVE PlainDrop(x)
    BY DEF PlainDrop
<1> QED
    BY <1>1, <1>2, <1>3, PlainStep DEF Plain

-----------------------------------------------------------------------------
\* Steps of wait_for_terminal(), which takes no part in the session of its request.
LEMMA WaitInTime ==
    ASSUME Grounded, Once, Lawful, Unrecorded, Truth, InHand, InTime,
           (\A q \in Requests : GoesOn(q)), NEW r \in Requests, WaitStep(r)
    PROVE  InTime'
<1> USE ProcType, ProcParts, ProcDistinct
        DEF Grounded, TypeOK, LocalTypeOK, Aimed, At, AtSup, Go, See, Working, localVars, storeVars,
            memoryVars, lockVars, dropVars, historyVars, Remains
<1>0. Confirmed \subseteq Requests
    BY ModelAssumption DEF Confirmed
<1>1. CASE WaitStart(r)
    <2>1. UNCHANGED <<confLock, gen, generation, online, todo, cut, forgotten, born, restarts>>
          /\ args' \subseteq args /\ tracked' \subseteq tracked
        BY <1>1 DEF WaitStart
    <2>2. ASSUME NEW q \in Confirmed PROVE Remains(q)
        BY <1>0, <1>1 DEF WaitStart
    <2>3. ASSUME NEW k \in Proc PROVE Aside(k)
        BY <1>1 DEF Aside, InConf, WaitStart
    <2> QED
        BY <2>1, <2>2, <2>3, AsideStep
<1>2. CASE WaitRead(r)
    <2>1. UNCHANGED <<confLock, gen, generation, online, todo, cut, forgotten, born, restarts>>
          /\ args' \subseteq args /\ tracked' \subseteq tracked
        BY <1>2 DEF WaitRead
    <2>2. ASSUME NEW q \in Confirmed PROVE Remains(q)
        BY <1>0, <1>2 DEF WaitRead
    <2>3. ASSUME NEW k \in Proc PROVE Aside(k)
        BY <1>2 DEF Aside, InConf, WaitRead
    <2> QED
        BY <2>1, <2>2, <2>3, AsideStep
<1>3. CASE WaitResolved(r)
    <2>1. UNCHANGED <<confLock, gen, generation, online, todo, cut, forgotten, born, restarts>>
          /\ args' \subseteq args /\ tracked' \subseteq tracked
        BY <1>3 DEF WaitResolved
    <2>2. ASSUME NEW q \in Confirmed PROVE Remains(q)
        BY <1>0, <1>3 DEF WaitResolved
    <2>3. ASSUME NEW k \in Proc PROVE Aside(k)
        BY <1>3 DEF Aside, InConf, WaitResolved
    <2> QED
        BY <2>1, <2>2, <2>3, AsideStep
<1>4. CASE WaitExpire(r)
    <2>1. UNCHANGED <<confLock, gen, generation, online, todo, cut, forgotten, born, restarts>>
          /\ args' \subseteq args /\ tracked' \subseteq tracked
        BY <1>4 DEF WaitExpire
    <2>2. ASSUME NEW q \in Confirmed PROVE Remains(q)
        <3>1. req'[q] = "pending_confirmation" => req[q] = "pending_confirmation"
            BY <1>0, <1>4, PendingOnly DEF WaitExpire
        <3> QED
            BY <1>4, <3>1 DEF WaitExpire
    <2>3. ASSUME NEW k \in Proc PROVE Aside(k)
        BY <1>4 DEF Aside, InConf, WaitExpire
    <2> QED
        BY <2>1, <2>2, <2>3, AsideStep
<1>5. CASE WaitExpired(r)
    <2>1. UNCHANGED <<confLock, gen, generation, online, todo, cut, forgotten, born, restarts>>
          /\ args' \subseteq args /\ tracked' \subseteq tracked
        BY <1>5 DEF WaitExpired, Forget
    <2>2. ASSUME NEW q \in Confirmed PROVE Remains(q)
        <3>1. seen[Wait(r)] \in Settled => req[r] \in Settled
            BY DEF Truth, Fits, Settled
        <3> QED
            BY <1>0, <1>5, <3>1 DEF WaitExpired, Forget, Settled
    <2>3. ASSUME NEW k \in Proc PROVE Aside(k)
        BY <1>5 DEF Aside, InConf, WaitExpired, Forget
    <2> QED
        BY <2>1, <2>2, <2>3, AsideStep
<1>6. CASE WaitTimeout(r)
    <2>1. UNCHANGED <<confLock, gen, generation, online, todo, cut, forgotten, born, restarts>>
          /\ args' \subseteq args /\ tracked' \subseteq tracked
        BY <1>6 DEF WaitTimeout
    <2>2. ASSUME NEW q \in Confirmed PROVE Remains(q)
        BY <1>0, <1>6 DEF WaitTimeout
    <2>3. ASSUME NEW k \in Proc PROVE Aside(k)
        BY <1>6 DEF Aside, InConf, WaitTimeout
    <2> QED
        BY <2>1, <2>2, <2>3, AsideStep
<1>7. CASE WaitFail(r)
    <2>1. UNCHANGED <<confLock, gen, generation, online, todo, cut, forgotten, born, restarts>>
          /\ args' \subseteq args /\ tracked' \subseteq tracked
        BY <1>7 DEF WaitFail
    <2>2. ASSUME NEW q \in Confirmed PROVE Remains(q)
        <3>1. req'[q] = "pending_confirmation" => req[q] = "pending_confirmation"
            BY <1>0, <1>7, PendingOnly DEF WaitFail
        <3> QED
            BY <1>7, <3>1 DEF WaitFail
    <2>3. ASSUME NEW k \in Proc PROVE Aside(k)
        BY <1>7 DEF Aside, InConf, WaitFail
    <2> QED
        BY <2>1, <2>2, <2>3, AsideStep
<1>8. CASE WaitFailed(r)
    <2>1. UNCHANGED <<confLock, gen, generation, online, todo, cut, forgotten, born, restarts>>
          /\ args' \subseteq args /\ tracked' \subseteq tracked
        BY <1>8 DEF WaitFailed
    <2>2. ASSUME NEW q \in Confirmed PROVE Remains(q)
        BY <1>0, <1>8 DEF WaitFailed
    <2>3. ASSUME NEW k \in Proc PROVE Aside(k)
        BY <1>8 DEF Aside, InConf, WaitFailed
    <2> QED
        BY <2>1, <2>2, <2>3, AsideStep
<1> QED
    BY <1>1, <1>2, <1>3, <1>4, <1>5, <1>6, <1>7, <1>8, Zenon DEF WaitStep

\* Steps of cancel().
LEMMA CancelInTime ==
    ASSUME Grounded, Once, Lawful, Unrecorded, Truth, InHand, InTime,
           (\A q \in Requests : GoesOn(q)), NEW c \in Cancellers, CancelStep(c)
    PROVE  InTime'
<1> USE ProcType, ProcParts, ProcDistinct
        DEF Grounded, TypeOK, LocalTypeOK, Aimed, At, AtSup, Go, See, Working, localVars, storeVars,
            memoryVars, lockVars, dropVars, historyVars, Remains
<1>0. Confirmed \subseteq Requests
    BY ModelAssumption DEF Confirmed
<1>1. CASE CancelCommit(c)
    <2>1. UNCHANGED <<confLock, gen, generation, online, todo, cut, forgotten, born, restarts>>
          /\ args' \subseteq args /\ tracked' \subseteq tracked
        BY <1>1 DEF CancelCommit
    <2>2. ASSUME NEW q \in Confirmed PROVE Remains(q)
        <3>1. req'[q] = "pending_confirmation" => req[q] = "pending_confirmation"
            BY <1>0, <1>1, PendingOnly DEF CancelCommit
        <3> QED
            BY <1>1, <3>1 DEF CancelCommit
    <2>3. ASSUME NEW k \in Proc PROVE Aside(k)
        BY <1>1 DEF Aside, InConf, CancelCommit
    <2> QED
        BY <2>1, <2>2, <2>3, AsideStep
<1>2. CASE CancelResume(c)
    <2>1. UNCHANGED <<confLock, gen, generation, online, todo, cut, forgotten, born, restarts>>
          /\ args' \subseteq args /\ tracked' \subseteq tracked
        BY <1>2 DEF CancelResume, Forget
    <2>2. ASSUME NEW q \in Confirmed PROVE Remains(q)
        <3>1. target[Can(c)] \in Requests /\ Ended(target[Can(c)])
            BY <1>2 DEF CancelResume, InHand, Knows
        <3> QED
            BY <1>0, <1>2, <3>1 DEF CancelResume, Forget, Ended, Settled
    <2>3. ASSUME NEW k \in Proc PROVE Aside(k)
        BY <1>2 DEF Aside, InConf, CancelResume, Forget
    <2> QED
        BY <2>1, <2>2, <2>3, AsideStep
<1> QED
    BY <1>1, <1>2, Zenon DEF CancelStep

-----------------------------------------------------------------------------
\* Steps of a supervisor: what it checks is of this session because it holds the
\* lock when it checks and when it calls the handler.
LEMMA SupInTime ==
    ASSUME Grounded, Once, Lawful, Unrecorded, Truth, InHand, InTime,
           (\A q \in Requests : GoesOn(q)), NEW r \in Requests, SupStep(r), ~SupAborts(r)
    PROVE  InTime'
<1> USE ProcType, ProcParts, ProcDistinct
        DEF Grounded, TypeOK, LocalTypeOK, Aimed, At, AtSup, Go, See, Working, localVars, storeVars,
            memoryVars, lockVars, dropVars, historyVars, Remains
<1>0. Confirmed \subseteq Requests
    BY ModelAssumption DEF Confirmed
<1>1. CASE SupStart(r)
    <2>1. UNCHANGED <<gen, generation, online, todo, cut, forgotten, born, restarts, target, flag, args, tracked, req>>
        BY <1>1 DEF SupStart, RunHandler
    <2>2. ASSUME NEW q \in Confirmed PROVE Remains(q)
        BY <1>0, <1>1 DEF SupStart, RunHandler, HistoryTypeOK
    <2>3. pc[Sup(r)] = "new" /\ (\A k \in Proc : k # Sup(r) => pc'[k] = pc[k])
          /\ pc'[Sup(r)] # "checked"
        BY <1>1 DEF SupStart
    <2>4. InOrder
        <3>1. CASE r \in Confirmed
            BY <1>1, <3>1, OneJoins DEF SupStart, InConf
        <3>2. CASE r \notin Confirmed
            <4>1. confLock' = confLock /\ pc' = [pc EXCEPT ![Sup(r)] = "handler"]
                BY <1>1, <3>2 DEF SupStart
            <4>2. ASSUME NEW k \in Proc PROVE Unmoved(k)
                BY <2>3, <4>1 DEF Unmoved, InConf
            <4> QED
                BY <4>1, <4>2 DEF InOrder
        <3> QED
            BY <3>1, <3>2
    <2> QED
        BY <2>1, <2>2, <2>3, <2>4, SupervisorStep
<1>2. CASE SupLock(r)
    <2>1. UNCHANGED <<gen, generation, online, todo, cut, forgotten, born, restarts, target, flag>>
          /\ args' \subseteq args /\ tracked' \subseteq tracked
        BY <1>2 DEF SupLock
    <2>2. ASSUME NEW q \in Confirmed PROVE Remains(q)
        BY <1>2 DEF SupLock
    <2>3. pc[Sup(r)] # "idle" /\ \A k \in Proc : k # Sup(r) => pc'[k] = pc[k]
        BY <1>2 DEF SupLock
    <2>4. InOrder
        BY <1>2, OneGoesOn DEF InConf, SupLock
    <2>5. pc'[Sup(r)] = "checked" /\ cut = {} /\ r \in Confirmed => gen[r] = generation
        BY <1>2 DEF SupLock
    <2> QED
        BY <2>1, <2>2, <2>3, <2>4, <2>5, SupervisorStep
<1>3. CASE SupCheck(r)
    <2>1. UNCHANGED <<gen, generation, online, todo, cut, forgotten, born, restarts, target, flag>>
          /\ args' \subseteq args /\ tracked' \subseteq tracked
        BY <1>3 DEF SupCheck, Forget
    <2>2. ASSUME NEW q \in Confirmed PROVE Remains(q)
        <3>1. Begun(r)
            BY <1>3, SupBegun DEF SupCheck
        <3> QED
            BY <1>0, <1>3, <3>1 DEF SupCheck, Forget, Begun, Settled
    <2>3. pc[Sup(r)] # "idle" /\ \A k \in Proc : k # Sup(r) => pc'[k] = pc[k]
        BY <1>3 DEF SupCheck, Forget
    <2>4. InOrder
        <3>1. CASE r \notin tracked
            BY <1>3, <3>1, OneLeaves DEF InConf, LeaveLocks, SupCheck
        <3>2. CASE r \in tracked
            <4>1. confLock' = confLock /\ pc[Sup(r)] = "exec_wait"
                  /\ \E l \in {"fail_cancel", "checked"} : pc' = [pc EXCEPT ![Sup(r)] = l]
                BY <1>3, <3>2 DEF SupCheck
            <4> QED
                BY <4>1, OneGoesOn DEF InConf
        <3> QED
            BY <3>1, <3>2
    <2>5. pc'[Sup(r)] = "checked" /\ cut = {} /\ r \in Confirmed => gen[r] = generation
        <3> SUFFICES ASSUME pc'[Sup(r)] = "checked", cut = {}, r \in Confirmed PROVE gen[r] = generation
            OBVIOUS
        <3>1. r \in tracked /\ pc[Sup(r)] = "exec_wait"
            BY <1>3 DEF SupCheck
        <3>2. Sup(r) \in DOMAIN confLock /\ confLock[Sup(r)] = {}
            BY <3>1 DEF InTime, InLine, InConf
        <3>3. pc[Req(r)] # "conf_wait"
            BY <3>2 DEF InTime, InLine, Follows
        <3>4. ASSUME NEW x \in Drops PROVE ~Sweeping(x)
            <4>1. Sweeping(x) => Drop(x) \in DOMAIN confLock /\ confLock[Drop(x)] = {}
                BY DEF Sweeping, InTime, InLine, InConf
            <4> QED
                BY <3>2, <4>1 DEF InTime, InLine
        <3> QED
            BY <3>1, <3>3, <3>4 DEF InTime, Tended, InSession, Sweeps
    <2> QED
        BY <2>1, <2>2, <2>3, <2>4, <2>5, SupervisorStep
<1>4. CASE SupChecked(r)
    <2>1. UNCHANGED <<gen, generation, online, todo, cut, forgotten, born, restarts, target, flag>>
          /\ args' \subseteq args /\ tracked' \subseteq tracked
        BY <1>4 DEF SupChecked, Forget, RunHandler, LeaveLocks
    <2>2. ASSUME NEW q \in Confirmed PROVE Remains(q)
        <3>1. Begun(r)
            BY <1>4, SupBegun DEF SupChecked
        <3>2. q = r /\ cut = {} => gen[q] = generation
            BY <1>4 DEF SupChecked, InTime, Tended, InSession
        <3>3. req'[q] = "pending_confirmation"
                => req[q] = "pending_confirmation" /\ (q \in tracked => q \in tracked')
            BY <1>0, <1>4, <3>1 DEF SupChecked, Forget, Begun, Settled
        <3>4. q # r => runs'[q] = runs[q] /\ session'[q] = session[q]
            BY <1>0, <1>4 DEF SupChecked, RunHandler, HistoryTypeOK
        <3>5. q = r => (runs'[q] = runs[q] /\ session'[q] = session[q]) \/ session'[q] = generation
            BY <1>0, <1>4 DEF SupChecked, RunHandler, HistoryTypeOK
        <3> QED
            BY <3>2, <3>3, <3>4, <3>5
    <2>3. pc[Sup(r)] # "idle" /\ \A k \in Proc : k # Sup(r) => pc'[k] = pc[k]
        BY <1>4 DEF SupChecked, Forget, RunHandler, LeaveLocks
    <2>4. InOrder
        BY <1>4, OneLeaves DEF InConf, SupChecked, Forget, RunHandler, LeaveLocks
    <2>5. pc'[Sup(r)] = "checked" /\ cut = {} /\ r \in Confirmed => gen[r] = generation
        BY <1>4 DEF SupChecked, Forget, RunHandler, LeaveLocks
    <2> QED
        BY <2>1, <2>2, <2>3, <2>4, <2>5, SupervisorStep
<1>5. CASE SupFailed(r)
    <2>1. UNCHANGED <<gen, generation, online, todo, cut, forgotten, born, restarts, target, flag>>
          /\ args' \subseteq args /\ tracked' \subseteq tracked
        BY <1>5 DEF SupFailed, LeaveLocks
    <2>2. ASSUME NEW q \in Confirmed PROVE Remains(q)
        BY <1>5 DEF SupFailed, LeaveLocks
    <2>3. pc[Sup(r)] # "idle" /\ \A k \in Proc : k # Sup(r) => pc'[k] = pc[k]
        BY <1>5 DEF SupFailed, LeaveLocks
    <2>4. InOrder
        BY <1>5, OneLeaves DEF InConf, SupFailed, LeaveLocks
    <2>5. pc'[Sup(r)] = "checked" /\ cut = {} /\ r \in Confirmed => gen[r] = generation
        BY <1>5 DEF SupFailed, LeaveLocks
    <2> QED
        BY <2>1, <2>2, <2>3, <2>4, <2>5, SupervisorStep
<1>6. CASE HandlerEnds(r)
    <2>1. UNCHANGED <<confLock, gen, generation, online, todo, cut, forgotten, born, restarts>>
          /\ args' \subseteq args /\ tracked' \subseteq tracked
        BY <1>6 DEF HandlerEnds
    <2>2. ASSUME NEW q \in Confirmed PROVE Remains(q)
        BY <1>0, <1>6 DEF HandlerEnds
    <2>3. ASSUME NEW k \in Proc PROVE Aside(k)
        BY <1>6 DEF Aside, InConf, HandlerEnds
    <2> QED
        BY <2>1, <2>2, <2>3, AsideStep
<1>7. CASE SupTimeout(r)
    <2>1. UNCHANGED <<gen, generation, online, todo, cut, forgotten, born, restarts, target, flag>>
          /\ args' \subseteq args /\ tracked' \subseteq tracked
        BY <1>7 DEF SupTimeout, LeaveLocks, Interruptible
    <2>2. ASSUME NEW q \in Confirmed PROVE Remains(q)
        BY <1>7 DEF SupTimeout, LeaveLocks, Interruptible
    <2>3. pc[Sup(r)] # "idle" /\ \A k \in Proc : k # Sup(r) => pc'[k] = pc[k]
        BY <1>7 DEF SupTimeout, LeaveLocks, Interruptible
    <2>4. InOrder
        BY <1>7, OneLeaves DEF InConf, SupTimeout, LeaveLocks, Interruptible
    <2>5. pc'[Sup(r)] = "checked" /\ cut = {} /\ r \in Confirmed => gen[r] = generation
        BY <1>7 DEF SupTimeout, LeaveLocks, Interruptible
    <2> QED
        BY <2>1, <2>2, <2>3, <2>4, <2>5, SupervisorStep
<1>8. CASE CommitSuccess(r)
    <2>1. UNCHANGED <<confLock, gen, generation, online, todo, cut, forgotten, born, restarts>>
          /\ args' \subseteq args /\ tracked' \subseteq tracked
        BY <1>8 DEF CommitSuccess
    <2>2. ASSUME NEW q \in Confirmed PROVE Remains(q)
        <3>1. req'[q] = "pending_confirmation" => req[q] = "pending_confirmation"
            BY <1>0, <1>8, PendingOnly DEF CommitSuccess
        <3> QED
            BY <1>8, <3>1 DEF CommitSuccess
    <2>3. ASSUME NEW k \in Proc PROVE Aside(k)
        BY <1>8 DEF Aside, InConf, CommitSuccess
    <2> QED
        BY <2>1, <2>2, <2>3, AsideStep
<1>9. CASE CommitFailure(r)
    <2>1. UNCHANGED <<confLock, gen, generation, online, todo, cut, forgotten, born, restarts>>
          /\ args' \subseteq args /\ tracked' \subseteq tracked
        BY <1>9 DEF CommitFailure, FailureCode
    <2>2. ASSUME NEW q \in Confirmed PROVE Remains(q)
        <3>1. req'[q] = "pending_confirmation" => req[q] = "pending_confirmation"
            BY <1>0, <1>9, PendingOnly DEF CommitFailure
        <3> QED
            BY <1>9, <3>1 DEF CommitFailure
    <2>3. ASSUME NEW k \in Proc PROVE Aside(k)
        BY <1>9 DEF Aside, InConf, CommitFailure, FailureCode
    <2> QED
        BY <2>1, <2>2, <2>3, AsideStep
<1>10. CASE SupSettle(r)
    <2>1. UNCHANGED <<confLock, gen, generation, online, todo, cut, forgotten, born, restarts>>
          /\ args' \subseteq args /\ tracked' \subseteq tracked
        BY <1>10 DEF SupSettle
    <2>2. ASSUME NEW q \in Confirmed PROVE Remains(q)
        BY <1>0, <1>10 DEF SupSettle
    <2>3. ASSUME NEW k \in Proc PROVE Aside(k)
        BY <1>10 DEF Aside, InConf, SupSettle
    <2> QED
        BY <2>1, <2>2, <2>3, AsideStep
<1>11. CASE SupReleased(r)
    <2>1. UNCHANGED <<confLock, gen, generation, online, todo, cut, forgotten, born, restarts>>
          /\ args' \subseteq args /\ tracked' \subseteq tracked
        BY <1>11 DEF SupReleased
    <2>2. ASSUME NEW q \in Confirmed PROVE Remains(q)
        BY <1>0, <1>11 DEF SupReleased
    <2>3. ASSUME NEW k \in Proc PROVE Aside(k)
        BY <1>11 DEF Aside, InConf, SupReleased
    <2> QED
        BY <2>1, <2>2, <2>3, AsideStep
<1>12. CASE SupCancelled(r)
    <2>1. UNCHANGED <<gen, generation, online, todo, cut, forgotten, born, restarts, target, flag>>
          /\ args' \subseteq args /\ tracked' \subseteq tracked
        BY <1>12 DEF SupCancelled, LeaveLocks, Interruptible
    <2>2. ASSUME NEW q \in Confirmed PROVE Remains(q)
        BY <1>12 DEF SupCancelled, LeaveLocks, Interruptible
    <2>3. pc[Sup(r)] # "idle" /\ \A k \in Proc : k # Sup(r) => pc'[k] = pc[k]
        BY <1>12 DEF SupCancelled, LeaveLocks, Interruptible
    <2>4. InOrder
        BY <1>12, OneLeaves DEF InConf, SupCancelled, LeaveLocks, Interruptible
    <2>5. pc'[Sup(r)] = "checked" /\ cut = {} /\ r \in Confirmed => gen[r] = generation
        BY <1>12 DEF SupCancelled, LeaveLocks, Interruptible
    <2> QED
        BY <2>1, <2>2, <2>3, <2>4, <2>5, SupervisorStep
<1>13. CASE SupReread(r)
    <2>1. UNCHANGED <<confLock, gen, generation, online, todo, cut, forgotten, born, restarts>>
          /\ args' \subseteq args /\ tracked' \subseteq tracked
        BY <1>13 DEF SupReread
    <2>2. ASSUME NEW q \in Confirmed PROVE Remains(q)
        BY <1>0, <1>13 DEF SupReread
    <2>3. ASSUME NEW k \in Proc PROVE Aside(k)
        BY <1>13 DEF Aside, InConf, SupReread
    <2> QED
        BY <2>1, <2>2, <2>3, AsideStep
<1> QED
    BY <1>1, <1>2, <1>3, <1>4, <1>5, <1>6, <1>7, <1>8, <1>9, <1>10, <1>11, <1>12, <1>13, Zenon
    DEF SupStep

-----------------------------------------------------------------------------
\* Steps of request(): it tracks its request in its session, or gets in line to
\* fail it, before anybody else can know of it.
LEMMA RequestInTime ==
    ASSUME Grounded, Once, Lawful, Unrecorded, Truth, InHand, InTime,
           (\A q \in Requests : GoesOn(q)), NEW r \in Requests, RequestStep(r)
    PROVE  InTime'
<1> USE ProcType, ProcParts, ProcDistinct
        DEF Grounded, TypeOK, LocalTypeOK, Aimed, At, AtSup, Go, See, Working, localVars, storeVars,
            memoryVars, lockVars, dropVars, historyVars, Remains
<1>0. Confirmed \subseteq Requests
    BY ModelAssumption DEF Confirmed
<1>1. CASE CommitRequest(r)
    <2>1. /\ confLock' = confLock /\ \A k \in Proc : k # Req(r) => pc'[k] = pc[k]
          /\ \/ pc[Req(r)] = "create" /\ pc'[Req(r)] = "created"
             \/ pc[Req(r)] = "late" /\ pc'[Req(r)] = "done" /\ r \notin Confirmed
        BY <1>1, AbandonableAssumption DEF CommitRequest, Once, OneSupervisor, Confirmed
    <2>2. UNCHANGED <<memoryVars, dropVars, localVars, runs, session, cut, forgotten, restarts>>
        BY <1>1 DEF CommitRequest
    <2>3. \A q \in Requests : q # r => req'[q] = req[q] /\ born'[q] = born[q]
        BY <1>1 DEF CommitRequest, CreateRequest, CreateConfirmation, HistoryTypeOK, StoreTypeOK
    <2>4. InOrder
        <3>1. ASSUME NEW k \in Proc PROVE Unmoved(k)
            BY <2>1 DEF Unmoved, InConf
        <3> QED
            BY <2>1, <3>1 DEF InOrder
    <2>5. ASSUME NEW d \in Deciders PROVE Patient(d)
        BY <2>1, <2>2 DEF Patient, Late
    <2>6. ASSUME NEW q \in Confirmed PROVE Spares(q)
        <3>1. SparesEarly(q)
            BY <1>0, <2>1, <2>2 DEF SparesEarly, Early, Primed
        <3>2. SparesSession(q)
            BY <1>0, <2>1, <2>2 DEF SparesSession, Sweeps, Sweeping
        <3>3. SparesWatch(q)
            BY <1>0, <2>1, <2>2, <2>3 DEF SparesWatch, Asked, Failing
        <3> QED
            BY <2>2, <3>1, <3>2, <3>3 DEF Spares
    <2> QED
        BY <2>4, <2>5, <2>6, InTimeStill
<1>2. CASE QueueExecution(r)
    <2>1. UNCHANGED <<confLock, gen, generation, online, todo, cut, forgotten, born, restarts>>
          /\ args' \subseteq args /\ tracked' \subseteq tracked
        BY <1>2 DEF QueueExecution
    <2>2. ASSUME NEW q \in Confirmed PROVE Remains(q)
        BY <1>0, <1>2 DEF QueueExecution
    <2>3. ASSUME NEW k \in Proc PROVE Aside(k)
        <3>1. r \notin Confirmed
            BY <1>2 DEF Confirmed, Once, OneSupervisor, QueueExecution
        <3> QED
            BY <1>2, <3>1 DEF Aside, InConf, QueueExecution
    <2> QED
        BY <2>1, <2>2, <2>3, AsideStep
<1>3. CASE RereadRequest(r)
    <2>1. UNCHANGED <<confLock, gen, generation, online, todo, cut, forgotten, born, restarts>>
          /\ args' \subseteq args /\ tracked' \subseteq tracked
        BY <1>3 DEF RereadRequest
    <2>2. ASSUME NEW q \in Confirmed PROVE Remains(q)
        BY <1>0, <1>3 DEF RereadRequest
    <2>3. ASSUME NEW k \in Proc PROVE Aside(k)
        <3>1. r \notin Confirmed
            BY <1>3 DEF Confirmed, Once, OneSupervisor, RereadRequest
        <3> QED
            BY <1>3, <3>1 DEF Aside, InConf, RereadRequest
    <2> QED
        BY <2>1, <2>2, <2>3, AsideStep
<1>4. CASE ExecuteRequest(r)
    <2>1. UNCHANGED <<confLock, gen, generation, online, todo, cut, forgotten, born, restarts>>
          /\ args' \subseteq args /\ tracked' \subseteq tracked
        BY <1>4 DEF ExecuteRequest
    <2>2. ASSUME NEW q \in Confirmed PROVE Remains(q)
        BY <1>0, <1>4 DEF ExecuteRequest
    <2>3. ASSUME NEW k \in Proc PROVE Aside(k)
        <3>1. r \notin Confirmed /\ pc[Sup(r)] = "idle" /\ pc[Req(r)] = "reread"
            BY <1>4 DEF Confirmed, Once, OneSupervisor, ExecuteRequest
        <3>2. \E l \in {"idle", "new"} : pc' = [pc EXCEPT ![Req(r)] = "done", ![Sup(r)] = l]
            BY <1>4, <3>1 DEF ExecuteRequest
        <3>3. target' = target /\ flag' = flag
            BY <1>4 DEF ExecuteRequest
        <3> QED
            BY <3>1, <3>2, <3>3 DEF Aside, InConf
    <2> QED
        BY <2>1, <2>2, <2>3, AsideStep
<1>5. CASE TrackConfirmation(r)
    <2>1. pc[Req(r)] = "created" /\ args' = args \cup {r}
          /\ tracked' = (IF r \in Model THEN tracked \cup {r} ELSE tracked)
        BY <1>5 DEF TrackConfirmation
    <2>2. UNCHANGED <<req, generation, gen, target, flag, dropVars, historyVars>>
        BY <1>5 DEF TrackConfirmation
    <2>3. \/ /\ r \in Confirmed /\ confLock' = Join(confLock, Req(r))
             /\ pc' = [pc EXCEPT ![Req(r)] = "conf_wait"]
          \/ /\ r \in Confirmed => gen[r] = generation /\ online
             /\ confLock' = confLock /\ pc' = [pc EXCEPT ![Req(r)] = "publish"]
        BY <1>5 DEF TrackConfirmation, ClientChanged, Confirmed
    <2>4. r \in Confirmed => pc[Sup(r)] = "idle"
        BY <2>1 DEF InTime, Tended, Unheard, Early
    <2>5. InOrder
        <3>1. CASE confLock' = confLock /\ pc' = [pc EXCEPT ![Req(r)] = "publish"]
            <4>1. ASSUME NEW k \in Proc PROVE Unmoved(k)
                BY <2>1, <3>1 DEF Unmoved, InConf
            <4> QED
                BY <3>1, <4>1 DEF InOrder
        <3>2. CASE r \in Confirmed /\ confLock' = Join(confLock, Req(r))
              /\ pc' = [pc EXCEPT ![Req(r)] = "conf_wait"]
            BY <2>1, <2>4, <3>2, OneJoins DEF InConf
        <3> QED
            BY <2>3, <3>1, <3>2
    <2>6. ASSUME NEW d \in Deciders PROVE Patient(d)
        BY <2>2, <2>3 DEF Patient, Late
    <2>7. ASSUME NEW q \in Confirmed, q # r PROVE Spares(q)
        <3>1. pc'[Req(q)] = pc[Req(q)] /\ pc'[Sup(q)] = pc[Sup(q)]
            BY <1>0, <2>3, <2>7
        <3>2. SparesEarly(q)
            BY <2>1, <2>2, <2>3, <2>7, <3>1 DEF SparesEarly, Early, Primed
        <3>3. SparesSession(q)
            BY <2>1, <2>2, <2>3, <2>7, <3>1 DEF SparesSession, Sweeps, Sweeping
        <3>4. SparesWatch(q)
            BY <2>1, <2>2, <2>3, <2>7, <3>1 DEF SparesWatch, Asked, Failing
        <3> QED
            BY <2>2, <3>2, <3>3, <3>4 DEF Spares
    <2>8. ASSUME r \in Confirmed PROVE Tended(r)'
        <3>1. pc'[Req(r)] \in {"conf_wait", "publish"} /\ pc'[Sup(r)] = pc[Sup(r)] /\ r \in tracked'
            BY <2>1, <2>3, <2>8 DEF Confirmed
        <3>2. pc'[Req(r)] = "conf_wait" \/ (gen[r] = generation /\ online)
            BY <2>3, <2>8
        <3>3. cut = {} => (runs[r] > 0 => session[r] = gen[r])
            BY <2>8 DEF InTime, Tended, InSession
        <3>4. cut' = {} => InSession(r)'
            BY <2>2, <2>4, <2>8, <3>1, <3>2, <3>3 DEF InSession
        <3> QED
            BY <3>1, <3>4 DEF Tended, Unheard, Early, Watched
    <2> QED
        BY <2>5, <2>6, <2>7, <2>8, InTimeStill
<1>6. CASE FailNewRequest(r)
    <2>1. pc[Req(r)] = "conf_wait" /\ Holds(confLock, Req(r)) /\ confLock' = confLock
          /\ pc' = [pc EXCEPT ![Req(r)] = "fail_cancel"] /\ args' = args \ {r} /\ tracked' = tracked \ {r}
        BY <1>6 DEF FailNewRequest, Forget
    <2>2. UNCHANGED <<req, generation, gen, target, flag, dropVars, historyVars>>
        BY <1>6 DEF FailNewRequest
    <2>3. InOrder
        BY <2>1, OneGoesOn DEF InConf
    <2>4. ASSUME NEW d \in Deciders PROVE Patient(d)
        BY <2>1, <2>2 DEF Patient, Late
    <2>5. ASSUME NEW q \in Confirmed PROVE Spares(q)
        <3>1. SparesEarly(q)
            BY <1>0, <2>1, <2>2 DEF SparesEarly, Early, Primed
        <3>2. SparesSession(q)
            BY <1>0, <2>1, <2>2 DEF SparesSession, Sweeps, Sweeping
        <3>3. SparesWatch(q)
            BY <1>0, <2>1, <2>2 DEF SparesWatch, Asked, Failing
        <3> QED
            BY <2>2, <3>1, <3>2, <3>3 DEF Spares
    <2> QED
        BY <2>3, <2>4, <2>5, InTimeStill
<1> QED
    BY <1>1, <1>2, <1>3, <1>4, <1>5, <1>6, Zenon DEF RequestStep

\* Steps of a disconnect: it moves the generation while nobody is between the
\* check of a request and its handler, and takes all that is tracked with it.
LEMMA DropInTime ==
    ASSUME Grounded, Once, Lawful, Unrecorded, Truth, InHand, InTime,
           (\A q \in Requests : GoesOn(q)), NEW x \in Drops, DropStep(x)
    PROVE  InTime'
<1> USE ProcType, ProcParts, ProcDistinct
        DEF Grounded, TypeOK, LocalTypeOK, Aimed, At, AtSup, Go, See, Working, localVars, storeVars,
            memoryVars, lockVars, dropVars, historyVars, Remains
<1>0. Confirmed \subseteq Requests
    BY ModelAssumption DEF Confirmed
<1>1. CASE DropBump(x)
    <2>1. pc[Drop(x)] = "conf_wait" /\ Holds(confLock, Drop(x)) /\ confLock' = confLock
          /\ pc' = [pc EXCEPT ![Drop(x)] = "next"] /\ todo' = [todo EXCEPT ![x] = tracked]
        BY <1>1 DEF DropBump
    <2>2. UNCHANGED <<req, args, tracked, gen, target, flag, online, historyVars>>
        BY <1>1 DEF DropBump
    <2>3. InOrder
        BY <2>1, OneGoesOn DEF InConf
    <2>4. ASSUME NEW d \in Deciders PROVE Patient(d)
        BY <2>1, <2>2 DEF Patient, Late
    <2>5. ASSUME NEW q \in Confirmed PROVE Tended(q)'
        <3>1. pc'[Req(q)] = pc[Req(q)] /\ pc'[Sup(q)] = pc[Sup(q)]
              /\ \A d \in Deciders : pc'[Dec(d)] = pc[Dec(d)]
            BY <2>1
        <3>2. Unheard(q)'
            BY <2>2, <3>1 DEF InTime, Tended, Unheard, Early, Primed
        <3>3. Watched(q)'
            <4>1. ASSUME NEW y \in Drops, Failing(y, q) PROVE Failing(y, q)'
                BY <2>1, <2>2, <4>1 DEF Failing
            <4> QED
                BY <2>2, <3>1, <4>1 DEF InTime, Tended, Watched, Asked
        <3>4. pc[Sup(q)] # "checked"
            <4> SUFFICES ASSUME pc[Sup(q)] = "checked" PROVE FALSE
                OBVIOUS
            <4>1. Sup(q) \in DOMAIN confLock /\ confLock[Sup(q)] = {}
                BY <1>0 DEF InTime, InLine, InConf
            <4> QED
                BY <2>1, <4>1 DEF InTime, InLine, Holds
        <3>5. q \in tracked => Sweeps(x, q)'
            BY <2>1, <2>2 DEF Sweeps, Sweeping, DropTypeOK
        <3>6. cut' = {} => InSession(q)'
            BY <2>2, <3>1, <3>4, <3>5 DEF InTime, Tended, InSession
        <3> QED
            BY <3>2, <3>3, <3>6 DEF Tended
    <2> QED
        BY <2>3, <2>4, <2>5, InTimeStill
<1>2. CASE \E r \in Requests : DropNext(x, r)
    <2> PICK r \in Requests : DropNext(x, r)
        BY <1>2
    <2>1. pc[Drop(x)] = "next" /\ confLock' = confLock /\ pc' = [pc EXCEPT ![Drop(x)] = "fail_cancel"]
          /\ todo' = [todo EXCEPT ![x] = todo[x] \ {r}] /\ target' = [target EXCEPT ![Drop(x)] = r]
          /\ args' = args \ {r} /\ tracked' = tracked \ {r}
        BY DEF DropNext, Forget
    <2>2. UNCHANGED <<req, generation, gen, flag, online, historyVars>>
        BY DEF DropNext
    <2>3. InOrder
        BY <2>1, OneGoesOn DEF InConf
    <2>4. \A k \in Proc : k[1] # "drop" => pc'[k] = pc[k] /\ target'[k] = target[k]
        BY <2>1
    <2>5. ASSUME NEW d \in Deciders PROVE Patient(d)
        BY <2>4 DEF Patient, Late
    <2>6. ASSUME NEW q \in Confirmed PROVE Spares(q)
        <3>1. SparesEarly(q)
            BY <1>0, <2>1, <2>2, <2>4 DEF SparesEarly, Early, Primed
        <3>2. SparesSession(q)
            BY <1>0, <2>1, <2>2, <2>4 DEF SparesSession, Sweeps, Sweeping, DropTypeOK
        <3>3. SparesWatch(q)
            <4>1. q = r => Failing(x, q)'
                BY <2>1 DEF Failing
            <4>2. ASSUME NEW y \in Drops, Failing(y, q) PROVE Failing(y, q)'
                BY <2>1, <4>2 DEF Failing
            <4> QED
                BY <1>0, <2>1, <2>2, <2>4, <4>1, <4>2 DEF SparesWatch, Asked
        <3> QED
            BY <2>2, <3>1, <3>2, <3>3 DEF Spares
    <2> QED
        BY <2>3, <2>5, <2>6, InTimeStill
<1>3. CASE DropEnd(x)
    <2>1. pc[Drop(x)] = "next" /\ todo[x] = {} /\ confLock' = Leave(confLock, Drop(x))
          /\ \E l \in {"done", "publish"} : pc' = [pc EXCEPT ![Drop(x)] = l]
        BY <1>3 DEF DropEnd
    <2>2. UNCHANGED <<req, args, tracked, generation, gen, target, flag, dropVars, historyVars>>
        BY <1>3 DEF DropEnd
    <2>3. InOrder
        BY <2>1, OneLeaves DEF InConf
    <2>4. \A k \in Proc : k[1] # "drop" => pc'[k] = pc[k]
        BY <2>1
    <2>5. ASSUME NEW d \in Deciders PROVE Patient(d)
        BY <2>2, <2>4 DEF Patient, Late
    <2>6. ASSUME NEW q \in Confirmed PROVE Spares(q)
        <3>1. SparesEarly(q)
            BY <1>0, <2>2, <2>4 DEF SparesEarly, Early, Primed
        <3>2. SparesSession(q)
            BY <1>0, <2>1, <2>2, <2>4 DEF SparesSession, Sweeps, Sweeping
        <3>3. SparesWatch(q)
            BY <1>0, <2>1, <2>2, <2>4 DEF SparesWatch, Asked, Failing
        <3> QED
            BY <2>2, <3>1, <3>2, <3>3 DEF Spares
    <2> QED
        BY <2>3, <2>5, <2>6, InTimeStill
<1> QED
    BY <1>1, <1>2, <1>3 DEF DropStep

-----------------------------------------------------------------------------
\* A step of decide(), in or out of the line.
LEMMA DeciderStep ==
    ASSUME Grounded, Once, InTime, InOrder, \A q \in Requests : GoesOn(q),
           UNCHANGED <<gen, generation, online, todo, cut, forgotten, born, restarts>>,
           args' \subseteq args, tracked' \subseteq tracked,
           \A q \in Confirmed : Remains(q),
           NEW d \in Deciders,
           \A k \in Proc : k # Dec(d) => target'[k] = target[k] /\ flag'[k] = flag[k],
           \A k \in Proc : k # Dec(d) =>
             pc'[k] = pc[k] \/ (k = Sup(target[Dec(d)]) /\ pc[Dec(d)] = "started" /\ pc'[k] = "new"),
           \A q \in Confirmed : Primed(d, q)' => Primed(d, q) \/ q \in args,
           Patient(d) \/ Begun(target[Dec(d)])'
    PROVE  InTime'
<1> USE ProcType, ProcParts, ProcDistinct
<1>0. Confirmed \subseteq Requests
    BY ModelAssumption DEF Confirmed
<1>1. ASSUME NEW e \in Deciders PROVE Patient(e) \/ Begun(target[Dec(e)])'
    BY DEF Patient, Late
<1>2. ASSUME NEW q \in Confirmed PROVE PlainRequest(q)
    <2>1. pc'[Req(q)] = pc[Req(q)]
        BY <1>0
    <2>2. \/ pc'[Sup(q)] = pc[Sup(q)]
          \/ /\ ~(Early(q) /\ pc[Sup(q)] = "idle")
             /\ pc'[Sup(q)] = "checked" /\ cut = {} => gen[q] = generation
        <3>1. CASE q = target[Dec(d)] /\ pc[Dec(d)] = "started"
            <4>1. ~Early(q)
                BY <3>1 DEF InTime, Tended, Unheard, Primed
            <4> QED
                BY <1>0, <4>1
        <3>2. CASE ~(q = target[Dec(d)] /\ pc[Dec(d)] = "started")
            BY <1>0, <3>2
        <3> QED
            BY <3>1, <3>2
    <2>3. ASSUME NEW e \in Deciders, Primed(e, q)' PROVE Primed(e, q) \/ q \in args
        BY <2>3 DEF Primed
    <2> QED
        BY <2>1, <2>2, <2>3 DEF PlainRequest
<1>3. ASSUME NEW x \in Drops PROVE PlainDrop(x)
    BY DEF PlainDrop
<1> QED
    BY <1>1, <1>2, <1>3, PlainStep DEF Plain

\* Steps of decide(): it starts only what has its arguments, and forgets only
\* what is decided.
LEMMA DecideInTime ==
    ASSUME Grounded, Once, Lawful, Unrecorded, Truth, InHand, InTime,
           (\A q \in Requests : GoesOn(q)), NEW d \in Deciders, DecideStep(d)
    PROVE  InTime'
<1> USE ProcType, ProcParts, ProcDistinct
        DEF Grounded, TypeOK, LocalTypeOK, Aimed, At, AtSup, Go, See, Working, localVars, storeVars,
            memoryVars, lockVars, dropVars, historyVars, Remains
<1>0. Confirmed \subseteq Requests
    BY ModelAssumption DEF Confirmed
<1>1. CASE DecideLock(d)
    <2>1. UNCHANGED <<gen, generation, online, todo, cut, forgotten, born, restarts>>
          /\ args' \subseteq args /\ tracked' \subseteq tracked
        BY <1>1 DEF DecideLock
    <2>2. ASSUME NEW q \in Confirmed PROVE Remains(q)
        BY <1>1 DEF DecideLock
    <2>3. \A k \in Proc : k # Dec(d) => target'[k] = target[k] /\ flag'[k] = flag[k]
        BY <1>1 DEF DecideLock
    <2>4. \A k \in Proc : k # Dec(d) =>
             pc'[k] = pc[k] \/ (k = Sup(target[Dec(d)]) /\ pc[Dec(d)] = "started" /\ pc'[k] = "new")
        BY <1>1 DEF DecideLock
    <2>5. InOrder
        BY <1>1, OneGoesOn DEF InConf, DecideLock
    <2>6. ASSUME NEW q \in Confirmed PROVE Primed(d, q)' => Primed(d, q) \/ q \in args
        BY <1>1 DEF Primed, DecideLock
    <2>7. Patient(d) \/ Begun(target[Dec(d)])'
        BY <1>1 DEF Patient, Late, DecideLock
    <2> QED
        BY <2>1, <2>2, <2>3, <2>4, <2>5, <2>6, <2>7, DeciderStep
<1>2. CASE DecideClaim(d)
    <2>1. UNCHANGED <<gen, generation, online, todo, cut, forgotten, born, restarts>>
          /\ args' \subseteq args /\ tracked' \subseteq tracked
        BY <1>2 DEF DecideClaim
    <2>2. ASSUME NEW q \in Confirmed PROVE Remains(q)
        <3>1. req'[q] = "pending_confirmation" => req[q] = "pending_confirmation"
            BY <1>0, <1>2, PendingOnly DEF DecideClaim
        <3> QED
            BY <1>2, <3>1 DEF DecideClaim
    <2>3. \A k \in Proc : k # Dec(d) => target'[k] = target[k] /\ flag'[k] = flag[k]
        BY <1>2 DEF DecideClaim
    <2>4. \A k \in Proc : k # Dec(d) =>
             pc'[k] = pc[k] \/ (k = Sup(target[Dec(d)]) /\ pc[Dec(d)] = "started" /\ pc'[k] = "new")
        BY <1>2 DEF DecideClaim
    <2>5. InOrder
        BY <1>2, OneGoesOn DEF InConf, DecideClaim
    <2>6. ASSUME NEW q \in Confirmed PROVE Primed(d, q)' => Primed(d, q) \/ q \in args
        BY <1>2 DEF Primed, DecideClaim
    <2>7. Patient(d) \/ Begun(target[Dec(d)])'
        <3>1. target[Dec(d)] \in Requests /\ Present(target[Dec(d)]) /\ target' = target
            BY <1>2 DEF DecideClaim, InHand, Knows
        <3>2. \E c, late : ClaimDecision(target[Dec(d)], c, late)
            BY <1>2 DEF DecideClaim
        <3>3. req'[target[Dec(d)]] \in {"running"} \cup Settled
            BY <3>1, <3>2
            DEF ClaimDecision, Verdict, RowsAgree, StoreTypeOK, Present, RequestState, Active, Settled
        <3> QED
            BY <3>1, <3>3 DEF Begun
    <2> QED
        BY <2>1, <2>2, <2>3, <2>4, <2>5, <2>6, <2>7, DeciderStep
<1>3. CASE DecideRefused(d)
    <2>1. UNCHANGED <<gen, generation, online, todo, cut, forgotten, born, restarts>>
          /\ args' \subseteq args /\ tracked' \subseteq tracked
        BY <1>3 DEF DecideRefused
    <2>2. ASSUME NEW q \in Confirmed PROVE Remains(q)
        <3>1. Begun(target[Dec(d)])
            BY <1>3 DEF InTime, Late, DecideRefused
        <3> QED
            BY <1>0, <1>3, <3>1 DEF DecideRefused, Begun, Settled
    <2>3. \A k \in Proc : k # Dec(d) => target'[k] = target[k] /\ flag'[k] = flag[k]
        BY <1>3 DEF DecideRefused
    <2>4. \A k \in Proc : k # Dec(d) =>
             pc'[k] = pc[k] \/ (k = Sup(target[Dec(d)]) /\ pc[Dec(d)] = "started" /\ pc'[k] = "new")
        BY <1>3 DEF DecideRefused
    <2>5. InOrder
        BY <1>3, OneLeaves DEF InConf, LeaveLocks, DecideRefused
    <2>6. ASSUME NEW q \in Confirmed PROVE Primed(d, q)' => Primed(d, q) \/ q \in args
        BY <1>3 DEF Primed, DecideRefused
    <2>7. Patient(d) \/ Begun(target[Dec(d)])'
        BY <1>3 DEF Patient, Late, DecideRefused
    <2> QED
        BY <2>1, <2>2, <2>3, <2>4, <2>5, <2>6, <2>7, DeciderStep
<1>4. CASE DecideApproved(d)
    <2>1. UNCHANGED <<gen, generation, online, todo, cut, forgotten, born, restarts>>
          /\ args' \subseteq args /\ tracked' \subseteq tracked
        BY <1>4 DEF DecideApproved, Forget
    <2>2. ASSUME NEW q \in Confirmed PROVE Remains(q)
        <3>1. Begun(target[Dec(d)])
            BY <1>4 DEF InTime, Late, DecideApproved
        <3> QED
            BY <1>0, <1>4, <3>1 DEF DecideApproved, Forget, Begun, Settled
    <2>3. \A k \in Proc : k # Dec(d) => target'[k] = target[k] /\ flag'[k] = flag[k]
        BY <1>4 DEF DecideApproved, Forget
    <2>4. \A k \in Proc : k # Dec(d) =>
             pc'[k] = pc[k] \/ (k = Sup(target[Dec(d)]) /\ pc[Dec(d)] = "started" /\ pc'[k] = "new")
        BY <1>4 DEF DecideApproved, Forget
    <2>5. InOrder
        BY <1>4, OneGoesOn DEF InConf, DecideApproved, Forget
    <2>6. ASSUME NEW q \in Confirmed PROVE Primed(d, q)' => Primed(d, q) \/ q \in args
        BY <1>4 DEF Primed, DecideApproved, Forget
    <2>7. Patient(d) \/ Begun(target[Dec(d)])'
        BY <1>4 DEF Patient, Late, DecideApproved, Forget
    <2> QED
        BY <2>1, <2>2, <2>3, <2>4, <2>5, <2>6, <2>7, DeciderStep
<1>5. CASE DecideReread(d)
    <2>1. UNCHANGED <<gen, generation, online, todo, cut, forgotten, born, restarts>>
          /\ args' \subseteq args /\ tracked' \subseteq tracked
        BY <1>5 DEF DecideReread
    <2>2. ASSUME NEW q \in Confirmed PROVE Remains(q)
        BY <1>5 DEF DecideReread
    <2>3. \A k \in Proc : k # Dec(d) => target'[k] = target[k] /\ flag'[k] = flag[k]
        BY <1>5 DEF DecideReread
    <2>4. \A k \in Proc : k # Dec(d) =>
             pc'[k] = pc[k] \/ (k = Sup(target[Dec(d)]) /\ pc[Dec(d)] = "started" /\ pc'[k] = "new")
        BY <1>5 DEF DecideReread
    <2>5. InOrder
        BY <1>5, OneGoesOn DEF InConf, DecideReread
    <2>6. ASSUME NEW q \in Confirmed PROVE Primed(d, q)' => Primed(d, q) \/ q \in args
        BY <1>5 DEF Primed, DecideReread
    <2>7. Patient(d) \/ Begun(target[Dec(d)])'
        BY <1>5 DEF Patient, Late, DecideReread
    <2> QED
        BY <2>1, <2>2, <2>3, <2>4, <2>5, <2>6, <2>7, DeciderStep
<1>6. CASE DecideRechecked(d)
    <2>1. UNCHANGED <<gen, generation, online, todo, cut, forgotten, born, restarts>>
          /\ args' \subseteq args /\ tracked' \subseteq tracked
        BY <1>6 DEF DecideRechecked, Forget
    <2>2. ASSUME NEW q \in Confirmed PROVE Remains(q)
        <3>1. Begun(target[Dec(d)])
            BY <1>6 DEF InTime, Late, DecideRechecked
        <3> QED
            BY <1>0, <1>6, <3>1 DEF DecideRechecked, Forget, Begun, Settled
    <2>3. \A k \in Proc : k # Dec(d) => target'[k] = target[k] /\ flag'[k] = flag[k]
        BY <1>6 DEF DecideRechecked, Forget
    <2>4. \A k \in Proc : k # Dec(d) =>
             pc'[k] = pc[k] \/ (k = Sup(target[Dec(d)]) /\ pc[Dec(d)] = "started" /\ pc'[k] = "new")
        BY <1>6 DEF DecideRechecked, Forget
    <2>5. InOrder
        <3>1. CASE pc'[Dec(d)] = "done"
            BY <1>6, <3>1, OneLeaves DEF InConf, LeaveLocks, DecideRechecked, Forget
        <3>2. CASE pc'[Dec(d)] # "done"
            BY <1>6, <3>2, OneGoesOn DEF InConf, DecideRechecked, Forget
        <3> QED
            BY <3>1, <3>2
    <2>6. ASSUME NEW q \in Confirmed PROVE Primed(d, q)' => Primed(d, q) \/ q \in args
        BY <1>6 DEF Primed, DecideRechecked, Forget
    <2>7. Patient(d) \/ Begun(target[Dec(d)])'
        BY <1>6 DEF Patient, Late, DecideRechecked, Forget
    <2> QED
        BY <2>1, <2>2, <2>3, <2>4, <2>5, <2>6, <2>7, DeciderStep
<1>7. CASE DecideNoContext(d)
    <2>1. UNCHANGED <<gen, generation, online, todo, cut, forgotten, born, restarts>>
          /\ args' \subseteq args /\ tracked' \subseteq tracked
        BY <1>7 DEF DecideNoContext
    <2>2. ASSUME NEW q \in Confirmed PROVE Remains(q)
        <3>1. req'[q] = "pending_confirmation" => req[q] = "pending_confirmation"
            BY <1>0, <1>7, PendingOnly DEF DecideNoContext
        <3> QED
            BY <1>7, <3>1 DEF DecideNoContext
    <2>3. \A k \in Proc : k # Dec(d) => target'[k] = target[k] /\ flag'[k] = flag[k]
        BY <1>7 DEF DecideNoContext
    <2>4. \A k \in Proc : k # Dec(d) =>
             pc'[k] = pc[k] \/ (k = Sup(target[Dec(d)]) /\ pc[Dec(d)] = "started" /\ pc'[k] = "new")
        BY <1>7 DEF DecideNoContext
    <2>5. InOrder
        BY <1>7, OneLeaves DEF InConf, LeaveLocks, DecideNoContext
    <2>6. ASSUME NEW q \in Confirmed PROVE Primed(d, q)' => Primed(d, q) \/ q \in args
        BY <1>7 DEF Primed, DecideNoContext
    <2>7. Patient(d) \/ Begun(target[Dec(d)])'
        BY <1>7 DEF Patient, Late, DecideNoContext
    <2> QED
        BY <2>1, <2>2, <2>3, <2>4, <2>5, <2>6, <2>7, DeciderStep
<1>8. CASE DecideStart(d)
    <2>1. UNCHANGED <<gen, generation, online, todo, cut, forgotten, born, restarts>>
          /\ args' \subseteq args /\ tracked' \subseteq tracked
        BY <1>8 DEF DecideStart
    <2>2. ASSUME NEW q \in Confirmed PROVE Remains(q)
        <3>1. req'[q] = "pending_confirmation" => req[q] = "pending_confirmation"
            BY <1>0, <1>8, PendingOnly DEF DecideStart
        <3> QED
            BY <1>8, <3>1 DEF DecideStart
    <2>3. \A k \in Proc : k # Dec(d) => target'[k] = target[k] /\ flag'[k] = flag[k]
        BY <1>8 DEF DecideStart
    <2>4. \A k \in Proc : k # Dec(d) =>
             pc'[k] = pc[k] \/ (k = Sup(target[Dec(d)]) /\ pc[Dec(d)] = "started" /\ pc'[k] = "new")
        BY <1>8 DEF DecideStart
    <2>5. InOrder
        BY <1>8, OneGoesOn DEF InConf, DecideStart
    <2>6. ASSUME NEW q \in Confirmed PROVE Primed(d, q)' => Primed(d, q) \/ q \in args
        BY <1>8 DEF Primed, DecideStart
    <2>7. Patient(d) \/ Begun(target[Dec(d)])'
        BY <1>8 DEF Patient, Late, DecideStart
    <2> QED
        BY <2>1, <2>2, <2>3, <2>4, <2>5, <2>6, <2>7, DeciderStep
<1>9. CASE DecideStarted(d)
    <2>1. UNCHANGED <<gen, generation, online, todo, cut, forgotten, born, restarts>>
          /\ args' \subseteq args /\ tracked' \subseteq tracked
        BY <1>9 DEF DecideStarted, Forget
    <2>2. ASSUME NEW q \in Confirmed PROVE Remains(q)
        <3>1. Begun(target[Dec(d)])
            BY <1>9 DEF InTime, Late, DecideStarted
        <3> QED
            BY <1>0, <1>9, <3>1 DEF DecideStarted, Forget, Begun, Settled
    <2>3. \A k \in Proc : k # Dec(d) => target'[k] = target[k] /\ flag'[k] = flag[k]
        BY <1>9 DEF DecideStarted, Forget
    <2>4. \A k \in Proc : k # Dec(d) =>
             pc'[k] = pc[k] \/ (k = Sup(target[Dec(d)]) /\ pc[Dec(d)] = "started" /\ pc'[k] = "new")
        BY <1>9 DEF DecideStarted, Forget
    <2>5. InOrder
        <3>1. CASE pc'[Dec(d)] = "publish"
            <4>1. pc[Sup(target[Dec(d)])] = "idle"
                BY <1>9 DEF DecideStarted, Once, OneClaim, Claims
            <4>2. ASSUME NEW k \in Proc, k # Dec(d)
                  PROVE  pc'[k] = pc[k] \/ (~InConf(k) /\ ~InConf(k)')
                BY <2>4, <4>1, <4>2 DEF InConf
            <4>3. confLock' = Leave(confLock, Dec(d)) /\ ~InConf(Dec(d))'
                BY <1>9, <3>1 DEF InConf, LeaveLocks, DecideStarted, Forget
            <4> QED
                BY <4>2, <4>3, OneLeaves
        <3>2. CASE pc'[Dec(d)] # "publish"
            BY <1>9, <3>2, OneGoesOn DEF InConf, DecideStarted, Forget
        <3> QED
            BY <3>1, <3>2
    <2>6. ASSUME NEW q \in Confirmed PROVE Primed(d, q)' => Primed(d, q) \/ q \in args
        BY <1>9 DEF Primed, DecideStarted, Forget
    <2>7. Patient(d) \/ Begun(target[Dec(d)])'
        BY <1>9 DEF Patient, Late, DecideStarted, Forget
    <2> QED
        BY <2>1, <2>2, <2>3, <2>4, <2>5, <2>6, <2>7, DeciderStep
<1> QED
    BY <1>1, <1>2, <1>3, <1>4, <1>5, <1>6, <1>7, <1>8, <1>9, Zenon DEF DecideStep

-----------------------------------------------------------------------------
\* A publication that is cancelled takes the handling of the lost client with it:
\* a sweep it interrupts is one of those left out.
LEMMA AbortInTime ==
    ASSUME Grounded, Once, Lawful, Unrecorded, Truth, InHand, InTime,
           (\A q \in Requests : GoesOn(q)), NEW r \in Requests, SupAborts(r)
    PROVE  InTime'
<1> USE ProcType, ProcParts, ProcDistinct
        DEF Grounded, TypeOK, LocalTypeOK, Aimed, At, AtSup, Go, See, Working, localVars, storeVars,
            memoryVars, lockVars, dropVars, historyVars, Remains
<1>0. Confirmed \subseteq Requests
    BY ModelAssumption DEF Confirmed
<1> DEFINE ends == {Sup(r)} \cup {Drop(x) : x \in Awaited(Sup(r))}
<1>1. pc[Sup(r)] = "publishing" /\ confLock' = LeaveAll(confLock, ends)
      /\ pc' = [q \in Proc |-> IF q \in ends THEN "done" ELSE pc[q]]
      /\ cut' = cut \cup {x \in Awaited(Sup(r)) : pc[Drop(x)] \notin {"publish", "publishing", "done"}}
      /\ \A q \in ends : pc[q] \notin {"fail_cancel", "next"}
    BY DEF SupAborts
<1>2. UNCHANGED <<req, args, tracked, generation, gen, target, flag, dropVars, runs, session, forgotten, born, restarts>>
    BY DEF SupAborts
<1>3. ends \in SUBSET Proc /\ \A q \in ends : q[1] \in {"supervise", "drop"}
    BY DEF Awaited
<1>4. \A q \in Requests : pc'[Sup(q)] = pc[Sup(q)] \/ q = r
    BY <1>1
<1>5. \A x \in Drops : Drop(x) \in ends => x \in Awaited(Sup(r))
    BY DEF Drop, Sup
<1> HIDE DEF ends
<1>6. InOrder
    <2>1. ASSUME NEW q \in Proc PROVE IF q \in ends THEN ~InConf(q)' ELSE Unmoved(q)
        BY <1>1 DEF Unmoved, InConf
    <2> QED
        BY <1>1, <1>3, <2>1 DEF InOrder, Leaves
<1>7. \A q \in Proc : q[1] \notin {"supervise", "drop"} => pc'[q] = pc[q]
    BY <1>1, <1>3
<1>8. ASSUME NEW d \in Deciders PROVE Patient(d)
    BY <1>2, <1>7 DEF Patient, Late
<1>9. ASSUME NEW q \in Confirmed PROVE Spares(q)
    <2>1. pc'[Req(q)] = pc[Req(q)] /\ \A d \in Deciders : pc'[Dec(d)] = pc[Dec(d)]
        BY <1>0, <1>7
    <2>2. SparesEarly(q)
        BY <1>0, <1>1, <1>2, <1>4, <2>1 DEF SparesEarly, Early, Primed, InTime, Tended, Unheard
    <2>3. ASSUME cut' = {} PROVE SparesSession(q)
        <3>1. ASSUME NEW x \in Drops
              PROVE  pc'[Drop(x)] = pc[Drop(x)] \/ pc[Drop(x)] \in {"publish", "publishing", "done"}
            BY <1>1, <1>5, <2>3
        <3>2. pc'[Sup(q)] = "checked" => pc[Sup(q)] = "checked"
            BY <1>0, <1>1
        <3> QED
            BY <1>2, <2>1, <3>1, <3>2 DEF SparesSession, Sweeps, Sweeping
    <2>4. SparesWatch(q)
        BY <1>1, <1>2, <2>1 DEF SparesWatch, Asked, Failing
    <2>5. cut' = {} => cut = {}
        BY <1>1
    <2> QED
        BY <2>2, <2>3, <2>4, <2>5 DEF Spares
<1> QED
    BY <1>6, <1>8, <1>9, InTimeStill

\* Steps that requests, decisions, supervisors and disconnects have in common.
LEMMA SharedInTime ==
    ASSUME Grounded, Once, Lawful, Unrecorded, Truth, InHand, InTime,
           (\A q \in Requests : GoesOn(q)), NEW p \in Proc, SharedStep(p)
    PROVE  InTime'
<1> USE ProcType, ProcParts, ProcDistinct
        DEF Grounded, TypeOK, LocalTypeOK, Aimed, At, AtSup, Go, See, Working, localVars, storeVars,
            memoryVars, lockVars, dropVars, historyVars, Remains
<1>0. Confirmed \subseteq Requests
    BY ModelAssumption DEF Confirmed
<1>1. CASE FailCancel(p)
    <2>1. pc[p] = "fail_cancel" /\ pc' = [pc EXCEPT ![p] = "fail_mark"] /\ confLock' = confLock
        BY <1>1 DEF FailCancel
    <2>2. UNCHANGED <<args, tracked, generation, gen, target, flag, dropVars, historyVars>>
        BY <1>1 DEF FailCancel
    <2>3. target[p] \in Requests
        BY <2>1
    <2>4. InOrder
        BY <2>1, OneGoesOn DEF InConf
    <2>5. ASSUME NEW d \in Deciders PROVE Patient(d)
        BY <2>1, <2>2 DEF Patient, Late
    <2>6. ASSUME NEW q \in Confirmed PROVE PlainRequest(q)
        <3>1. req'[q] = "pending_confirmation" => req[q] = "pending_confirmation"
            BY <1>0, <1>1, <2>3, PendingOnly DEF FailCancel
        <3>2. pc'[Req(q)] = pc[Req(q)] \/ (~Early(q) /\ pc[Req(q)] # "conf_wait"
              /\ pc'[Req(q)] = "fail_mark")
            BY <1>0, <2>1 DEF Early
        <3>3. pc'[Sup(q)] = pc[Sup(q)] \/ (pc[Sup(q)] # "idle" /\ pc'[Sup(q)] # "checked")
            BY <1>0, <2>1
        <3>4. ASSUME NEW d \in Deciders, Primed(d, q)' PROVE Primed(d, q)
            BY <2>1, <2>2, <3>4 DEF Primed
        <3> QED
            BY <2>2, <3>1, <3>2, <3>3, <3>4 DEF PlainRequest, Asked
    <2>7. ASSUME NEW x \in Drops PROVE PlainDrop(x)
        <3>1. ASSUME NEW q \in Confirmed, q = target[p] PROVE req'[q] # "pending_confirmation"
            BY <1>0, <1>1, <3>1, PendingOnly DEF FailCancel
        <3> QED
            BY <2>1, <2>2, <3>1 DEF PlainDrop, Sweeping, Failing
    <2> QED
        BY <2>2, <2>4, <2>5, <2>6, <2>7, PlainStep DEF Plain
<1>2. CASE FailMark(p)
    <2>1. pc[p] = "fail_mark" /\ pc' = [pc EXCEPT ![p] = "fail_done"] /\ confLock' = confLock
        BY <1>2 DEF FailMark
    <2>2. UNCHANGED <<args, tracked, generation, gen, target, flag, dropVars, historyVars>>
        BY <1>2 DEF FailMark
    <2>3. target[p] \in Requests
        BY <2>1
    <2>4. InOrder
        BY <2>1, OneGoesOn DEF InConf
    <2>5. ASSUME NEW d \in Deciders PROVE Patient(d)
        BY <2>1, <2>2 DEF Patient, Late
    <2>6. ASSUME NEW q \in Confirmed PROVE PlainRequest(q)
        <3>1. req'[q] = "pending_confirmation" => req[q] = "pending_confirmation"
            BY <1>0, <1>2, <2>3, PendingOnly DEF FailMark
        <3>2. pc'[Req(q)] = pc[Req(q)] \/ (~Early(q) /\ pc[Req(q)] # "conf_wait"
              /\ pc'[Req(q)] = "fail_done")
            BY <1>0, <2>1 DEF Early
        <3>3. pc'[Sup(q)] = pc[Sup(q)] \/ (pc[Sup(q)] # "idle" /\ pc'[Sup(q)] # "checked")
            BY <1>0, <2>1
        <3>4. ASSUME NEW d \in Deciders, Primed(d, q)' PROVE Primed(d, q)
            BY <2>1, <2>2, <3>4 DEF Primed
        <3> QED
            BY <2>2, <3>1, <3>2, <3>3, <3>4 DEF PlainRequest, Asked
    <2>7. ASSUME NEW x \in Drops PROVE PlainDrop(x)
        BY <2>1, <2>2 DEF PlainDrop, Sweeping, Failing
    <2> QED
        BY <2>2, <2>4, <2>5, <2>6, <2>7, PlainStep DEF Plain
<1>3. CASE FailDone(p)
    <2>1. pc[p] = "fail_done" /\ p[1] # "supervise"
          /\ \/ p[1] = "drop" /\ pc' = [pc EXCEPT ![p] = "next"] /\ confLock' = confLock
             \/ p[1] # "drop" /\ pc' = [pc EXCEPT ![p] = "publish"] /\ confLock' = Leave(confLock, p)
        BY <1>3 DEF FailDone, LeaveLocks
    <2>2. UNCHANGED <<req, args, tracked, generation, gen, target, flag, online, todo, historyVars>>
        BY <1>3 DEF FailDone
    <2>3. Ended(target[p])
        BY <2>1 DEF InHand, Knows
    <2>4. InOrder
        <3>1. CASE p[1] = "drop"
            BY <2>1, <3>1, OneGoesOn DEF InConf
        <3>2. CASE p[1] # "drop"
            BY <2>1, <3>2, OneLeaves DEF InConf
        <3> QED
            BY <3>1, <3>2
    <2>5. ASSUME NEW d \in Deciders PROVE Patient(d)
        BY <2>1, <2>2 DEF Patient, Late
    <2>6. ASSUME NEW q \in Confirmed PROVE PlainRequest(q)
        <3>1. Req(q) # p => pc'[Req(q)] = pc[Req(q)]
            BY <1>0, <2>1
        <3>2. Req(q) = p => pc[Req(q)] = "fail_done" /\ pc'[Req(q)] = "publish"
              /\ req[q] # "pending_confirmation"
            <4>1. Req(q) = p => target[p] = q /\ p[1] = "request"
                BY <1>0
            <4> QED
                BY <2>1, <2>3, <4>1 DEF Ended, Settled
        <3>3. pc'[Sup(q)] = pc[Sup(q)]
            BY <1>0, <2>1
        <3>4. ASSUME NEW d \in Deciders, Primed(d, q)' PROVE Primed(d, q)
            BY <2>1, <2>2, <3>4 DEF Primed
        <3> QED
            BY <2>2, <3>1, <3>2, <3>3, <3>4 DEF PlainRequest, Early, Asked
    <2>7. ASSUME NEW x \in Drops PROVE PlainDrop(x)
        BY <2>1, <2>2 DEF PlainDrop, Sweeping, Failing
    <2> QED
        BY <2>2, <2>4, <2>5, <2>6, <2>7, PlainStep DEF Plain
<1>4. CASE Publish(p)
    <2>1. UNCHANGED <<confLock, gen, generation, online, todo, cut, forgotten, born, restarts>>
          /\ args' \subseteq args /\ tracked' \subseteq tracked
        BY <1>4 DEF Publish, MayPublish
    <2>2. ASSUME NEW q \in Confirmed PROVE Remains(q)
        BY <1>0, <1>4 DEF Publish, MayPublish
    <2>3. ASSUME NEW k \in Proc PROVE Aside(k)
        BY <1>4 DEF Aside, InConf, Publish, MayPublish
    <2> QED
        BY <2>1, <2>2, <2>3, AsideStep
<1>5. CASE \E x \in Drops : PublishReturns(p, x)
    <2>1. UNCHANGED <<confLock, gen, generation, online, todo, cut, forgotten, born, restarts>>
          /\ args' \subseteq args /\ tracked' \subseteq tracked
        BY <1>5 DEF PublishReturns
    <2>2. ASSUME NEW q \in Confirmed PROVE Remains(q)
        BY <1>0, <1>5 DEF PublishReturns
    <2>3. ASSUME NEW k \in Proc PROVE Aside(k)
        BY <1>5 DEF Aside, InConf, PublishReturns
    <2> QED
        BY <2>1, <2>2, <2>3, AsideStep
<1> QED
    BY <1>1, <1>2, <1>3, <1>4, <1>5, Zenon DEF SharedStep

-----------------------------------------------------------------------------
\* A lost client gets in line at once, whoever noticed it.
LEMMA LossInTime ==
    ASSUME Grounded, InTime, (\A q \in Requests : GoesOn(q)), NEW x \in Drops,
           pc[Drop(x)] \in {"idle", "done"}, pc'[Drop(x)] = "conf_wait",
           confLock' = Join(confLock, Drop(x)),
           UNCHANGED <<req, args, tracked, generation, gen, target, flag, todo, historyVars>>,
           \A k \in Proc : k # Drop(x) =>
             pc'[k] = pc[k] \/ (pc[k] = "publish" /\ pc'[k] = "publishing")
    PROVE  InTime'
<1> USE ProcType, ProcParts, ProcDistinct
        DEF Grounded, TypeOK, LocalTypeOK, Aimed, At, AtSup, Go, See, Working, localVars, storeVars,
            memoryVars, lockVars, dropVars, historyVars, Remains
<1>0. Confirmed \subseteq Requests
    BY ModelAssumption DEF Confirmed
<1>1. InOrder
    BY OneJoins DEF InConf
<1>2. ASSUME NEW d \in Deciders PROVE Patient(d)
    BY DEF Patient, Late
<1>3. ASSUME NEW q \in Confirmed PROVE Tended(q)'
    <2>1. pc'[Req(q)] = pc[Req(q)] \/ (pc[Req(q)] = "publish" /\ pc'[Req(q)] = "publishing")
        BY <1>0
    <2>2. pc'[Sup(q)] = pc[Sup(q)] \/ (pc[Sup(q)] = "publish" /\ pc'[Sup(q)] = "publishing")
        BY <1>0
    <2>3. \A d \in Deciders : Primed(d, q)' => Primed(d, q)
        BY DEF Primed
    <2>4. \A y \in Drops : (Sweeps(y, q) => Sweeps(y, q)') /\ (Failing(y, q) => Failing(y, q)')
        BY DEF Sweeps, Sweeping, Failing
    <2>5. Unheard(q)'
        BY <2>1, <2>2, <2>3 DEF InTime, Tended, Unheard, Early
    <2>6. cut' = {} => InSession(q)'
        BY <2>1, <2>2, <2>4 DEF InTime, Tended, InSession
    <2>7. Watched(q)'
        BY <2>1, <2>4 DEF InTime, Tended, Watched, Asked
    <2> QED
        BY <2>5, <2>6, <2>7 DEF Tended
<1> QED
    BY <1>1, <1>2, <1>3, InTimeStill

\* What callers and clients start, the clock, and a restart.
LEMMA EnvironmentInTime ==
    ASSUME Grounded, Once, Lawful, Unrecorded, Truth, InHand, InTime,
           (\A q \in Requests : GoesOn(q)), Environment
    PROVE  InTime'
<1> USE ProcType, ProcParts, ProcDistinct
        DEF Grounded, TypeOK, LocalTypeOK, Aimed, At, AtSup, Go, See, Working, localVars, storeVars,
            memoryVars, lockVars, dropVars, historyVars, Remains
<1>0. Confirmed \subseteq Requests
    BY ModelAssumption DEF Confirmed
<1>1. CASE \E r \in Requests : Request(r)
    <2> PICK r \in Requests : Request(r)
        BY <1>1
    <2>1. pc[Req(r)] = "idle" /\ pc' = [pc EXCEPT ![Req(r)] = "create"] /\ confLock' = confLock
          /\ gen' = [gen EXCEPT ![r] = generation]
        BY DEF Request
    <2>2. UNCHANGED <<req, args, tracked, generation, target, flag, dropVars, historyVars>>
        BY DEF Request
    <2>3. InOrder
        <3>1. ASSUME NEW k \in Proc PROVE Unmoved(k)
            BY <2>1 DEF Unmoved, InConf
        <3> QED
            BY <2>1, <3>1 DEF InOrder
    <2>4. ASSUME NEW d \in Deciders PROVE Patient(d)
        BY <2>1, <2>2 DEF Patient, Late
    <2>5. ASSUME NEW q \in Confirmed, q # r PROVE Spares(q)
        <3>1. SparesEarly(q)
            BY <1>0, <2>1, <2>2, <2>5 DEF SparesEarly, Early, Primed
        <3>2. SparesSession(q)
            BY <1>0, <2>1, <2>2, <2>5 DEF SparesSession, Sweeps, Sweeping
        <3>3. SparesWatch(q)
            BY <1>0, <2>1, <2>2, <2>5 DEF SparesWatch, Asked, Failing
        <3> QED
            BY <2>2, <3>1, <3>2, <3>3 DEF Spares
    <2>6. ASSUME r \in Confirmed PROVE Tended(r)'
        <3>1. pc[Sup(r)] = "idle" /\ r \notin args \cup tracked /\ \A d \in Deciders : ~Primed(d, r)
            BY <2>1, <2>6 DEF InTime, Tended, Unheard, Early
        <3>2. runs[r] = 0
            BY <3>1 DEF Once, OneRun
        <3>3. pc'[Req(r)] = "create" /\ pc'[Sup(r)] = "idle"
            BY <2>1, <3>1
        <3>4. \A d \in Deciders : ~Primed(d, r)'
            BY <2>1, <2>2, <3>1 DEF Primed
        <3> QED
            BY <2>2, <3>1, <3>2, <3>3, <3>4 DEF Tended, Unheard, InSession, Watched, Asked
    <2> QED
        BY <2>3, <2>4, <2>5, <2>6, InTimeStill
<1>2. CASE \E d \in Deciders, r \in Requests : Decide(d, r)
    <2> PICK d \in Deciders, r \in Requests : Decide(d, r)
        BY <1>2
    <2>1. InOrder
        BY OneJoins DEF InConf, Decide
    <2>2. UNCHANGED <<gen, generation, online, todo, cut, forgotten, born, restarts, req, args, tracked, runs, session>>
        BY DEF Decide
    <2>3. /\ \A k \in Proc : k # Dec(d) => target'[k] = target[k] /\ flag'[k] = flag[k] /\ pc'[k] = pc[k]
          /\ pc'[Dec(d)] = "conf_wait" /\ pc[Dec(d)] = "idle"
        BY DEF Decide
    <2>4. Patient(d)
        BY <2>3 DEF Patient, Late
    <2>5. ASSUME NEW q \in Confirmed PROVE Remains(q) /\ ~Primed(d, q)'
        BY <2>2, <2>3 DEF Primed
    <2> QED
        BY <2>1, <2>2, <2>3, <2>4, <2>5, DeciderStep
<1>3. CASE \E c \in Cancellers, r \in Requests : Cancel(c, r)
    <2>1. UNCHANGED <<confLock, gen, generation, online, todo, cut, forgotten, born, restarts>>
          /\ args' \subseteq args /\ tracked' \subseteq tracked
        BY <1>3 DEF Cancel
    <2>2. ASSUME NEW q \in Confirmed PROVE Remains(q)
        BY <1>0, <1>3 DEF Cancel
    <2>3. ASSUME NEW k \in Proc PROVE Aside(k)
        BY <1>3 DEF Aside, InConf, Cancel
    <2> QED
        BY <2>1, <2>2, <2>3, AsideStep
<1>4. CASE \E x \in Drops : Disconnect(x)
    <2> PICK x \in Drops : Disconnect(x)
        BY <1>4
    <2>1. /\ pc[Drop(x)] = "idle" /\ pc' = [pc EXCEPT ![Drop(x)] = "conf_wait"]
          /\ confLock' = Join(confLock, Drop(x))
          /\ UNCHANGED <<req, args, tracked, generation, gen, target, flag, todo, historyVars>>
        BY DEF Disconnect
    <2> QED
        BY <2>1, LossInTime
<1>5. CASE Reconnect
    <2>1. UNCHANGED <<req, args, tracked, generation, gen, target, flag, todo, historyVars, pc, confLock>>
          /\ online'
        BY <1>5 DEF Reconnect
    <2>2. InOrder
        BY <2>1 DEF InOrder, Unmoved, InConf, InTime, InLine
    <2>3. ASSUME NEW d \in Deciders PROVE Patient(d)
        BY <2>1 DEF Patient, Late
    <2>4. ASSUME NEW q \in Confirmed PROVE Spares(q)
        <3>1. SparesEarly(q)
            BY <2>1 DEF SparesEarly, Early, Primed
        <3>2. SparesSession(q)
            BY <2>1 DEF SparesSession, Sweeps, Sweeping
        <3>3. SparesWatch(q)
            BY <2>1 DEF SparesWatch, Asked, Failing
        <3> QED
            BY <2>1, <3>1, <3>2, <3>3 DEF Spares
    <2> QED
        BY <2>2, <2>3, <2>4, InTimeStill
<1>6. CASE \E p \in Proc, x \in Drops : PublishToDead(p, x)
    <2> PICK p \in Proc, x \in Drops : PublishToDead(p, x)
        BY <1>6
    <2>1. /\ pc[Drop(x)] = "idle" /\ pc' = [pc EXCEPT ![p] = "publishing", ![Drop(x)] = "conf_wait"]
          /\ pc[p] = "publish" /\ confLock' = Join(confLock, Drop(x))
          /\ UNCHANGED <<req, args, tracked, generation, gen, target, flag, todo, historyVars>>
        BY DEF PublishToDead, MayPublish
    <2> QED
        BY <2>1, LossInTime
<1>7. CASE \E r \in Requests : PassTime(r)
    <2>1. UNCHANGED <<confLock, gen, generation, online, todo, cut, forgotten, born, restarts>>
          /\ args' \subseteq args /\ tracked' \subseteq tracked
        BY <1>7 DEF PassTime
    <2>2. ASSUME NEW q \in Confirmed PROVE Remains(q)
        <3>1. req'[q] = "pending_confirmation" => req[q] = "pending_confirmation"
            BY <1>0, <1>7 DEF PassTime, PassDeadline
        <3> QED
            BY <1>7, <3>1 DEF PassTime
    <2>3. ASSUME NEW k \in Proc PROVE Aside(k)
        BY <1>7 DEF Aside, InConf, PassTime
    <2> QED
        BY <2>1, <2>2, <2>3, AsideStep
<1>8. CASE List
    <2>1. UNCHANGED <<confLock, gen, generation, online, todo, cut, forgotten, born, restarts>>
          /\ args' \subseteq args /\ tracked' \subseteq tracked
        BY <1>8 DEF List
    <2>2. ASSUME NEW q \in Confirmed PROVE Remains(q)
        <3>1. req'[q] = "pending_confirmation" => req[q] = "pending_confirmation"
            BY <1>0, <1>8 DEF List, ListPendingConfirmations
        <3> QED
            BY <1>8, <3>1 DEF List
    <2>3. ASSUME NEW k \in Proc PROVE Aside(k)
        BY <1>8 DEF Aside, InConf, List
    <2> QED
        BY <2>1, <2>2, <2>3, AsideStep
<1>9. CASE Restart
    <2>1. confLock' = Free /\ args' = {} /\ tracked' = {} /\ restarts' = restarts + 1
          /\ UNCHANGED <<runs, session, gen, born>>
        BY <1>9 DEF Restart, LoseMemory
    <2>2. ASSUME NEW k \in Proc PROVE pc'[k] \in {"idle", "done"} /\ (pc'[k] = "idle" => pc[k] = "idle")
        BY <1>9 DEF Restart
    <2>3. InLine'
        <3>1. DOMAIN confLock' = {}
            BY <2>1 DEF Free
        <3>2. \A k \in Proc : ~InConf(k)'
            BY <2>2 DEF InConf
        <3> QED
            BY <3>1, <3>2 DEF InLine, Follows
    <2>4. ASSUME NEW d \in Deciders PROVE ~Late(d)'
        BY <2>2 DEF Late
    <2>5. ASSUME NEW q \in Confirmed PROVE Tended(q)'
        <3>1. pc'[Req(q)] \in {"idle", "done"} /\ pc'[Sup(q)] \in {"idle", "done"}
            BY <1>0, <2>2
        <3>2. Early(q)' => pc'[Sup(q)] = "idle"
            BY <1>0, <1>9, <2>2 DEF Early, InTime, Tended, Unheard, Restart
        <3>3. \A d \in Deciders : ~Primed(d, q)'
            BY <2>2 DEF Primed
        <3>4. born'[q] # restarts'
            BY <1>0, <2>1 DEF InHand, HistoryTypeOK
        <3>5. cut' = cut
            BY <1>9 DEF Restart
        <3>6. cut' = {} => InSession(q)'
            BY <2>1, <3>1, <3>5 DEF InTime, Tended, InSession
        <3> QED
            BY <2>1, <3>2, <3>3, <3>4, <3>6 DEF Tended, Unheard, Watched, Asked
    <2> QED
        BY <2>3, <2>4, <2>5 DEF InTime
<1>10. CASE \E r \in Requests : CallerCancelled(r)
    <2> PICK r \in Requests : CallerCancelled(r)
        BY <1>10
    <2>1. UNCHANGED <<req, confLock, gen, generation, online, todo, cut, forgotten, born, restarts, args, tracked,
                      runs, session, target, flag>>
        BY DEF CallerCancelled
    <2>2. ASSUME NEW q \in Confirmed PROVE Remains(q)
        BY <2>1
    <2>3. ASSUME NEW k \in Proc PROVE Aside(k)
        BY <2>1, CancelledCaller DEF Aside, InConf
    <2> QED
        BY <2>1, <2>2, <2>3, AsideStep
<1> QED
    BY <1>1, <1>2, <1>3, <1>4, <1>5, <1>6, <1>7, <1>8, <1>9, <1>10, Zenon DEF Environment

\* Every step keeps what is between the generation, the line and the requests.
LEMMA InTimeStep == Firm /\ InTime /\ [Next]_vars => InTime'
<1> SUFFICES ASSUME Grounded, Once, Lawful, Unrecorded, Truth, InHand, InTime, [Next]_vars PROVE InTime'
    BY DEF Firm
<1>1. \A q \in Requests : GoesOn(q)
    BY StoreRefined, RowsGoOn DEF Grounded, TypeOK
<1>2. CASE Service
    BY <1>1, <1>2, RequestInTime, WaitInTime, SupInTime, AbortInTime, DecideInTime, CancelInTime,
       DropInTime, SharedInTime, Zenon
    DEF Service
<1>3. CASE Environment
    BY <1>1, <1>3, EnvironmentInTime
<1>4. CASE UNCHANGED vars
    <2>1. InLine'
        BY <1>4 DEF vars, lockVars, InTime, InLine, InConf, Follows
    <2>2. \A d \in Deciders : Late(d)' => Begun(target[Dec(d)])'
        BY <1>4 DEF vars, storeVars, localVars, InTime, Late, Begun
    <2>3. ASSUME NEW q \in Confirmed PROVE Tended(q)'
        BY <1>4
        DEF vars, storeVars, memoryVars, dropVars, localVars, historyVars, InTime, Tended, Unheard,
            Early, Primed, InSession, Sweeps, Sweeping, Watched, Asked, Failing, At
    <2> QED
        BY <2>1, <2>2, <2>3 DEF InTime
<1> QED
    BY <1>2, <1>3, <1>4 DEF Next, Quiescent

\* It holds in every state of the service.
LEMMA AlwaysInTime == Spec => [](Firm /\ InTime)
BY AlwaysFirm, InTimeInit, InTimeStep, PTL DEF Spec

\* Whatever the order of tracking, sweeps, approvals and retries of connections:
\* as long as every sweep is carried through, a handler that was called for a
\* model's request was called in the session the request was made in.
THEOREM SessionTheorem == Spec => []ModelRunsInItsSession
<1>1. InTime => ModelRunsInItsSession
    BY DEF InTime, Tended, InSession, ModelRunsInItsSession
<1> QED
    BY <1>1, AlwaysInTime, PTL

\* A client that stays away leaves nothing to wait for, but what request() is at.
LEMMA InTimeSettles == InTime => OfflineSettles
<1> SUFFICES ASSUME InTime, cut = {}, NEW r \in Confirmed,
                    req[r] = "pending_confirmation", born[r] = restarts, ~online,
                    \A x \in Drops : ~Working(Drop(x))
             PROVE  Working(Req(r))
    BY DEF OfflineSettles, ClientLossSettles
<1>1. Tended(r) /\ r \in Requests
    BY ModelAssumption DEF InTime, Confirmed
<1>2. r \notin tracked \/ pc[Req(r)] = "conf_wait"
    BY <1>1 DEF Tended, InSession, Sweeps, Sweeping, Working, At
<1>3. pc[Req(r)] \notin {"idle", "done"}
    BY <1>1, <1>2 DEF Tended, Watched, Asked, Failing, Working, At
<1> QED
    BY <1>3 DEF Working

\* As long as every sweep is carried through, a client that stays away leaves
\* no model request waiting for its confirmation once its loss is handled.
THEOREM OfflineTheorem == Spec => []OfflineSettles
BY InTimeSettles, AlwaysInTime, PTL

-----------------------------------------------------------------------------
(* What ToolExecution guarantees is guaranteed while and after aclose()    *)
(* settles and stops what the service has in hand, whichever of its calls  *)
(* of the repository raise and however often it is tried.                  *)

\* The types of the closing task, as far as its steps on the tables depend on them.
CloseTypeOK ==
    /\ closing \in {"no", "announcing", "settling", "answering", "stopping", "failed", "closed"}
    /\ notice \in Drops \cup {"none"} /\ (closing # "no" => notice \in Drops)
    /\ left \in SUBSET Requests /\ gathered \in SUBSET Requests
    /\ current \in Requests \cup {"none"} /\ found \in RequestState

\* The invariant of ToolExecution's proofs, and the types of the closing task.
Secure == Grounded /\ Once /\ Lawful /\ CloseTypeOK

\* It holds before anything was called.
LEMMA SecureInit == ShutdownInit => Secure
<1>1. ShutdownInit => Init /\ CloseTypeOK
    BY StateType DEF ShutdownInit, CloseTypeOK
<1> QED
    BY <1>1, GroundedInit, OnceInit, LawfulInit DEF Secure

\* What the closing task does to the tables are transactions of ToolStore.
LEMMA CloseStore ==
    ASSUME Secure, CloseStep \/ \E x \in Drops : Close(x)
    PROVE  [StoreNext]_storeVars
<1> USE DEF Secure, Grounded, TypeOK, storeVars
<1>1. CASE \E r \in Requests : SettleNext(r) \/ StopNext(r)
    BY <1>1, Transactions DEF SettleNext, StopNext
<1>2. CASE \/ Announced \/ SettleForget \/ SettleAnswer \/ Swept \/ StopTask \/ Closed
           \/ AnnouncementRaises \/ AnswerRaises
           \/ (\E r \in Requests : SettleRaises(r) \/ StopRaises(r))
           \/ (\E x \in Drops : Close(x))
    BY <1>2 DEF Announced, SettleForget, SettleAnswer, Swept, StopTask, Closed, SettleRaises,
                StopRaises, AnnouncementRaises, AnswerRaises, Close, vars
<1> QED
    BY <1>1, <1>2 DEF CloseStep

-----------------------------------------------------------------------------
(* The steps of aclose() keep the types, and are quiet and tame.           *)

\* Its beginning queues a disconnect of its own.
LEMMA CloseTypes ==
    ASSUME Secure, StoreTypeOK', NEW x \in Drops, Close(x)
    PROVE  TypeOK' /\ Aimed' /\ CloseTypeOK'
<1> USE ProcType, ProcParts
        DEF Secure, Grounded, TypeOK, Aimed, At, Go, Working, memoryVars, lockVars, localVars,
            dropVars, historyVars
<1>1. MemoryTypeOK' /\ HistoryTypeOK'
    BY DEF MemoryTypeOK, HistoryTypeOK, Close
<1>2. DropTypeOK'
    BY DEF DropTypeOK, Close
<1>3. LockTypeOK'
    BY JoinType DEF LockTypeOK, Close
<1>4. LocalTypeOK'
    BY DEF LocalTypeOK, StoreTypeOK, Close
<1>5. pc' \in [Proc -> Label] /\ Aimed'
    BY LabelType DEF LocalTypeOK, Close
<1>6. CloseTypeOK'
    BY DEF CloseTypeOK, Close
<1> QED
    BY <1>1, <1>2, <1>3, <1>4, <1>5, <1>6

\* The rest works on requests of the service.
LEMMA CloseStepTypes ==
    ASSUME Secure, StoreTypeOK', CloseStep
    PROVE  TypeOK' /\ Aimed' /\ CloseTypeOK'
<1> USE ResolveType
        DEF Secure, Grounded, TypeOK, Aimed, At, Working, memoryVars, lockVars, localVars,
            dropVars, historyVars, MemoryTypeOK, LockTypeOK, DropTypeOK, LocalTypeOK,
            HistoryTypeOK, StoreTypeOK, CloseTypeOK
<1>1. CASE Announced
    BY <1>1 DEF Announced, vars, storeVars, Outstanding
<1>2. CASE \E r \in Requests : SettleNext(r)
    BY <1>2 DEF SettleNext
<1>3. CASE SettleForget
    BY <1>3 DEF SettleForget, Forget, storeVars
<1>4. CASE SettleAnswer
    BY <1>4 DEF SettleAnswer, storeVars
<1>5. CASE \E r \in Requests : SettleRaises(r) \/ StopRaises(r)
    BY <1>5 DEF SettleRaises, StopRaises, vars, storeVars
<1>6. CASE Swept
    BY <1>6 DEF Swept, ToStop, vars, storeVars
<1>7. CASE \E r \in Requests : StopNext(r)
    BY <1>7 DEF StopNext
<1>8. CASE StopTask
    BY <1>8 DEF StopTask, CancelTask, storeVars
<1>9. CASE Closed \/ AnswerRaises
    BY <1>9 DEF Closed, AnswerRaises, vars, storeVars
<1>10. CASE AnnouncementRaises
    <2>1. Drop(notice) \in Proc /\ notice \in Drops
        BY <1>10, ProcType DEF AnnouncementRaises
    <2>2. pc' = [pc EXCEPT ![Drop(notice)] = "done"] /\ confLock' = Leave(confLock, Drop(notice))
          /\ cut' = cut \cup {notice}
          /\ UNCHANGED <<req, conf, due, err, audit, memoryVars, execLock, dropVars, localVars, runs,
                         session, born, restarts, closing, notice, left, current, found, gathered>>
        BY <1>10 DEF AnnouncementRaises, Go, storeVars
    <2>3. pc' \in [Proc -> Label]
        BY <2>1, <2>2, LabelType
    <2>4. IsLock(confLock', Proc)
        BY <2>1, <2>2, LeaveType
    <2>5. forgotten' \in SUBSET Requests
        <3>1. At(Drop(notice), "fail_cancel") => target[Drop(notice)] \in Requests
            BY <2>1, WorksFor DEF At
        <3> QED
            BY <1>10, <3>1 DEF AnnouncementRaises
    <2>6. Aimed'
        BY <2>1, <2>2
    <2> QED
        BY <2>1, <2>2, <2>3, <2>4, <2>5, <2>6
<1> QED
    BY <1>1, <1>2, <1>3, <1>4, <1>5, <1>6, <1>7, <1>8, <1>9, <1>10, Zenon DEF CloseStep

\* They call no handler, make no supervisor and decide nothing.
LEMMA CloseIsQuiet ==
    ASSUME Secure, CloseStep \/ \E x \in Drops : Close(x)
    PROVE  Quiet /\ Tame
<1> USE ProcType, ProcDistinct, SuccessOnly
        DEF Secure, Grounded, TypeOK, At, Go, memoryVars, localVars, historyVars, storeVars, vars,
            Quiet, Tame, Claims, Accepted, Waits, Decides
<1>1. CASE \E x \in Drops : Close(x)
    <2> PICK x \in Drops : Close(x)
        BY <1>1
    <2>1. pc' = [pc EXCEPT ![Drop(x)] = "conf_wait"]
        BY DEF Close
    <2>2. UNCHANGED <<req, args, runs, born, restarts, target, seen, flag>>
        BY DEF Close
    <2>3. ASSUME NEW q \in Requests PROVE pc'[Sup(q)] = pc[Sup(q)] /\ pc'[Req(q)] = pc[Req(q)]
        BY <2>1
    <2>4. ASSUME NEW d \in Deciders PROVE pc'[Dec(d)] = pc[Dec(d)]
        BY <2>1
    <2> QED
        BY <2>2, <2>3, <2>4
<1>2. CASE \E r \in Requests : SettleNext(r)
    BY <1>2 DEF SettleNext
<1>3. CASE \E r \in Requests : StopNext(r)
    BY <1>3 DEF StopNext
<1>4. CASE SettleForget \/ SettleAnswer \/ StopTask
    BY <1>4 DEF SettleForget, SettleAnswer, StopTask, Forget
<1>5. CASE \/ Announced \/ Swept \/ Closed \/ AnswerRaises
           \/ \E r \in Requests : SettleRaises(r) \/ StopRaises(r)
    BY <1>5 DEF Announced, Swept, Closed, AnswerRaises, SettleRaises, StopRaises
<1>6. CASE AnnouncementRaises
    <2>1. pc' = [pc EXCEPT ![Drop(notice)] = "done"]
        BY <1>6 DEF AnnouncementRaises
    <2>2. UNCHANGED <<req, args, runs, born, restarts, target, seen, flag>>
        BY <1>6 DEF AnnouncementRaises
    <2>3. ASSUME NEW q \in Requests PROVE pc'[Sup(q)] = pc[Sup(q)] /\ pc'[Req(q)] = pc[Req(q)]
        BY <2>1
    <2>4. ASSUME NEW d \in Deciders PROVE pc'[Dec(d)] = pc[Dec(d)]
        BY <2>1
    <2> QED
        BY <2>2, <2>3, <2>4
<1> QED
    BY <1>1, <1>2, <1>3, <1>4, <1>5, <1>6, Zenon DEF CloseStep

\* Nothing the service or its closing task does breaks the invariant.
LEMMA SecureStep == Secure /\ [ShutdownNext]_shutdownVars => Secure'
<1> SUFFICES ASSUME Secure, [ShutdownNext]_shutdownVars PROVE Secure'
    OBVIOUS
<1>1. CASE Serve \/ UNCHANGED shutdownVars
    <2>1. [Next]_vars /\ UNCHANGED closeVars
        BY <1>1 DEF Serve, shutdownVars
    <2>2. CloseTypeOK'
        BY <2>1 DEF Secure, CloseTypeOK, closeVars
    <2> QED
        BY <2>1, <2>2, GroundedStep, OnceStep, LawfulStep DEF Secure
<1>2. CASE CloseStep \/ \E x \in Drops : Close(x)
    <2>1. [StoreNext]_storeVars
        BY <1>2, CloseStore
    <2>2. StoreTypeOK' /\ RowsAgree'
        BY <2>1, StoreTypeStep, RowsStep DEF Secure, Grounded, TypeOK
    <2>3. Grounded' /\ CloseTypeOK'
        BY <1>2, <2>2, CloseTypes, CloseStepTypes DEF Grounded
    <2>4. \A q \in Requests : Stands(q) /\ Kept(q)
        BY <2>1, StandStep, AuditKept DEF Secure, Grounded, TypeOK
    <2>5. Once' /\ Lawful'
        BY <1>2, <2>4, CloseIsQuiet, QuietStep, TameStep DEF Secure
    <2> QED
        BY <2>3, <2>5 DEF Secure
<1> QED
    BY <1>1, <1>2 DEF ShutdownNext

\* It holds in every state of a service that is closed.
LEMMA AlwaysSecure == ShutdownSpec => []Secure
BY SecureInit, SecureStep, PTL DEF ShutdownSpec

-----------------------------------------------------------------------------
(* Theorems                                                                *)

\* The closing task, too, is a client of the tables that ToolStore describes ...
THEOREM ShutdownUsesStore == ShutdownSpec => StoreSpec
<1>1. ShutdownInit => StoreInit
    BY DEF ShutdownInit, Init
<1>2. Secure /\ [ShutdownNext]_shutdownVars => [StoreNext]_storeVars
    BY CloseStore, StoreRefined
    DEF Secure, ShutdownNext, Serve, shutdownVars, vars
<1> QED
    BY <1>1, <1>2, AlwaysSecure, PTL DEF ShutdownSpec, StoreSpec

\* ... so its cancellations leave rows and audit trail in agreement.
THEOREM TablesAtShutdown == ShutdownSpec => []TablesAgree
BY ShutdownUsesStore, TablesAlwaysAgree, PTL

\* However aclose() cuts into requests, decisions and supervisors, a handler is
\* called at most once, and only after the audit trail has its start.
THEOREM RunsAtShutdown == ShutdownSpec => [](RunsAtMostOnce /\ RunsAreAudited)
<1>1. Secure => RunsAtMostOnce /\ RunsAreAudited
    BY RunIsRecorded DEF Secure, Once, OneRun, RunsAtMostOnce
<1> QED
    BY <1>1, AlwaysSecure, PTL
-----------------------------------------------------------------------------
(* What the closing task does to the rest of the invariant.                *)

\* What it settles was tracked, or awaited, so its request() has kept or failed
\* it; what it tells is what it read, and what it stops has ended.
Settling ==
    /\ closing \in {"settling", "answering"} =>
         /\ \A r \in Confirmed : r \in left \/ (current # "none" /\ r = current) => ~Early(r)
         /\ current # "none" /\ current \in Confirmed => req[current] # "pending_confirmation"
         /\ current # "none" /\ found \in Settled => Fits(found, current)
    /\ closing = "answering" => current # "none"
    /\ closing = "stopping" /\ current # "none" => req[current] \in Settled
    /\ closing \notin {"settling", "answering", "stopping"} => current = "none"

\* All of the closing task's steps: it queues or ends one disconnect at most, and takes.
Takes ==
    /\ UNCHANGED <<seen, target, flag, gen, generation, born, restarts, todo, online, runs,
                   session, awaitedBy>>
    /\ args' \subseteq args /\ tracked' \subseteq tracked
    /\ \A k \in Proc : pc'[k] = pc[k] \/ (k[1] = "drop" /\ pc'[k] \in {"conf_wait", "done"})
    /\ \A q \in Requests : req'[q] \in Active => req'[q] = req[q]

\* They are of that kind.
LEMMA CloseTakes ==
    ASSUME Grounded, CloseTypeOK, CloseStep \/ \E x \in Drops : Close(x)
    PROVE  Takes
<1> USE ProcType, ProcParts
        DEF Takes, Grounded, TypeOK, At, Go, memoryVars, localVars, historyVars, dropVars,
            storeVars, vars
<1>1. CASE \E x \in Drops : Close(x)
    BY <1>1 DEF Close
<1>2. CASE \E r \in Requests : SettleNext(r) \/ StopNext(r)
    <2> PICK r \in Requests : SettleNext(r) \/ StopNext(r)
        BY <1>2
    <2>1. CancelRequest(r) \/ req' = req
        BY DEF SettleNext, StopNext
    <2>2. \A q \in Requests : req'[q] \in Active => req'[q] = req[q]
        BY <2>1 DEF CancelRequest, StoreTypeOK, Active
    <2> QED
        BY <2>2 DEF SettleNext, StopNext
<1>3. CASE SettleForget \/ SettleAnswer \/ StopTask
    BY <1>3 DEF SettleForget, SettleAnswer, StopTask, Forget
<1>4. CASE \/ Announced \/ Swept \/ Closed \/ AnswerRaises
           \/ \E r \in Requests : SettleRaises(r) \/ StopRaises(r)
    BY <1>4 DEF Announced, Swept, Closed, AnswerRaises, SettleRaises, StopRaises
<1>5. CASE AnnouncementRaises
    <2>1. pc' = [pc EXCEPT ![Drop(notice)] = "done"] /\ Drop(notice)[1] = "drop"
        BY <1>5 DEF AnnouncementRaises, Drop
    <2>2. \A k \in Proc : pc'[k] = pc[k] \/ (k[1] = "drop" /\ pc'[k] = "done")
        BY <2>1
    <2> QED
        BY <1>5, <2>2 DEF AnnouncementRaises
<1> QED
    BY <1>1, <1>2, <1>3, <1>4, <1>5, Zenon DEF CloseStep

\* What it tells a waiter fits.
LEMMA CloseTruth ==
    ASSUME Grounded, Truth, CloseTypeOK, Settling, (\A q \in Requests : Stands(q)),
           CloseStep \/ \E x \in Drops : Close(x)
    PROVE  Truth'
<1>1. Takes
    BY CloseTakes
<1>2. CASE SettleAnswer
    <2>1. current \in Requests /\ (found \in Settled => Fits(found, current)) /\ req' = req
        BY <1>2 DEF SettleAnswer, Settling, CloseTypeOK, storeVars
    <2>2. \A q \in Requests : Tells(q)
        BY <1>2, <2>1, ResolveTells DEF SettleAnswer
    <2>3. \A k \in Proc : Sees(k)
        BY <1>1 DEF Takes, Sees
    <2> QED
        BY <2>2, <2>3, TruthKept
<1>3. CASE ~SettleAnswer
    <2>1. told' = told
        BY <1>3
        DEF CloseStep, Close, Announced, AnnouncementRaises, SettleNext, SettleForget, SettleRaises,
            AnswerRaises, Swept, StopNext, StopTask, StopRaises, Closed, vars, localVars
    <2> QED
        BY <1>1, <2>1, SilentStep DEF Takes
<1> QED
    BY <1>2, <1>3

\* No running row slips from the hands it is in.
LEMMA CloseHand ==
    ASSUME Grounded, InHand, CloseTypeOK, Settling, TypeOK', (\A q \in Requests : GoesOn(q)),
           CloseStep \/ \E x \in Drops : Close(x)
    PROVE  InHand'
<1>1. Takes
    BY CloseTakes
<1>2. \A r \in stopping' : r \in stopping \/ Ended(r)
    <2>1. CASE StopTask
        BY <2>1 DEF StopTask, CancelTask, Settling, Ended
    <2>2. CASE ~StopTask
        BY <2>2
        DEF CloseStep, Close, Announced, AnnouncementRaises, SettleNext, SettleForget, SettleRaises,
            SettleAnswer, AnswerRaises, Swept, StopNext, StopRaises, Closed, vars, memoryVars
    <2> QED
        BY <2>1, <2>2
<1>3. Orderly
    BY <1>1, <1>2 DEF Takes, Orderly, InHand
<1>4. ASSUME NEW r \in Requests PROVE Handed(r)
    <2>1. pc'[Req(r)] = pc[Req(r)] /\ pc'[Sup(r)] = pc[Sup(r)]
        BY <1>1, ProcType, ProcParts DEF Takes
    <2>2. ASSUME NEW d \in Deciders PROVE pc'[Dec(d)] = pc[Dec(d)]
        BY <1>1, ProcType, ProcParts DEF Takes
    <2>3. UNCHANGED <<born, restarts, target, seen>> /\ (req'[r] = "running" => req[r] = "running")
        BY <1>1 DEF Takes, Active
    <2>4. ASSUME NEW d \in Deciders, Carries(d, r)
          PROVE  /\ target'[Dec(d)] = r
                 /\ \/ pc'[Dec(d)] = "claimed" /\ seen'[Dec(d)] = "running"
                    \/ pc'[Dec(d)] \in {"recheck", "rechecked", "start", "started", "no_context",
                                        "fail_cancel"}
        BY <2>2, <2>3, <2>4 DEF Carries, Claims, At
    <2>5. Orphaned(r) => pc'[Req(r)] = "done" /\ pc'[Sup(r)] = "idle"
        BY <2>1 DEF Orphaned
    <2>6. Accepted(r) => pc'[Req(r)] \in {"created", "exec_wait", "reread"}
        BY <2>1 DEF Accepted
    <2> QED
        BY <2>1, <2>3, <2>4, <2>5, <2>6 DEF Handed
<1>5. ASSUME NEW p \in Proc PROVE Undisturbed(p)
    BY <1>1 DEF Takes, Undisturbed, Marks
<1> QED
    BY <1>3, <1>4, <1>5, InHandStill

\* A call that raises in the announcement leaves the line, and a sweep undone.
LEMMA RaisedInTime ==
    ASSUME Grounded, InTime, CloseTypeOK, (\A q \in Requests : GoesOn(q)), AnnouncementRaises
    PROVE  InTime'
<1> USE ProcType, ProcParts, ProcDistinct DEF Grounded, TypeOK, LocalTypeOK
<1>0. Confirmed \subseteq Requests /\ notice \in Drops
    BY ModelAssumption DEF Confirmed, AnnouncementRaises, CloseTypeOK
<1>1. /\ pc' = [pc EXCEPT ![Drop(notice)] = "done"] /\ confLock' = Leave(confLock, Drop(notice))
      /\ cut' = cut \cup {notice}
      /\ forgotten' = IF pc[Drop(notice)] = "fail_cancel" THEN forgotten \cup {target[Drop(notice)]}
                                                         ELSE forgotten
      /\ UNCHANGED <<req, args, tracked, target, flag, born, restarts>>
    BY DEF AnnouncementRaises, Go, At, storeVars, memoryVars, localVars
<1>2. pc'[Drop(notice)] = "done" /\ \A k \in Proc : k # Drop(notice) => pc'[k] = pc[k]
    BY <1>0, <1>1
<1>3. InOrder
    BY <1>0, <1>1, <1>2, OneLeaves DEF InConf
<1>4. ASSUME NEW d \in Deciders PROVE Patient(d)
    BY <1>1, <1>2 DEF Patient, Late
<1>5. ASSUME NEW q \in Confirmed PROVE Tended(q)'
    <2>1. pc'[Req(q)] = pc[Req(q)] /\ pc'[Sup(q)] = pc[Sup(q)]
          /\ \A d \in Deciders : pc'[Dec(d)] = pc[Dec(d)]
        BY <1>0, <1>2
    <2>2. Unheard(q)'
        BY <1>1, <2>1 DEF InTime, Tended, Unheard, Early, Primed
    <2>3. cut' # {}
        BY <1>1
    <2>4. Watched(q)'
        <3>1. Asked(q)' => Asked(q)
            BY <1>1, <2>1 DEF Asked
        <3>2. ASSUME NEW x \in Drops, Failing(x, q) PROVE Failing(x, q)' \/ q \in forgotten'
            BY <1>0, <1>1, <1>2, <3>2 DEF Failing, At
        <3>3. q \in forgotten => q \in forgotten'
            BY <1>1
        <3> QED
            BY <1>1, <2>3, <3>1, <3>2, <3>3 DEF InTime, Tended, Watched
    <2> QED
        BY <2>2, <2>3, <2>4 DEF Tended
<1> QED
    BY <1>3, <1>4, <1>5, InTimeStill

\* It gets in the line as a lost client does, and forgets only what is settled.
LEMMA CloseInTime ==
    ASSUME Grounded, InTime, CloseTypeOK, Settling, (\A q \in Requests : GoesOn(q)),
           CloseStep \/ \E x \in Drops : Close(x)
    PROVE  InTime'
<1>1. CASE \E x \in Drops : Close(x)
    <2> PICK x \in Drops : Close(x)
        BY <1>1
    <2>1. /\ pc[Drop(x)] \in {"idle", "done"} /\ pc' = [pc EXCEPT ![Drop(x)] = "conf_wait"]
          /\ confLock' = Join(confLock, Drop(x))
          /\ UNCHANGED <<req, args, tracked, generation, gen, target, flag, todo, historyVars>>
        BY DEF Close, At, Finished, Go, storeVars, memoryVars, localVars
    <2> QED
        BY <2>1, LossInTime, ProcType DEF Grounded, TypeOK
<1>2. CASE CloseStep /\ ~AnnouncementRaises
    <2>1. Takes
        BY <1>2, CloseTakes
    <2>2. UNCHANGED <<pc, confLock, cut, forgotten>>
        BY <1>2
        DEF CloseStep, Announced, SettleNext, SettleForget, SettleRaises, SettleAnswer, AnswerRaises,
            Swept, StopNext, StopTask, StopRaises, Closed, vars, lockVars, historyVars
    <2>3. InOrder
        BY <2>2 DEF InOrder, Unmoved, InConf, InTime, InLine
    <2>4. \A d \in Deciders : Patient(d)
        BY <2>1, <2>2 DEF Takes, Patient, Late
    <2>5. ASSUME NEW q \in Confirmed PROVE Remains(q)
        <3>1. req'[q] = "pending_confirmation" => req[q] = "pending_confirmation"
            BY <2>1, ModelAssumption DEF Takes, Confirmed, Active
        <3>2. tracked' = tracked \/ (SettleForget /\ tracked' = tracked \ {current} /\ req' = req)
            BY <1>2
            DEF CloseStep, Announced, SettleNext, SettleForget, SettleRaises, SettleAnswer,
                AnswerRaises, Swept, StopNext, StopTask, StopRaises, Closed, vars, memoryVars, Forget,
                storeVars
        <3>3. SettleForget /\ q = current => req[q] # "pending_confirmation"
            BY DEF SettleForget, Settling
        <3> QED
            BY <2>1, <3>1, <3>2, <3>3 DEF Takes, Remains
    <2>6. ASSUME NEW q \in Confirmed PROVE PlainRequest(q)
        BY <2>1, <2>2, <2>5 DEF Takes, PlainRequest, Primed
    <2>7. ASSUME NEW x \in Drops PROVE PlainDrop(x)
        BY <2>1, <2>2 DEF Takes, PlainDrop
    <2> QED
        BY <2>1, <2>2, <2>3, <2>4, <2>6, <2>7, PlainStep DEF Takes, Plain
<1>3. CASE AnnouncementRaises
    BY <1>3, RaisedInTime
<1> QED
    BY <1>1, <1>2, <1>3

-----------------------------------------------------------------------------
(* What a step of the service may do to a request of the model, to its     *)
(* supervisor and to a disconnect, while no process is restarted.          *)

\* Where a request() has nothing left to do but to report.
Reporting == {"fail_mark", "fail_done", "publish", "publishing", "done"}

\* request() goes on as its code does; what it finds of the generation decides
\* whether it fails what it has just created.
Advances(r) ==
    \/ pc'[Req(r)] = pc[Req(r)]
    \/ pc[Req(r)] = "idle" /\ pc'[Req(r)] = "create"
    \/ pc[Req(r)] = "create" /\ pc'[Req(r)] = "created"
    \/ /\ pc[Req(r)] = "created"
       /\ pc'[Req(r)] = "conf_wait" \/ (pc'[Req(r)] = "publish" /\ gen[r] = generation)
    \/ pc[Req(r)] = "conf_wait" /\ pc'[Req(r)] = "fail_cancel" /\ r \notin tracked'
    \/ pc[Req(r)] = "fail_cancel" /\ pc'[Req(r)] = "fail_mark" /\ req'[r] \notin Active
    \/ pc[Req(r)] \in Reporting \ {"done"} /\ pc'[Req(r)] \in Reporting

RequestEffect(r) ==
    /\ Advances(r)
    /\ gen'[r] = gen[r] \/ (pc[Req(r)] = "idle" /\ gen'[r] = generation)
    /\ r \in tracked' => r \in tracked \/ (pc[Req(r)] = "created" /\ pc'[Req(r)] # "created")
    /\ req[r] = "absent" => req'[r] = "absent" \/ (pc[Req(r)] = "create" /\ pc'[Req(r)] = "created")
    /\ Working(Wait(r))' => Working(Wait(r)) \/ Finished(Req(r))

\* A supervisor is made by the decide() that claimed its request, checks what is
\* tracked, and calls the handler of what it has checked.
SupEffect(r) ==
    /\ pc'[Sup(r)] = "checked" => pc[Sup(r)] = "checked" \/ (pc[Sup(r)] = "exec_wait" /\ r \in tracked)
    /\ pc'[Sup(r)] = "handler" => pc[Sup(r)] \in {"checked", "handler"}
    /\ Working(Sup(r))' => Working(Sup(r)) \/ \E d \in Deciders : Claims(d) /\ target[Dec(d)] = r

\* What a decide() carries it has claimed while it was pending.
ClaimEffect(r) ==
    \A d \in Deciders : Carries(d, r)' =>
        Carries(d, r) \/ (/\ pc[Dec(d)] = "exec_wait" /\ target[Dec(d)] = r
                          /\ req[r] = "pending_confirmation")

Concerns(r) == RequestEffect(r) /\ SupEffect(r) /\ ClaimEffect(r)

\* Where a disconnect has swept.
Told == {"publish", "publishing", "done"}

\* A disconnect begins, moves the generation, sweeps and ends, or is aborted by
\* the supervisor that awaits it.
Bumps(x) ==
    /\ pc[Drop(x)] = "conf_wait" /\ pc'[Drop(x)] = "next" /\ Holds(confLock, Drop(x))
    /\ generation' = generation + 1
    /\ todo'[x] = tracked /\ tracked' = tracked
    /\ \A r \in Requests : pc'[Req(r)] = pc[Req(r)] /\ pc'[Sup(r)] = pc[Sup(r)]

DropAdvances(x) ==
    \/ pc'[Drop(x)] = pc[Drop(x)] /\ todo'[x] = todo[x] /\ target'[Drop(x)] = target[Drop(x)]
    \/ Bumps(x)
    \/ /\ pc[Drop(x)] = "next" /\ pc'[Drop(x)] = "fail_cancel"
       /\ \E r \in todo[x] : todo'[x] = todo[x] \ {r} /\ target'[Drop(x)] = r /\ r \notin tracked'
    \/ /\ Sweeping(x) /\ pc'[Drop(x)] \in {"next", "fail_mark", "fail_done"} /\ todo'[x] = todo[x]
    \/ /\ pc[Drop(x)] = "next" /\ todo[x] = {} /\ pc'[Drop(x)] \in Told
    \/ /\ pc[Drop(x)] = "idle" /\ pc'[Drop(x)] = "conf_wait"
    \/ /\ pc[Drop(x)] \in Told \ {"done"} /\ pc'[Drop(x)] \in Told
    \/ /\ awaitedBy[x] # Nobody /\ pc'[Drop(x)] = "done"

DropEffect(x) ==
    /\ DropAdvances(x)
    /\ awaitedBy'[x] = awaitedBy[x] \/ (pc[Drop(x)] = "idle" /\ pc'[Drop(x)] # "idle")

Effects ==
    /\ generation' >= generation /\ forgotten' = forgotten
    /\ \A r \in Requests : born'[r] = born[r] \/ born'[r] = restarts
    /\ \A r \in Confirmed : Concerns(r)
    /\ \A x \in Drops : DropEffect(x)

\* Transactions other than its creation leave a row absent.
LEMMA AbsentOnly ==
    ASSUME StoreTypeOK, RowsAgree, NEW r, NEW q \in Requests, req[q] = "absent"
    PROVE  /\ \/ CancelRequest(r) \/ MarkUnavailable(r) \/ StartExecution(r) \/ Succeed(r)
              \/ PassDeadline(r) \/ ListPendingConfirmations
                => req'[q] = "absent"
           /\ \A e : Fail(r, e) => req'[q] = "absent"
           /\ \A d, late : ClaimDecision(r, d, late) => req'[q] = "absent"
           /\ CreateRequest(r) \/ CreateConfirmation(r) => req'[q] = "absent" \/ r = q
BY DEF CancelRequest, MarkUnavailable, StartExecution, Fail, Succeed, TransitionRequest, RowsAgree,
       ClaimDecision, Verdict, CreateRequest, CreateConfirmation, PassDeadline, Overdue,
       ListPendingConfirmations, StoreTypeOK, storeVars, Active

\* A step of one process, which is no request() of the model and no disconnect.
LEMMA OneEffects ==
    ASSUME Grounded, NEW p \in Proc, p[1] # "drop",
           UNCHANGED <<gen, generation, todo, awaitedBy, born, forgotten>>, tracked' \subseteq tracked,
           \A k \in Proc : k # p => pc'[k] = pc[k] /\ target'[k] = target[k] /\ seen'[k] = seen[k],
           \A q \in Confirmed : req[q] = "absent" => req'[q] = "absent",
           p[1] = "request" /\ p[2] \in Confirmed => Advances(p[2]),
           p[1] = "wait" => Working(p) \/ Finished(Req(p[2])),
           p[1] = "supervise" => Working(p),
           p[1] = "supervise" /\ p[2] \in Confirmed => SupEffect(p[2]),
           p[1] = "decide" => \A q \in Confirmed : Carries(p[2], q)' => Carries(p[2], q)
    PROVE  Effects
<1> USE ProcType, ProcParts, ProcDistinct
<1>0. Confirmed \subseteq Requests
    BY ModelAssumption DEF Confirmed
<1>1. ASSUME NEW q \in Confirmed PROVE RequestEffect(q)
    <2>1. Advances(q)
        BY <1>0 DEF Advances
    <2>2. Working(Wait(q))' => Working(Wait(q)) \/ Finished(Req(q))
        BY <1>0 DEF Working
    <2> QED
        BY <2>1, <2>2 DEF RequestEffect
<1>2. ASSUME NEW q \in Confirmed PROVE SupEffect(q)
    BY <1>0 DEF SupEffect, Working
<1>3. ASSUME NEW q \in Confirmed PROVE ClaimEffect(q)
    BY DEF ClaimEffect, Carries, Claims, At
<1>4. ASSUME NEW x \in Drops PROVE DropEffect(x)
    BY DEF DropEffect, DropAdvances
<1>5. generation' >= generation
    BY DEF Grounded, TypeOK, MemoryTypeOK
<1> QED
    BY <1>1, <1>2, <1>3, <1>4, <1>5 DEF Effects, Concerns

\* A step of one disconnect.
LEMMA OneDropEffects ==
    ASSUME Grounded, NEW x \in Drops,
           UNCHANGED <<gen, born, forgotten>>, tracked' \subseteq tracked, generation' >= generation,
           \A k \in Proc : k # Drop(x) => pc'[k] = pc[k] /\ target'[k] = target[k] /\ seen'[k] = seen[k],
           \A y \in Drops : y # x => todo'[y] = todo[y] /\ awaitedBy'[y] = awaitedBy[y],
           \A q \in Confirmed : req[q] = "absent" => req'[q] = "absent",
           DropEffect(x)
    PROVE  Effects
<1> USE ProcType, ProcParts, ProcDistinct
<1>0. Confirmed \subseteq Requests
    BY ModelAssumption DEF Confirmed
<1>1. ASSUME NEW q \in Confirmed PROVE Concerns(q)
    <2>1. RequestEffect(q)
        BY <1>0 DEF RequestEffect, Advances, Working
    <2>2. SupEffect(q)
        BY <1>0 DEF SupEffect, Working
    <2>3. ClaimEffect(q)
        BY DEF ClaimEffect, Carries, Claims, At
    <2> QED
        BY <2>1, <2>2, <2>3 DEF Concerns
<1>2. ASSUME NEW y \in Drops PROVE DropEffect(y)
    BY DEF DropEffect, DropAdvances
<1> QED
    BY <1>1, <1>2 DEF Effects

-----------------------------------------------------------------------------
\* Steps of wait_for_terminal() have none of these effects.
LEMMA WaitEffects ==
    ASSUME Grounded, NEW r \in Requests, WaitStep(r)
    PROVE  Effects
<1> USE ProcType, ProcParts, ProcDistinct
        DEF Grounded, TypeOK, LocalTypeOK, Aimed, At, AtSup, Go, See, Working, localVars, storeVars,
            memoryVars, lockVars, dropVars, historyVars
<1>0. Confirmed \subseteq Requests
    BY ModelAssumption DEF Confirmed
<1>1. CASE WaitStart(r)
    <2>1. UNCHANGED <<gen, generation, todo, awaitedBy, born, forgotten>> /\ tracked' \subseteq tracked
        BY <1>1 DEF WaitStart
    <2>2. \A k \in Proc : k # Wait(r) =>
             pc'[k] = pc[k] /\ target'[k] = target[k] /\ seen'[k] = seen[k]
        BY <1>1 DEF WaitStart
    <2>3. ASSUME NEW q \in Confirmed, req[q] = "absent" PROVE req'[q] = "absent"
        BY <1>0, <1>1, <2>3 DEF WaitStart
    <2>4. Working(Wait(r)) \/ Finished(Req(r))
        BY <1>1 DEF WaitStart
    <2> QED
        BY <2>1, <2>2, <2>3, <2>4, OneEffects
<1>2. CASE WaitRead(r)
    <2>1. UNCHANGED <<gen, generation, todo, awaitedBy, born, forgotten>> /\ tracked' \subseteq tracked
        BY <1>2 DEF WaitRead
    <2>2. \A k \in Proc : k # Wait(r) =>
             pc'[k] = pc[k] /\ target'[k] = target[k] /\ seen'[k] = seen[k]
        BY <1>2 DEF WaitRead
    <2>3. ASSUME NEW q \in Confirmed, req[q] = "absent" PROVE req'[q] = "absent"
        BY <1>0, <1>2, <2>3 DEF WaitRead
    <2>4. Working(Wait(r)) \/ Finished(Req(r))
        BY <1>2 DEF WaitRead
    <2> QED
        BY <2>1, <2>2, <2>3, <2>4, OneEffects
<1>3. CASE WaitResolved(r)
    <2>1. UNCHANGED <<gen, generation, todo, awaitedBy, born, forgotten>> /\ tracked' \subseteq tracked
        BY <1>3 DEF WaitResolved
    <2>2. \A k \in Proc : k # Wait(r) =>
             pc'[k] = pc[k] /\ target'[k] = target[k] /\ seen'[k] = seen[k]
        BY <1>3 DEF WaitResolved
    <2>3. ASSUME NEW q \in Confirmed, req[q] = "absent" PROVE req'[q] = "absent"
        BY <1>0, <1>3, <2>3 DEF WaitResolved
    <2>4. Working(Wait(r)) \/ Finished(Req(r))
        BY <1>3 DEF WaitResolved
    <2> QED
        BY <2>1, <2>2, <2>3, <2>4, OneEffects
<1>4. CASE WaitExpire(r)
    <2>1. UNCHANGED <<gen, generation, todo, awaitedBy, born, forgotten>> /\ tracked' \subseteq tracked
        BY <1>4 DEF WaitExpire
    <2>2. \A k \in Proc : k # Wait(r) =>
             pc'[k] = pc[k] /\ target'[k] = target[k] /\ seen'[k] = seen[k]
        BY <1>4 DEF WaitExpire
    <2>3. ASSUME NEW q \in Confirmed, req[q] = "absent" PROVE req'[q] = "absent"
        BY <1>0, <1>4, <2>3, AbsentOnly DEF WaitExpire
    <2>4. Working(Wait(r)) \/ Finished(Req(r))
        BY <1>4 DEF WaitExpire
    <2> QED
        BY <2>1, <2>2, <2>3, <2>4, OneEffects
<1>5. CASE WaitExpired(r)
    <2>1. UNCHANGED <<gen, generation, todo, awaitedBy, born, forgotten>> /\ tracked' \subseteq tracked
        BY <1>5 DEF WaitExpired, Forget
    <2>2. \A k \in Proc : k # Wait(r) =>
             pc'[k] = pc[k] /\ target'[k] = target[k] /\ seen'[k] = seen[k]
        BY <1>5 DEF WaitExpired, Forget
    <2>3. ASSUME NEW q \in Confirmed, req[q] = "absent" PROVE req'[q] = "absent"
        BY <1>0, <1>5, <2>3 DEF WaitExpired, Forget
    <2>4. Working(Wait(r)) \/ Finished(Req(r))
        BY <1>5 DEF WaitExpired, Forget
    <2> QED
        BY <2>1, <2>2, <2>3, <2>4, OneEffects
<1>6. CASE WaitTimeout(r)
    <2>1. UNCHANGED <<gen, generation, todo, awaitedBy, born, forgotten>> /\ tracked' \subseteq tracked
        BY <1>6 DEF WaitTimeout
    <2>2. \A k \in Proc : k # Wait(r) =>
             pc'[k] = pc[k] /\ target'[k] = target[k] /\ seen'[k] = seen[k]
        BY <1>6 DEF WaitTimeout
    <2>3. ASSUME NEW q \in Confirmed, req[q] = "absent" PROVE req'[q] = "absent"
        BY <1>0, <1>6, <2>3 DEF WaitTimeout
    <2>4. Working(Wait(r)) \/ Finished(Req(r))
        BY <1>6 DEF WaitTimeout
    <2> QED
        BY <2>1, <2>2, <2>3, <2>4, OneEffects
<1>7. CASE WaitFail(r)
    <2>1. UNCHANGED <<gen, generation, todo, awaitedBy, born, forgotten>> /\ tracked' \subseteq tracked
        BY <1>7 DEF WaitFail
    <2>2. \A k \in Proc : k # Wait(r) =>
             pc'[k] = pc[k] /\ target'[k] = target[k] /\ seen'[k] = seen[k]
        BY <1>7 DEF WaitFail
    <2>3. ASSUME NEW q \in Confirmed, req[q] = "absent" PROVE req'[q] = "absent"
        BY <1>0, <1>7, <2>3, AbsentOnly DEF WaitFail
    <2>4. Working(Wait(r)) \/ Finished(Req(r))
        BY <1>7 DEF WaitFail
    <2> QED
        BY <2>1, <2>2, <2>3, <2>4, OneEffects
<1>8. CASE WaitFailed(r)
    <2>1. UNCHANGED <<gen, generation, todo, awaitedBy, born, forgotten>> /\ tracked' \subseteq tracked
        BY <1>8 DEF WaitFailed
    <2>2. \A k \in Proc : k # Wait(r) =>
             pc'[k] = pc[k] /\ target'[k] = target[k] /\ seen'[k] = seen[k]
        BY <1>8 DEF WaitFailed
    <2>3. ASSUME NEW q \in Confirmed, req[q] = "absent" PROVE req'[q] = "absent"
        BY <1>0, <1>8, <2>3 DEF WaitFailed
    <2>4. Working(Wait(r)) \/ Finished(Req(r))
        BY <1>8 DEF WaitFailed
    <2> QED
        BY <2>1, <2>2, <2>3, <2>4, OneEffects
<1> QED
    BY <1>1, <1>2, <1>3, <1>4, <1>5, <1>6, <1>7, <1>8, Zenon DEF WaitStep

\* Nor have those of cancel().
LEMMA CancelEffects ==
    ASSUME Grounded, NEW c \in Cancellers, CancelStep(c)
    PROVE  Effects
<1> USE ProcType, ProcParts, ProcDistinct
        DEF Grounded, TypeOK, LocalTypeOK, Aimed, At, AtSup, Go, See, Working, localVars, storeVars,
            memoryVars, lockVars, dropVars, historyVars
<1>0. Confirmed \subseteq Requests
    BY ModelAssumption DEF Confirmed
<1>1. CASE CancelCommit(c)
    <2>1. UNCHANGED <<gen, generation, todo, awaitedBy, born, forgotten>> /\ tracked' \subseteq tracked
        BY <1>1 DEF CancelCommit
    <2>2. \A k \in Proc : k # Can(c) =>
             pc'[k] = pc[k] /\ target'[k] = target[k] /\ seen'[k] = seen[k]
        BY <1>1 DEF CancelCommit
    <2>3. ASSUME NEW q \in Confirmed, req[q] = "absent" PROVE req'[q] = "absent"
        <3>1. CancelRequest(target[Can(c)])
            BY <1>1 DEF CancelCommit
        <3>2. StoreTypeOK /\ RowsAgree /\ q \in Requests
            BY <1>0
        <3> QED
            BY <2>3, <3>1, <3>2 DEF CancelRequest, Succeed, TransitionRequest, StoreTypeOK, Active
    <2> QED
        BY <2>1, <2>2, <2>3, OneEffects
<1>2. CASE CancelResume(c)
    <2>1. UNCHANGED <<gen, generation, todo, awaitedBy, born, forgotten>> /\ tracked' \subseteq tracked
        BY <1>2 DEF CancelResume, Forget
    <2>2. \A k \in Proc : k # Can(c) =>
             pc'[k] = pc[k] /\ target'[k] = target[k] /\ seen'[k] = seen[k]
        BY <1>2 DEF CancelResume, Forget
    <2>3. ASSUME NEW q \in Confirmed, req[q] = "absent" PROVE req'[q] = "absent"
        BY <1>0, <1>2, <2>3 DEF CancelResume, Forget
    <2> QED
        BY <2>1, <2>2, <2>3, OneEffects
<1> QED
    BY <1>1, <1>2, Zenon DEF CancelStep

\* A supervisor checks what is tracked, and calls the handler of what it checked.
LEMMA SupEffects ==
    ASSUME Grounded, NEW r \in Requests, SupStep(r), ~SupAborts(r)
    PROVE  Effects
<1> USE ProcType, ProcParts, ProcDistinct
        DEF Grounded, TypeOK, LocalTypeOK, Aimed, At, AtSup, Go, See, Working, localVars, storeVars,
            memoryVars, lockVars, dropVars, historyVars
<1>0. Confirmed \subseteq Requests
    BY ModelAssumption DEF Confirmed
<1>1. CASE SupStart(r)
    <2>1. UNCHANGED <<gen, generation, todo, awaitedBy, born, forgotten>> /\ tracked' \subseteq tracked
        BY <1>1 DEF SupStart, RunHandler
    <2>2. \A k \in Proc : k # Sup(r) =>
             pc'[k] = pc[k] /\ target'[k] = target[k] /\ seen'[k] = seen[k]
        BY <1>1 DEF SupStart, RunHandler
    <2>3. ASSUME NEW q \in Confirmed, req[q] = "absent" PROVE req'[q] = "absent"
        BY <1>0, <1>1, <2>3 DEF SupStart, RunHandler
    <2>4. Working(Sup(r)) /\ (r \in Confirmed => SupEffect(r))
        BY <1>1 DEF SupStart, RunHandler, SupEffect
    <2> QED
        BY <2>1, <2>2, <2>3, <2>4, OneEffects
<1>2. CASE SupLock(r)
    <2>1. UNCHANGED <<gen, generation, todo, awaitedBy, born, forgotten>> /\ tracked' \subseteq tracked
        BY <1>2 DEF SupLock
    <2>2. \A k \in Proc : k # Sup(r) =>
             pc'[k] = pc[k] /\ target'[k] = target[k] /\ seen'[k] = seen[k]
        BY <1>2 DEF SupLock
    <2>3. ASSUME NEW q \in Confirmed, req[q] = "absent" PROVE req'[q] = "absent"
        BY <1>0, <1>2, <2>3 DEF SupLock
    <2>4. Working(Sup(r)) /\ (r \in Confirmed => SupEffect(r))
        BY <1>2 DEF SupLock, SupEffect
    <2> QED
        BY <2>1, <2>2, <2>3, <2>4, OneEffects
<1>3. CASE SupCheck(r)
    <2>1. UNCHANGED <<gen, generation, todo, awaitedBy, born, forgotten>> /\ tracked' \subseteq tracked
        BY <1>3 DEF SupCheck, Forget, LeaveLocks
    <2>2. \A k \in Proc : k # Sup(r) =>
             pc'[k] = pc[k] /\ target'[k] = target[k] /\ seen'[k] = seen[k]
        BY <1>3 DEF SupCheck, Forget, LeaveLocks
    <2>3. ASSUME NEW q \in Confirmed, req[q] = "absent" PROVE req'[q] = "absent"
        BY <1>0, <1>3, <2>3 DEF SupCheck, Forget, LeaveLocks
    <2>4. Working(Sup(r)) /\ (r \in Confirmed => SupEffect(r))
        BY <1>3 DEF SupCheck, Forget, LeaveLocks, SupEffect
    <2> QED
        BY <2>1, <2>2, <2>3, <2>4, OneEffects
<1>4. CASE SupChecked(r)
    <2>1. UNCHANGED <<gen, generation, todo, awaitedBy, born, forgotten>> /\ tracked' \subseteq tracked
        BY <1>4 DEF SupChecked, Forget, RunHandler, LeaveLocks
    <2>2. \A k \in Proc : k # Sup(r) =>
             pc'[k] = pc[k] /\ target'[k] = target[k] /\ seen'[k] = seen[k]
        BY <1>4 DEF SupChecked, Forget, RunHandler, LeaveLocks
    <2>3. ASSUME NEW q \in Confirmed, req[q] = "absent" PROVE req'[q] = "absent"
        BY <1>0, <1>4, <2>3 DEF SupChecked, Forget, RunHandler, LeaveLocks
    <2>4. Working(Sup(r)) /\ (r \in Confirmed => SupEffect(r))
        BY <1>4 DEF SupChecked, Forget, RunHandler, LeaveLocks, SupEffect
    <2> QED
        BY <2>1, <2>2, <2>3, <2>4, OneEffects
<1>5. CASE SupFailed(r)
    <2>1. UNCHANGED <<gen, generation, todo, awaitedBy, born, forgotten>> /\ tracked' \subseteq tracked
        BY <1>5 DEF SupFailed, LeaveLocks
    <2>2. \A k \in Proc : k # Sup(r) =>
             pc'[k] = pc[k] /\ target'[k] = target[k] /\ seen'[k] = seen[k]
        BY <1>5 DEF SupFailed, LeaveLocks
    <2>3. ASSUME NEW q \in Confirmed, req[q] = "absent" PROVE req'[q] = "absent"
        BY <1>0, <1>5, <2>3 DEF SupFailed, LeaveLocks
    <2>4. Working(Sup(r)) /\ (r \in Confirmed => SupEffect(r))
        BY <1>5 DEF SupFailed, LeaveLocks, SupEffect
    <2> QED
        BY <2>1, <2>2, <2>3, <2>4, OneEffects
<1>6. CASE HandlerEnds(r)
    <2>1. UNCHANGED <<gen, generation, todo, awaitedBy, born, forgotten>> /\ tracked' \subseteq tracked
        BY <1>6 DEF HandlerEnds
    <2>2. \A k \in Proc : k # Sup(r) =>
             pc'[k] = pc[k] /\ target'[k] = target[k] /\ seen'[k] = seen[k]
        BY <1>6 DEF HandlerEnds
    <2>3. ASSUME NEW q \in Confirmed, req[q] = "absent" PROVE req'[q] = "absent"
        BY <1>0, <1>6, <2>3 DEF HandlerEnds
    <2>4. Working(Sup(r)) /\ (r \in Confirmed => SupEffect(r))
        BY <1>6 DEF HandlerEnds, SupEffect
    <2> QED
        BY <2>1, <2>2, <2>3, <2>4, OneEffects
<1>7. CASE SupTimeout(r)
    <2>1. UNCHANGED <<gen, generation, todo, awaitedBy, born, forgotten>> /\ tracked' \subseteq tracked
        BY <1>7 DEF SupTimeout, LeaveLocks, Interruptible
    <2>2. \A k \in Proc : k # Sup(r) =>
             pc'[k] = pc[k] /\ target'[k] = target[k] /\ seen'[k] = seen[k]
        BY <1>7 DEF SupTimeout, LeaveLocks, Interruptible
    <2>3. ASSUME NEW q \in Confirmed, req[q] = "absent" PROVE req'[q] = "absent"
        BY <1>0, <1>7, <2>3 DEF SupTimeout, LeaveLocks, Interruptible
    <2>4. Working(Sup(r)) /\ (r \in Confirmed => SupEffect(r))
        BY <1>7 DEF SupTimeout, LeaveLocks, Interruptible, SupEffect
    <2> QED
        BY <2>1, <2>2, <2>3, <2>4, OneEffects
<1>8. CASE CommitSuccess(r)
    <2>1. UNCHANGED <<gen, generation, todo, awaitedBy, born, forgotten>> /\ tracked' \subseteq tracked
        BY <1>8 DEF CommitSuccess
    <2>2. \A k \in Proc : k # Sup(r) =>
             pc'[k] = pc[k] /\ target'[k] = target[k] /\ seen'[k] = seen[k]
        BY <1>8 DEF CommitSuccess
    <2>3. ASSUME NEW q \in Confirmed, req[q] = "absent" PROVE req'[q] = "absent"
        <3>1. Succeed(r)
            BY <1>8 DEF CommitSuccess
        <3>2. StoreTypeOK /\ RowsAgree /\ q \in Requests
            BY <1>0
        <3> QED
            BY <2>3, <3>1, <3>2 DEF CancelRequest, Succeed, TransitionRequest, StoreTypeOK, Active
    <2>4. Working(Sup(r)) /\ (r \in Confirmed => SupEffect(r))
        BY <1>8 DEF CommitSuccess, SupEffect
    <2> QED
        BY <2>1, <2>2, <2>3, <2>4, OneEffects
<1>9. CASE CommitFailure(r)
    <2>1. UNCHANGED <<gen, generation, todo, awaitedBy, born, forgotten>> /\ tracked' \subseteq tracked
        BY <1>9 DEF CommitFailure, FailureCode
    <2>2. \A k \in Proc : k # Sup(r) =>
             pc'[k] = pc[k] /\ target'[k] = target[k] /\ seen'[k] = seen[k]
        BY <1>9 DEF CommitFailure, FailureCode
    <2>3. ASSUME NEW q \in Confirmed, req[q] = "absent" PROVE req'[q] = "absent"
        BY <1>0, <1>9, <2>3, AbsentOnly DEF CommitFailure, FailureCode
    <2>4. Working(Sup(r)) /\ (r \in Confirmed => SupEffect(r))
        BY <1>9 DEF CommitFailure, FailureCode, SupEffect
    <2> QED
        BY <2>1, <2>2, <2>3, <2>4, OneEffects
<1>10. CASE SupSettle(r)
    <2>1. UNCHANGED <<gen, generation, todo, awaitedBy, born, forgotten>> /\ tracked' \subseteq tracked
        BY <1>10 DEF SupSettle
    <2>2. \A k \in Proc : k # Sup(r) =>
             pc'[k] = pc[k] /\ target'[k] = target[k] /\ seen'[k] = seen[k]
        BY <1>10 DEF SupSettle
    <2>3. ASSUME NEW q \in Confirmed, req[q] = "absent" PROVE req'[q] = "absent"
        BY <1>0, <1>10, <2>3 DEF SupSettle
    <2>4. Working(Sup(r)) /\ (r \in Confirmed => SupEffect(r))
        BY <1>10 DEF SupSettle, SupEffect
    <2> QED
        BY <2>1, <2>2, <2>3, <2>4, OneEffects
<1>11. CASE SupReleased(r)
    <2>1. UNCHANGED <<gen, generation, todo, awaitedBy, born, forgotten>> /\ tracked' \subseteq tracked
        BY <1>11 DEF SupReleased
    <2>2. \A k \in Proc : k # Sup(r) =>
             pc'[k] = pc[k] /\ target'[k] = target[k] /\ seen'[k] = seen[k]
        BY <1>11 DEF SupReleased
    <2>3. ASSUME NEW q \in Confirmed, req[q] = "absent" PROVE req'[q] = "absent"
        BY <1>0, <1>11, <2>3 DEF SupReleased
    <2>4. Working(Sup(r)) /\ (r \in Confirmed => SupEffect(r))
        BY <1>11 DEF SupReleased, SupEffect
    <2> QED
        BY <2>1, <2>2, <2>3, <2>4, OneEffects
<1>12. CASE SupCancelled(r)
    <2>1. UNCHANGED <<gen, generation, todo, awaitedBy, born, forgotten>> /\ tracked' \subseteq tracked
        BY <1>12 DEF SupCancelled, LeaveLocks, Interruptible
    <2>2. \A k \in Proc : k # Sup(r) =>
             pc'[k] = pc[k] /\ target'[k] = target[k] /\ seen'[k] = seen[k]
        BY <1>12 DEF SupCancelled, LeaveLocks, Interruptible
    <2>3. ASSUME NEW q \in Confirmed, req[q] = "absent" PROVE req'[q] = "absent"
        BY <1>0, <1>12, <2>3 DEF SupCancelled, LeaveLocks, Interruptible
    <2>4. Working(Sup(r)) /\ (r \in Confirmed => SupEffect(r))
        BY <1>12 DEF SupCancelled, LeaveLocks, Interruptible, SupEffect
    <2> QED
        BY <2>1, <2>2, <2>3, <2>4, OneEffects
<1>13. CASE SupReread(r)
    <2>1. UNCHANGED <<gen, generation, todo, awaitedBy, born, forgotten>> /\ tracked' \subseteq tracked
        BY <1>13 DEF SupReread
    <2>2. \A k \in Proc : k # Sup(r) =>
             pc'[k] = pc[k] /\ target'[k] = target[k] /\ seen'[k] = seen[k]
        BY <1>13 DEF SupReread
    <2>3. ASSUME NEW q \in Confirmed, req[q] = "absent" PROVE req'[q] = "absent"
        BY <1>0, <1>13, <2>3 DEF SupReread
    <2>4. Working(Sup(r)) /\ (r \in Confirmed => SupEffect(r))
        BY <1>13 DEF SupReread, SupEffect
    <2> QED
        BY <2>1, <2>2, <2>3, <2>4, OneEffects
<1> QED
    BY <1>1, <1>2, <1>3, <1>4, <1>5, <1>6, <1>7, <1>8, <1>9, <1>10, <1>11, <1>12, <1>13, Zenon
    DEF SupStep

\* A supervisor cancelled while it publishes ends, with disconnects that somebody awaits.
LEMMA AbortEffects ==
    ASSUME Grounded, NEW r \in Requests, SupAborts(r)
    PROVE  Effects
<1> USE ProcType, ProcParts, ProcDistinct
        DEF Grounded, TypeOK, LocalTypeOK, Aimed, At, AtSup, Go, See, Working, localVars, storeVars,
            memoryVars, lockVars, dropVars, historyVars
<1>0. Confirmed \subseteq Requests
    BY ModelAssumption DEF Confirmed
<1>1. UNCHANGED <<gen, generation, todo, awaitedBy, born, forgotten, tracked, target, seen, req>>
    BY DEF SupAborts
<1>2. pc[Sup(r)] = "publishing" /\ \A k \in Proc :
        /\ pc'[k] \in {pc[k], "done"}
        /\ k # Sup(r) /\ k[1] # "drop" => pc'[k] = pc[k]
    BY AbortEnds, Zenon
<1>3. ASSUME NEW x \in Drops PROVE DropEffect(x)
    <2>1. x \in Awaited(Sup(r)) => awaitedBy[x] # Nobody
        <3> DEFINE S == {y \in Drops : awaitedBy[y] # Nobody}
        <3>1. Sup(r) # Nobody /\ \A z : Drop(z) # Nobody
            BY DEF Sup, Drop, Nobody
        <3>2. S \in SUBSET Drops
            OBVIOUS
        <3>3. ASSUME NEW y \in Drops,
                     \/ awaitedBy[y] = Sup(r)
                     \/ \E z \in S : At(Drop(z), "publishing") /\ awaitedBy[y] = Drop(z)
              PROVE  y \in S
            BY <3>1, <3>3
        <3> HIDE DEF S
        <3>4. x \in Awaited(Sup(r)) => x \in S
            BY <3>2, <3>3 DEF Awaited
        <3> QED
            BY <3>4 DEF S
    <2>2. pc'[Drop(x)] = pc[Drop(x)] \/ (pc'[Drop(x)] = "done" /\ x \in Awaited(Sup(r)))
        BY DEF SupAborts, Drop, Sup
    <2> QED
        BY <1>1, <2>1, <2>2 DEF DropEffect, DropAdvances
<1>4. ASSUME NEW q \in Confirmed PROVE Concerns(q)
    <2>1. pc'[Req(q)] = pc[Req(q)] /\ pc'[Wait(q)] = pc[Wait(q)]
          /\ \A d \in Deciders : pc'[Dec(d)] = pc[Dec(d)]
        BY <1>0, <1>2
    <2>2. pc'[Sup(q)] = pc[Sup(q)] \/ (pc[Sup(q)] = "publishing" /\ pc'[Sup(q)] = "done")
        BY <1>0, <1>2
    <2>3. RequestEffect(q)
        BY <1>1, <2>1 DEF RequestEffect, Advances
    <2>4. SupEffect(q)
        BY <1>1, <2>1, <2>2 DEF SupEffect
    <2>5. ClaimEffect(q)
        BY <1>1, <2>1 DEF ClaimEffect, Carries, Claims
    <2> QED
        BY <2>3, <2>4, <2>5 DEF Concerns
<1> QED
    BY <1>1, <1>3, <1>4 DEF Effects, MemoryTypeOK

\* A decide() claims what is pending, and makes a supervisor of what it claimed.
LEMMA DecideEffects ==
    ASSUME Grounded, NEW d \in Deciders, DecideStep(d)
    PROVE  Effects
<1> USE ProcType, ProcParts, ProcDistinct
        DEF Grounded, TypeOK, LocalTypeOK, Aimed, At, AtSup, Go, See, Working, localVars, storeVars,
            memoryVars, lockVars, dropVars, historyVars
<1>0. Confirmed \subseteq Requests
    BY ModelAssumption DEF Confirmed
<1>1. CASE DecideLock(d)
    <2>1. UNCHANGED <<gen, generation, todo, awaitedBy, born, forgotten>> /\ tracked' \subseteq tracked
        BY <1>1 DEF DecideLock
    <2>2. \A k \in Proc : k # Dec(d) =>
             pc'[k] = pc[k] /\ target'[k] = target[k] /\ seen'[k] = seen[k]
        BY <1>1 DEF DecideLock
    <2>3. ASSUME NEW q \in Confirmed, req[q] = "absent" PROVE req'[q] = "absent"
        BY <1>0, <1>1, <2>3 DEF DecideLock
    <2>4. \A q \in Confirmed : Carries(d, q)' => Carries(d, q)
        BY <1>1 DEF DecideLock, Carries, Claims
    <2> QED
        BY <2>1, <2>2, <2>3, <2>4, OneEffects
<1>2. CASE DecideRefused(d)
    <2>1. UNCHANGED <<gen, generation, todo, awaitedBy, born, forgotten>> /\ tracked' \subseteq tracked
        BY <1>2 DEF DecideRefused, LeaveLocks
    <2>2. \A k \in Proc : k # Dec(d) =>
             pc'[k] = pc[k] /\ target'[k] = target[k] /\ seen'[k] = seen[k]
        BY <1>2 DEF DecideRefused, LeaveLocks
    <2>3. ASSUME NEW q \in Confirmed, req[q] = "absent" PROVE req'[q] = "absent"
        BY <1>0, <1>2, <2>3 DEF DecideRefused, LeaveLocks
    <2>4. \A q \in Confirmed : Carries(d, q)' => Carries(d, q)
        BY <1>2 DEF DecideRefused, LeaveLocks, Carries, Claims
    <2> QED
        BY <2>1, <2>2, <2>3, <2>4, OneEffects
<1>3. CASE DecideApproved(d)
    <2>1. UNCHANGED <<gen, generation, todo, awaitedBy, born, forgotten>> /\ tracked' \subseteq tracked
        BY <1>3 DEF DecideApproved, Forget
    <2>2. \A k \in Proc : k # Dec(d) =>
             pc'[k] = pc[k] /\ target'[k] = target[k] /\ seen'[k] = seen[k]
        BY <1>3 DEF DecideApproved, Forget
    <2>3. ASSUME NEW q \in Confirmed, req[q] = "absent" PROVE req'[q] = "absent"
        BY <1>0, <1>3, <2>3 DEF DecideApproved, Forget
    <2>4. \A q \in Confirmed : Carries(d, q)' => Carries(d, q)
        BY <1>3 DEF DecideApproved, Forget, Carries, Claims
    <2> QED
        BY <2>1, <2>2, <2>3, <2>4, OneEffects
<1>4. CASE DecideReread(d)
    <2>1. UNCHANGED <<gen, generation, todo, awaitedBy, born, forgotten>> /\ tracked' \subseteq tracked
        BY <1>4 DEF DecideReread
    <2>2. \A k \in Proc : k # Dec(d) =>
             pc'[k] = pc[k] /\ target'[k] = target[k] /\ seen'[k] = seen[k]
        BY <1>4 DEF DecideReread
    <2>3. ASSUME NEW q \in Confirmed, req[q] = "absent" PROVE req'[q] = "absent"
        BY <1>0, <1>4, <2>3 DEF DecideReread
    <2>4. \A q \in Confirmed : Carries(d, q)' => Carries(d, q)
        BY <1>4 DEF DecideReread, Carries, Claims
    <2> QED
        BY <2>1, <2>2, <2>3, <2>4, OneEffects
<1>5. CASE DecideRechecked(d)
    <2>1. UNCHANGED <<gen, generation, todo, awaitedBy, born, forgotten>> /\ tracked' \subseteq tracked
        BY <1>5 DEF DecideRechecked, LeaveLocks, Forget
    <2>2. \A k \in Proc : k # Dec(d) =>
             pc'[k] = pc[k] /\ target'[k] = target[k] /\ seen'[k] = seen[k]
        BY <1>5 DEF DecideRechecked, LeaveLocks, Forget
    <2>3. ASSUME NEW q \in Confirmed, req[q] = "absent" PROVE req'[q] = "absent"
        BY <1>0, <1>5, <2>3 DEF DecideRechecked, LeaveLocks, Forget
    <2>4. \A q \in Confirmed : Carries(d, q)' => Carries(d, q)
        BY <1>5 DEF DecideRechecked, LeaveLocks, Forget, Carries, Claims
    <2> QED
        BY <2>1, <2>2, <2>3, <2>4, OneEffects
<1>6. CASE DecideNoContext(d)
    <2>1. UNCHANGED <<gen, generation, todo, awaitedBy, born, forgotten>> /\ tracked' \subseteq tracked
        BY <1>6 DEF DecideNoContext, LeaveLocks
    <2>2. \A k \in Proc : k # Dec(d) =>
             pc'[k] = pc[k] /\ target'[k] = target[k] /\ seen'[k] = seen[k]
        BY <1>6 DEF DecideNoContext, LeaveLocks
    <2>3. ASSUME NEW q \in Confirmed, req[q] = "absent" PROVE req'[q] = "absent"
        <3>1. Fail(target[Dec(d)], "request_context_unavailable")
            BY <1>6 DEF DecideNoContext, LeaveLocks
        <3>2. StoreTypeOK /\ RowsAgree /\ q \in Requests
            BY <1>0
        <3> QED
            BY <2>3, <3>1, <3>2 DEF Fail, StartExecution, TransitionRequest, StoreTypeOK
    <2>4. \A q \in Confirmed : Carries(d, q)' => Carries(d, q)
        BY <1>6 DEF DecideNoContext, LeaveLocks, Carries, Claims
    <2> QED
        BY <2>1, <2>2, <2>3, <2>4, OneEffects
<1>7. CASE DecideStart(d)
    <2>1. UNCHANGED <<gen, generation, todo, awaitedBy, born, forgotten>> /\ tracked' \subseteq tracked
        BY <1>7 DEF DecideStart
    <2>2. \A k \in Proc : k # Dec(d) =>
             pc'[k] = pc[k] /\ target'[k] = target[k] /\ seen'[k] = seen[k]
        BY <1>7 DEF DecideStart
    <2>3. ASSUME NEW q \in Confirmed, req[q] = "absent" PROVE req'[q] = "absent"
        <3>1. StartExecution(target[Dec(d)])
            BY <1>7 DEF DecideStart
        <3>2. StoreTypeOK /\ RowsAgree /\ q \in Requests
            BY <1>0
        <3> QED
            BY <2>3, <3>1, <3>2 DEF Fail, StartExecution, TransitionRequest, StoreTypeOK
    <2>4. \A q \in Confirmed : Carries(d, q)' => Carries(d, q)
        BY <1>7 DEF DecideStart, Carries, Claims
    <2> QED
        BY <2>1, <2>2, <2>3, <2>4, OneEffects
<1>8. CASE DecideClaim(d)
    <2>1. UNCHANGED <<gen, generation, todo, awaitedBy, born, forgotten, tracked, target>>
        BY <1>8 DEF DecideClaim
    <2>2. \A k \in Proc : k # Dec(d) => pc'[k] = pc[k] /\ seen'[k] = seen[k]
        BY <1>8 DEF DecideClaim
    <2>3. ASSUME NEW q \in Confirmed PROVE RequestEffect(q)
        <3>1. req[q] = "absent" => req'[q] = "absent"
            BY <1>0, <1>8 DEF DecideClaim, ClaimDecision, RowsAgree, StoreTypeOK
        <3>2. pc'[Req(q)] = pc[Req(q)] /\ pc'[Wait(q)] = pc[Wait(q)]
            BY <1>0, <2>2
        <3> QED
            BY <2>1, <3>1, <3>2 DEF RequestEffect, Advances
    <2>4. ASSUME NEW q \in Confirmed PROVE SupEffect(q)
        BY <1>0, <2>1, <2>2 DEF SupEffect
    <2>5. ASSUME NEW q \in Confirmed, Carries(d, q)' PROVE pc[Dec(d)] = "exec_wait" /\ target[Dec(d)] = q
                                                           /\ req[q] = "pending_confirmation"
        <3>1. pc[Dec(d)] = "exec_wait" /\ pc'[Dec(d)] = "claimed"
            BY <1>8 DEF DecideClaim
        <3>2. target[Dec(d)] = q /\ seen'[Dec(d)] = "running"
            BY <2>1, <2>5, <3>1 DEF Carries, Claims
        <3>3. conf[q] = "pending"
            BY <1>8, <3>2 DEF DecideClaim
        <3> QED
            BY <1>0, <3>1, <3>2, <3>3 DEF RowsAgree
    <2>6. ASSUME NEW q \in Confirmed PROVE ClaimEffect(q)
        BY <2>1, <2>2, <2>5 DEF ClaimEffect, Carries, Claims
    <2>7. ASSUME NEW x \in Drops PROVE DropEffect(x)
        BY <2>1, <2>2 DEF DropEffect, DropAdvances
    <2> QED
        BY <2>1, <2>3, <2>4, <2>6, <2>7 DEF Effects, Concerns, MemoryTypeOK
<1>9. CASE DecideStarted(d)
    <2>1. UNCHANGED <<gen, generation, todo, awaitedBy, born, forgotten, target, seen, req>>
          /\ tracked' \subseteq tracked
        BY <1>9 DEF DecideStarted, Forget
    <2>2. pc[Dec(d)] = "started" /\ pc'[Dec(d)] \in {"publish", "fail_cancel"}
          /\ target[Dec(d)] \in Requests
        BY <1>9 DEF DecideStarted
    <2>3. \A k \in Proc : k # Dec(d) => pc'[k] = pc[k] \/ (k = Sup(target[Dec(d)]) /\ pc'[k] = "new")
        BY <1>9, <2>2 DEF DecideStarted
    <2>4. ASSUME NEW q \in Confirmed PROVE RequestEffect(q)
        <3>1. pc'[Req(q)] = pc[Req(q)] /\ pc'[Wait(q)] = pc[Wait(q)]
            BY <1>0, <2>3
        <3> QED
            BY <2>1, <3>1 DEF RequestEffect, Advances
    <2>5. ASSUME NEW q \in Confirmed PROVE SupEffect(q)
        <3>1. pc'[Sup(q)] = pc[Sup(q)] \/ (target[Dec(d)] = q /\ pc'[Sup(q)] = "new")
            BY <1>0, <2>3
        <3> QED
            BY <2>1, <2>2, <3>1 DEF SupEffect, Claims
    <2>6. ASSUME NEW q \in Confirmed PROVE ClaimEffect(q)
        <3>1. \A e \in Deciders : e # d => pc'[Dec(e)] = pc[Dec(e)]
            BY <2>3
        <3>2. Carries(d, q)' => Carries(d, q)
            BY <2>1, <2>2 DEF Carries, Claims
        <3> QED
            BY <2>1, <3>1, <3>2 DEF ClaimEffect, Carries, Claims
    <2>7. ASSUME NEW x \in Drops PROVE DropEffect(x)
        BY <2>1, <2>3 DEF DropEffect, DropAdvances
    <2> QED
        BY <2>1, <2>4, <2>5, <2>6, <2>7 DEF Effects, Concerns, MemoryTypeOK
<1> QED
    BY <1>1, <1>2, <1>3, <1>4, <1>5, <1>6, <1>7, <1>8, <1>9, Zenon DEF DecideStep

-----------------------------------------------------------------------------
\* A request() goes on as its code does.
LEMMA RequestEffects ==
    ASSUME Grounded, Once, NEW r \in Requests, RequestStep(r)
    PROVE  Effects
<1> USE ProcType, ProcParts, ProcDistinct
        DEF Grounded, TypeOK, LocalTypeOK, Aimed, At, AtSup, Go, See, Working, localVars, storeVars,
            memoryVars, lockVars, dropVars, historyVars
<1>0. Confirmed \subseteq Requests
    BY ModelAssumption DEF Confirmed
<1>1. CASE CommitRequest(r)
    <2>1. UNCHANGED <<gen, generation, todo, awaitedBy, forgotten, tracked, target, seen>>
        BY <1>1 DEF CommitRequest
    <2>2. /\ \A k \in Proc : k # Req(r) => pc'[k] = pc[k]
          /\ \/ pc[Req(r)] = "create" /\ pc'[Req(r)] = "created"
             \/ r \notin Confirmed
        BY <1>1, AbandonableAssumption DEF CommitRequest, Once, OneSupervisor, Confirmed
    <2>3. \A q \in Requests : born'[q] = born[q] \/ born'[q] = restarts
        BY <1>1 DEF CommitRequest, HistoryTypeOK
    <2>4. ASSUME NEW q \in Confirmed PROVE RequestEffect(q)
        <3>1. q # r => req'[q] = req[q] /\ pc'[Req(q)] = pc[Req(q)]
            BY <1>0, <1>1 DEF CommitRequest, CreateRequest, CreateConfirmation, StoreTypeOK
        <3>2. pc'[Wait(q)] = pc[Wait(q)]
            BY <1>0, <2>2
        <3> QED
            BY <2>1, <2>2, <3>1, <3>2 DEF RequestEffect, Advances
    <2>5. ASSUME NEW q \in Confirmed PROVE SupEffect(q) /\ ClaimEffect(q)
        BY <1>0, <2>1, <2>2 DEF SupEffect, ClaimEffect, Carries, Claims
    <2>6. ASSUME NEW x \in Drops PROVE DropEffect(x)
        BY <2>1, <2>2 DEF DropEffect, DropAdvances
    <2> QED
        BY <2>1, <2>3, <2>4, <2>5, <2>6 DEF Effects, Concerns, MemoryTypeOK
<1>2. CASE QueueExecution(r)
    <2>1. UNCHANGED <<gen, generation, todo, awaitedBy, born, forgotten>> /\ tracked' \subseteq tracked
        BY <1>2 DEF QueueExecution
    <2>2. \A k \in Proc : k # Req(r) =>
             pc'[k] = pc[k] /\ target'[k] = target[k] /\ seen'[k] = seen[k]
        BY <1>2 DEF QueueExecution
    <2>3. r \notin Confirmed /\ req' = req
        BY <1>2 DEF QueueExecution, Confirmed, Once, OneSupervisor
    <2> QED
        BY <2>1, <2>2, <2>3, OneEffects
<1>3. CASE RereadRequest(r)
    <2>1. UNCHANGED <<gen, generation, todo, awaitedBy, born, forgotten>> /\ tracked' \subseteq tracked
        BY <1>3 DEF RereadRequest
    <2>2. \A k \in Proc : k # Req(r) =>
             pc'[k] = pc[k] /\ target'[k] = target[k] /\ seen'[k] = seen[k]
        BY <1>3 DEF RereadRequest
    <2>3. r \notin Confirmed /\ req' = req
        BY <1>3 DEF RereadRequest, Confirmed, Once, OneSupervisor
    <2> QED
        BY <2>1, <2>2, <2>3, OneEffects
<1>4. CASE ExecuteRequest(r)
    <2>1. UNCHANGED <<gen, generation, todo, awaitedBy, born, forgotten, tracked, target, seen, req>>
        BY <1>4 DEF ExecuteRequest
    <2>2. r \notin Confirmed
        BY <1>4 DEF ExecuteRequest, Confirmed, Once, OneSupervisor
    <2>3. \A k \in Proc : k # Req(r) /\ k # Sup(r) => pc'[k] = pc[k]
        BY <1>4 DEF ExecuteRequest
    <2>4. ASSUME NEW q \in Confirmed PROVE Concerns(q)
        BY <1>0, <2>1, <2>2, <2>3
        DEF Concerns, RequestEffect, Advances, SupEffect, ClaimEffect, Carries, Claims
    <2>5. ASSUME NEW x \in Drops PROVE DropEffect(x)
        BY <2>1, <2>3 DEF DropEffect, DropAdvances
    <2> QED
        BY <2>1, <2>4, <2>5 DEF Effects, MemoryTypeOK
<1>5. CASE TrackConfirmation(r)
    <2>1. UNCHANGED <<gen, generation, todo, awaitedBy, born, forgotten, target, req>>
        BY <1>5 DEF TrackConfirmation
    <2>2. \A k \in Proc : k # Req(r) => pc'[k] = pc[k] /\ seen'[k] = seen[k]
        BY <1>5 DEF TrackConfirmation
    <2>3. /\ pc[Req(r)] = "created" /\ pc'[Req(r)] \in {"conf_wait", "publish"}
          /\ pc'[Req(r)] = "publish" /\ r \in Confirmed => gen[r] = generation
          /\ tracked' \subseteq tracked \cup {r}
        BY <1>5 DEF TrackConfirmation, ClientChanged, Confirmed
    <2>4. ASSUME NEW q \in Confirmed PROVE RequestEffect(q)
        <3>1. pc'[Wait(q)] = pc[Wait(q)] /\ (q # r => pc'[Req(q)] = pc[Req(q)])
            BY <1>0, <2>2
        <3> QED
            BY <2>1, <2>3, <3>1 DEF RequestEffect, Advances
    <2>5. ASSUME NEW q \in Confirmed PROVE SupEffect(q) /\ ClaimEffect(q)
        BY <1>0, <2>1, <2>2 DEF SupEffect, ClaimEffect, Carries, Claims
    <2>6. ASSUME NEW x \in Drops PROVE DropEffect(x)
        BY <2>1, <2>2 DEF DropEffect, DropAdvances
    <2> QED
        BY <2>1, <2>4, <2>5, <2>6 DEF Effects, Concerns, MemoryTypeOK
<1>6. CASE FailNewRequest(r)
    <2>1. UNCHANGED <<gen, generation, todo, awaitedBy, born, forgotten>> /\ tracked' \subseteq tracked
        BY <1>6 DEF FailNewRequest, Forget
    <2>2. \A k \in Proc : k # Req(r) =>
             pc'[k] = pc[k] /\ target'[k] = target[k] /\ seen'[k] = seen[k]
        BY <1>6 DEF FailNewRequest, Forget
    <2>3. req' = req /\ Advances(r)
        BY <1>6 DEF FailNewRequest, Forget, Advances
    <2> QED
        BY <2>1, <2>2, <2>3, OneEffects
<1> QED
    BY <1>1, <1>2, <1>3, <1>4, <1>5, <1>6, Zenon DEF RequestStep

\* A disconnect moves the generation and sweeps.
LEMMA DropEffects ==
    ASSUME Grounded, NEW x \in Drops, DropStep(x)
    PROVE  Effects
<1> USE ProcType, ProcParts, ProcDistinct
        DEF Grounded, TypeOK, LocalTypeOK, Aimed, At, AtSup, Go, See, Working, localVars, storeVars,
            memoryVars, lockVars, dropVars, historyVars
<1>0. Confirmed \subseteq Requests
    BY ModelAssumption DEF Confirmed
<1>1. CASE DropBump(x)
    <2>1. UNCHANGED <<gen, born, forgotten, req, tracked, awaitedBy, target, seen>> /\ generation' >= generation
        BY <1>1 DEF DropBump, MemoryTypeOK
    <2>2. \A k \in Proc : k # Drop(x) => pc'[k] = pc[k]
        BY <1>1 DEF DropBump
    <2>3. \A y \in Drops : y # x => todo'[y] = todo[y]
        BY <1>1 DEF DropBump, DropTypeOK
    <2>4. Bumps(x)
        BY <1>1, <2>2 DEF DropBump, Bumps, DropTypeOK
    <2> QED
        BY <2>1, <2>2, <2>3, <2>4, OneDropEffects DEF DropEffect, DropAdvances
<1>2. CASE \E r \in Requests : DropNext(x, r)
    <2> PICK r \in Requests : DropNext(x, r)
        BY <1>2
    <2>1. UNCHANGED <<gen, born, forgotten, req, generation, awaitedBy, seen>> /\ tracked' \subseteq tracked
        BY DEF DropNext, Forget
    <2>2. \A k \in Proc : k # Drop(x) => pc'[k] = pc[k] /\ target'[k] = target[k]
        BY DEF DropNext
    <2>3. \A y \in Drops : y # x => todo'[y] = todo[y]
        BY DEF DropNext, DropTypeOK
    <2>4. DropAdvances(x)
        BY DEF DropNext, Forget, DropAdvances, DropTypeOK
    <2>5. generation' >= generation
        BY <2>1 DEF MemoryTypeOK
    <2> QED
        BY <2>1, <2>2, <2>3, <2>4, <2>5, OneDropEffects DEF DropEffect
<1>3. CASE DropEnd(x)
    <2>1. UNCHANGED <<gen, born, forgotten, req, generation, awaitedBy, seen, target, todo, tracked>>
        BY <1>3 DEF DropEnd
    <2>2. \A k \in Proc : k # Drop(x) => pc'[k] = pc[k]
        BY <1>3 DEF DropEnd
    <2>3. DropAdvances(x)
        BY <1>3 DEF DropEnd, DropAdvances, Told
    <2>4. generation' >= generation
        BY <2>1 DEF MemoryTypeOK
    <2> QED
        BY <2>1, <2>2, <2>3, <2>4, OneDropEffects DEF DropEffect
<1> QED
    BY <1>1, <1>2, <1>3 DEF DropStep

\* What they all do.
LEMMA SharedEffects ==
    ASSUME Grounded, NEW p \in Proc, SharedStep(p)
    PROVE  Effects
<1> USE ProcType, ProcParts, ProcDistinct
        DEF Grounded, TypeOK, LocalTypeOK, Aimed, At, AtSup, Go, See, Working, localVars, storeVars,
            memoryVars, lockVars, dropVars, historyVars
<1>0. Confirmed \subseteq Requests
    BY ModelAssumption DEF Confirmed
<1>1. CASE FailCancel(p)
    <2>1. UNCHANGED <<gen, generation, todo, awaitedBy, born, forgotten>> /\ tracked' \subseteq tracked
        BY <1>1 DEF FailCancel
    <2>2. \A k \in Proc : k # p => pc'[k] = pc[k] /\ target'[k] = target[k] /\ seen'[k] = seen[k]
        BY <1>1 DEF FailCancel
    <2>3. pc[p] = "fail_cancel" /\ pc'[p] \in {"fail_mark"} /\ target'[p] = target[p]
        BY <1>1 DEF FailCancel
    <2>4. ASSUME NEW q \in Confirmed, req[q] = "absent" PROVE req'[q] = "absent"
        BY <1>0, <1>1, <2>3, <2>4 DEF FailCancel, CancelRequest, StoreTypeOK, Active
    <2>5. ASSUME p[1] = "request", p[2] \in Confirmed PROVE Advances(p[2])
        <3>1. p = Req(p[2]) /\ target[p] = p[2] /\ p[2] \in Requests
            BY <1>0, <2>5 DEF Proc, Req
        <3>2. req'[p[2]] \notin Active
            BY <1>1, <3>1 DEF FailCancel, CancelRequest, StoreTypeOK, Active
        <3> QED
            BY <2>3, <3>1, <3>2 DEF Advances
    <2>6. p[1] = "wait" => Working(p)
        BY <2>3
    <2>7. ASSUME p[1] = "supervise" PROVE Working(p) /\ (p[2] \in Confirmed => SupEffect(p[2]))
        <3>1. p = Sup(p[2])
            BY <2>7 DEF Proc, Sup
        <3> QED
            BY <2>3, <3>1 DEF SupEffect
    <2>8. ASSUME p[1] = "decide" PROVE \A q \in Confirmed : Carries(p[2], q)' => Carries(p[2], q)
        <3>1. p = Dec(p[2])
            BY <2>8 DEF Proc, Dec
        <3> QED
            BY <2>3, <3>1 DEF Carries, Claims
    <2>9. CASE p[1] = "drop"
        <3>1. PICK x \in Drops : p = Drop(x)
            BY <2>9 DEF Proc, Drop
        <3>2. DropAdvances(x)
            BY <2>1, <2>3, <3>1 DEF DropAdvances, Sweeping, Told
        <3>3. generation' >= generation
            BY <2>1 DEF MemoryTypeOK
        <3> QED
            BY <2>1, <2>2, <2>4, <3>1, <3>2, <3>3, OneDropEffects DEF DropEffect
    <2> QED
        BY <2>1, <2>2, <2>4, <2>5, <2>6, <2>7, <2>8, <2>9, OneEffects
<1>2. CASE FailMark(p)
    <2>1. UNCHANGED <<gen, generation, todo, awaitedBy, born, forgotten>> /\ tracked' \subseteq tracked
        BY <1>2 DEF FailMark
    <2>2. \A k \in Proc : k # p => pc'[k] = pc[k] /\ target'[k] = target[k] /\ seen'[k] = seen[k]
        BY <1>2 DEF FailMark
    <2>3. pc[p] = "fail_mark" /\ pc'[p] \in {"fail_done"} /\ target'[p] = target[p]
        BY <1>2 DEF FailMark
    <2>4. ASSUME NEW q \in Confirmed, req[q] = "absent" PROVE req'[q] = "absent"
        BY <1>0, <1>2, <2>3, <2>4 DEF FailMark, MarkUnavailable, TransitionRequest, StoreTypeOK
    <2>5. ASSUME p[1] = "request", p[2] \in Confirmed PROVE Advances(p[2])
        <3>1. p = Req(p[2])
            BY <2>5 DEF Proc, Req
        <3>2. p[1] # "drop"
            BY <2>5
        <3> QED
            BY <2>3, <3>1 DEF Advances, Reporting
    <2>6. p[1] = "wait" => Working(p)
        BY <2>3
    <2>7. ASSUME p[1] = "supervise" PROVE Working(p) /\ (p[2] \in Confirmed => SupEffect(p[2]))
        <3>1. p = Sup(p[2])
            BY <2>7 DEF Proc, Sup
        <3> QED
            BY <2>3, <3>1 DEF SupEffect
    <2>8. ASSUME p[1] = "decide" PROVE \A q \in Confirmed : Carries(p[2], q)' => Carries(p[2], q)
        <3>1. p = Dec(p[2])
            BY <2>8 DEF Proc, Dec
        <3> QED
            BY <2>3, <3>1 DEF Carries, Claims
    <2>9. CASE p[1] = "drop"
        <3>1. PICK x \in Drops : p = Drop(x)
            BY <2>9 DEF Proc, Drop
        <3>2. DropAdvances(x)
            BY <2>1, <2>3, <3>1 DEF DropAdvances, Sweeping, Told
        <3>3. generation' >= generation
            BY <2>1 DEF MemoryTypeOK
        <3> QED
            BY <2>1, <2>2, <2>4, <3>1, <3>2, <3>3, OneDropEffects DEF DropEffect
    <2> QED
        BY <2>1, <2>2, <2>4, <2>5, <2>6, <2>7, <2>8, <2>9, OneEffects
<1>3. CASE FailDone(p)
    <2>1. UNCHANGED <<gen, generation, todo, awaitedBy, born, forgotten>> /\ tracked' \subseteq tracked
        BY <1>3 DEF FailDone, CancelTask, LeaveLocks
    <2>2. \A k \in Proc : k # p => pc'[k] = pc[k] /\ target'[k] = target[k] /\ seen'[k] = seen[k]
        BY <1>3 DEF FailDone, CancelTask, LeaveLocks
    <2>3. pc[p] = "fail_done" /\ pc'[p] \in {"publish", "next"} /\ target'[p] = target[p]
        BY <1>3 DEF FailDone, CancelTask, LeaveLocks
    <2>4. ASSUME NEW q \in Confirmed, req[q] = "absent" PROVE req'[q] = "absent"
        BY <1>0, <1>3, <2>3, <2>4 DEF FailDone, CancelTask, LeaveLocks
    <2>5. ASSUME p[1] = "request", p[2] \in Confirmed PROVE Advances(p[2])
        <3>1. p = Req(p[2])
            BY <2>5 DEF Proc, Req
        <3>2. p[1] # "drop"
            BY <2>5
        <3> QED
            BY <2>3, <3>1, <1>3, <3>2 DEF Advances, Reporting, FailDone
    <2>6. p[1] = "wait" => Working(p)
        BY <2>3
    <2>7. ASSUME p[1] = "supervise" PROVE Working(p) /\ (p[2] \in Confirmed => SupEffect(p[2]))
        <3>1. p = Sup(p[2])
            BY <2>7 DEF Proc, Sup
        <3> QED
            BY <2>3, <3>1 DEF SupEffect
    <2>8. ASSUME p[1] = "decide" PROVE \A q \in Confirmed : Carries(p[2], q)' => Carries(p[2], q)
        <3>1. p = Dec(p[2])
            BY <2>8 DEF Proc, Dec
        <3> QED
            BY <2>3, <3>1 DEF Carries, Claims
    <2>9. CASE p[1] = "drop"
        <3>1. PICK x \in Drops : p = Drop(x)
            BY <2>9 DEF Proc, Drop
        <3>2. DropAdvances(x)
            BY <2>1, <2>3, <3>1, <2>9, <1>3 DEF DropAdvances, Sweeping, Told, FailDone
        <3>3. generation' >= generation
            BY <2>1 DEF MemoryTypeOK
        <3> QED
            BY <2>1, <2>2, <2>4, <3>1, <3>2, <3>3, OneDropEffects DEF DropEffect
    <2> QED
        BY <2>1, <2>2, <2>4, <2>5, <2>6, <2>7, <2>8, <2>9, OneEffects
<1>4. CASE Publish(p)
    <2>1. UNCHANGED <<gen, generation, todo, awaitedBy, born, forgotten>> /\ tracked' \subseteq tracked
        BY <1>4 DEF Publish, MayPublish
    <2>2. \A k \in Proc : k # p => pc'[k] = pc[k] /\ target'[k] = target[k] /\ seen'[k] = seen[k]
        BY <1>4 DEF Publish, MayPublish
    <2>3. pc[p] = "publish" /\ pc'[p] \in {"done"} /\ target'[p] = target[p]
        BY <1>4 DEF Publish, MayPublish
    <2>4. ASSUME NEW q \in Confirmed, req[q] = "absent" PROVE req'[q] = "absent"
        BY <1>0, <1>4, <2>3, <2>4 DEF Publish, MayPublish
    <2>5. ASSUME p[1] = "request", p[2] \in Confirmed PROVE Advances(p[2])
        <3>1. p = Req(p[2])
            BY <2>5 DEF Proc, Req
        <3>2. p[1] # "drop"
            BY <2>5
        <3> QED
            BY <2>3, <3>1 DEF Advances, Reporting
    <2>6. p[1] = "wait" => Working(p)
        BY <2>3
    <2>7. ASSUME p[1] = "supervise" PROVE Working(p) /\ (p[2] \in Confirmed => SupEffect(p[2]))
        <3>1. p = Sup(p[2])
            BY <2>7 DEF Proc, Sup
        <3> QED
            BY <2>3, <3>1 DEF SupEffect
    <2>8. ASSUME p[1] = "decide" PROVE \A q \in Confirmed : Carries(p[2], q)' => Carries(p[2], q)
        <3>1. p = Dec(p[2])
            BY <2>8 DEF Proc, Dec
        <3> QED
            BY <2>3, <3>1 DEF Carries, Claims
    <2>9. CASE p[1] = "drop"
        <3>1. PICK x \in Drops : p = Drop(x)
            BY <2>9 DEF Proc, Drop
        <3>2. DropAdvances(x)
            BY <2>1, <2>3, <3>1 DEF DropAdvances, Sweeping, Told
        <3>3. generation' >= generation
            BY <2>1 DEF MemoryTypeOK
        <3> QED
            BY <2>1, <2>2, <2>4, <3>1, <3>2, <3>3, OneDropEffects DEF DropEffect
    <2> QED
        BY <2>1, <2>2, <2>4, <2>5, <2>6, <2>7, <2>8, <2>9, OneEffects
<1>5. CASE \E x \in Drops : PublishReturns(p, x)
    <2>1. UNCHANGED <<gen, generation, todo, awaitedBy, born, forgotten>> /\ tracked' \subseteq tracked
        BY <1>5 DEF PublishReturns
    <2>2. \A k \in Proc : k # p => pc'[k] = pc[k] /\ target'[k] = target[k] /\ seen'[k] = seen[k]
        BY <1>5 DEF PublishReturns
    <2>3. pc[p] = "publishing" /\ pc'[p] \in {"done"} /\ target'[p] = target[p]
        BY <1>5 DEF PublishReturns
    <2>4. ASSUME NEW q \in Confirmed, req[q] = "absent" PROVE req'[q] = "absent"
        BY <1>0, <1>5, <2>3, <2>4 DEF PublishReturns
    <2>5. ASSUME p[1] = "request", p[2] \in Confirmed PROVE Advances(p[2])
        <3>1. p = Req(p[2])
            BY <2>5 DEF Proc, Req
        <3>2. p[1] # "drop"
            BY <2>5
        <3> QED
            BY <2>3, <3>1 DEF Advances, Reporting
    <2>6. p[1] = "wait" => Working(p)
        BY <2>3
    <2>7. ASSUME p[1] = "supervise" PROVE Working(p) /\ (p[2] \in Confirmed => SupEffect(p[2]))
        <3>1. p = Sup(p[2])
            BY <2>7 DEF Proc, Sup
        <3> QED
            BY <2>3, <3>1 DEF SupEffect
    <2>8. ASSUME p[1] = "decide" PROVE \A q \in Confirmed : Carries(p[2], q)' => Carries(p[2], q)
        <3>1. p = Dec(p[2])
            BY <2>8 DEF Proc, Dec
        <3> QED
            BY <2>3, <3>1 DEF Carries, Claims
    <2>9. CASE p[1] = "drop"
        <3>1. PICK x \in Drops : p = Drop(x)
            BY <2>9 DEF Proc, Drop
        <3>2. DropAdvances(x)
            BY <2>1, <2>3, <3>1 DEF DropAdvances, Sweeping, Told
        <3>3. generation' >= generation
            BY <2>1 DEF MemoryTypeOK
        <3> QED
            BY <2>1, <2>2, <2>4, <3>1, <3>2, <3>3, OneDropEffects DEF DropEffect
    <2> QED
        BY <2>1, <2>2, <2>4, <2>5, <2>6, <2>7, <2>8, <2>9, OneEffects
<1> QED
    BY <1>1, <1>2, <1>3, <1>4, <1>5, Zenon DEF SharedStep

\* Where no process steps there is none of these effects.
LEMMA NoEffects ==
    ASSUME Grounded, UNCHANGED <<gen, generation, todo, awaitedBy, born, forgotten, pc, target, seen, tracked>>,
           \A q \in Confirmed : req[q] = "absent" => req'[q] = "absent"
    PROVE  Effects
<1>1. ASSUME NEW q \in Confirmed PROVE Concerns(q)
    BY DEF Concerns, RequestEffect, Advances, SupEffect, ClaimEffect, Carries, Claims, Working, At
<1>2. ASSUME NEW x \in Drops PROVE DropEffect(x)
    BY DEF DropEffect, DropAdvances
<1> QED
    BY <1>1, <1>2 DEF Effects, Grounded, TypeOK, MemoryTypeOK

\* What callers and clients start, and the clock.
LEMMA EnvironmentEffects ==
    ASSUME Grounded, Environment, restarts' = restarts
    PROVE  Effects
<1> USE ProcType, ProcParts, ProcDistinct
        DEF Grounded, TypeOK, LocalTypeOK, Aimed, At, AtSup, Go, See, Working, localVars, storeVars,
            memoryVars, lockVars, dropVars, historyVars
<1>0. Confirmed \subseteq Requests
    BY ModelAssumption DEF Confirmed
<1>1. CASE \E r \in Requests : Request(r)
    <2> PICK r \in Requests : Request(r)
        BY <1>1
    <2>1. UNCHANGED <<generation, todo, awaitedBy, born, forgotten, tracked, target, seen, req>>
          /\ gen' = [gen EXCEPT ![r] = generation]
        BY DEF Request
    <2>2. pc[Req(r)] = "idle" /\ pc' = [pc EXCEPT ![Req(r)] = "create"]
        BY DEF Request
    <2>3. ASSUME NEW q \in Confirmed PROVE RequestEffect(q)
        BY <1>0, <2>1, <2>2 DEF RequestEffect, Advances
    <2>4. ASSUME NEW q \in Confirmed PROVE SupEffect(q) /\ ClaimEffect(q)
        BY <1>0, <2>1, <2>2 DEF SupEffect, ClaimEffect, Carries, Claims
    <2>5. ASSUME NEW x \in Drops PROVE DropEffect(x)
        <3>1. pc'[Drop(x)] = pc[Drop(x)]
            BY <2>2
        <3> QED
            BY <2>1, <3>1 DEF DropEffect, DropAdvances
    <2> QED
        BY <2>1, <2>3, <2>4, <2>5 DEF Effects, Concerns, MemoryTypeOK
<1>2. CASE \E d \in Deciders, r \in Requests : Decide(d, r)
    <2> PICK d \in Deciders, r \in Requests : Decide(d, r)
        BY <1>2
    <2>1. UNCHANGED <<gen, generation, todo, awaitedBy, born, forgotten>> /\ tracked' \subseteq tracked
        BY DEF Decide
    <2>2. \A k \in Proc : k # Dec(d) =>
             pc'[k] = pc[k] /\ target'[k] = target[k] /\ seen'[k] = seen[k]
        BY DEF Decide
    <2>3. req' = req /\ \A q \in Confirmed : ~Carries(d, q)'
        BY DEF Decide, Carries, Claims
    <2> QED
        BY <2>1, <2>2, <2>3, OneEffects
<1>3. CASE \E c \in Cancellers, r \in Requests : Cancel(c, r)
    <2> PICK c \in Cancellers, r \in Requests : Cancel(c, r)
        BY <1>3
    <2>1. UNCHANGED <<gen, generation, todo, awaitedBy, born, forgotten>> /\ tracked' \subseteq tracked
        BY DEF Cancel
    <2>2. \A k \in Proc : k # Can(c) =>
             pc'[k] = pc[k] /\ target'[k] = target[k] /\ seen'[k] = seen[k]
        BY DEF Cancel
    <2>3. req' = req
        BY DEF Cancel
    <2> QED
        BY <2>1, <2>2, <2>3, OneEffects
<1>4. CASE \E x \in Drops : Disconnect(x)
    <2> PICK x \in Drops : Disconnect(x)
        BY <1>4
    <2>1. UNCHANGED <<gen, generation, todo, awaitedBy, born, forgotten>> /\ tracked' \subseteq tracked
        BY DEF Disconnect
    <2>2. \A k \in Proc : k # Drop(x) =>
             pc'[k] = pc[k] /\ target'[k] = target[k] /\ seen'[k] = seen[k]
        BY DEF Disconnect
    <2>3. req' = req /\ DropAdvances(x)
        BY DEF Disconnect, DropAdvances
    <2>4. generation' >= generation
        BY <2>1 DEF MemoryTypeOK
    <2> QED
        BY <2>1, <2>2, <2>3, <2>4, OneDropEffects DEF DropEffect
<1>5. CASE Reconnect
    BY <1>5, NoEffects DEF Reconnect
<1>6. CASE \E p \in Proc, x \in Drops : PublishToDead(p, x)
    <2> PICK p \in Proc, x \in Drops : PublishToDead(p, x)
        BY <1>6
    <2>1. UNCHANGED <<generation, gen, todo, born, forgotten, tracked, target, seen, req>>
        BY DEF PublishToDead
    <2>2. /\ pc[p] = "publish" /\ pc[Drop(x)] = "idle"
          /\ pc' = [pc EXCEPT ![p] = "publishing", ![Drop(x)] = "conf_wait"]
        BY DEF PublishToDead, MayPublish
    <2>3. \A k \in Proc : k[1] # "drop"
            => pc'[k] = pc[k] \/ (pc[k] = "publish" /\ pc'[k] = "publishing")
        BY <2>2
    <2>4. ASSUME NEW q \in Confirmed PROVE Concerns(q)
        <3>1. RequestEffect(q)
            BY <1>0, <2>1, <2>3 DEF RequestEffect, Advances, Reporting
        <3>2. SupEffect(q)
            BY <1>0, <2>1, <2>3 DEF SupEffect
        <3>3. ClaimEffect(q)
            BY <2>1, <2>3 DEF ClaimEffect, Carries, Claims
        <3> QED
            BY <3>1, <3>2, <3>3 DEF Concerns
    <2>5. ASSUME NEW y \in Drops PROVE DropEffect(y)
        <3>1. pc'[Drop(y)] = pc[Drop(y)] \/ (pc[Drop(y)] = "publish" /\ pc'[Drop(y)] = "publishing")
              \/ (pc[Drop(y)] = "idle" /\ pc'[Drop(y)] = "conf_wait")
            BY <2>2
        <3>2. awaitedBy'[y] = awaitedBy[y] \/ (pc[Drop(y)] = "idle" /\ pc'[Drop(y)] = "conf_wait")
            BY <2>2 DEF PublishToDead, DropTypeOK
        <3> QED
            BY <2>1, <3>1, <3>2 DEF DropEffect, DropAdvances, Told
    <2> QED
        BY <2>1, <2>4, <2>5 DEF Effects, MemoryTypeOK
<1>7. CASE \E r \in Requests : PassTime(r)
    BY <1>7, NoEffects DEF PassTime, PassDeadline
<1>8. CASE List
    <2>1. ASSUME NEW q \in Confirmed, req[q] = "absent" PROVE req'[q] = "absent"
        BY <1>0, <1>8, <2>1 DEF List, ListPendingConfirmations
    <2> QED
        BY <1>8, <2>1, NoEffects DEF List
<1>9. CASE Restart
    BY <1>9 DEF Restart, HistoryTypeOK
<1>10. CASE \E r \in Requests : CallerCancelled(r)
    <2> PICK r \in Requests : CallerCancelled(r)
        BY <1>10
    <2>1. UNCHANGED <<gen, generation, todo, awaitedBy, born, forgotten, tracked, target, seen, req>>
        BY DEF CallerCancelled
    <2>2. Req(r)[1] = "request" /\ Req(r)[2] \notin Confirmed
        BY CancelledCaller DEF Req
    <2>3. \A k \in Proc : k # Req(r) => pc'[k] = pc[k]
        BY CancelledCaller
    <2> QED
        BY <2>1, <2>2, <2>3, OneEffects
<1> QED
    BY <1>1, <1>2, <1>3, <1>4, <1>5, <1>6, <1>7, <1>8, <1>9, <1>10, Zenon DEF Environment

\* Every step of the service while the process lives.
LEMMA StepEffects ==
    ASSUME Grounded, Once, [Next]_vars, restarts' = restarts
    PROVE  Effects
<1>1. CASE Service
    BY <1>1, RequestEffects, WaitEffects, SupEffects, AbortEffects, DecideEffects, CancelEffects,
       DropEffects, SharedEffects, Zenon
    DEF Service
<1>2. CASE Environment
    BY <1>2, EnvironmentEffects
<1>3. CASE UNCHANGED vars
    BY <1>3, NoEffects DEF vars, storeVars, memoryVars, dropVars, localVars, historyVars
<1> QED
    BY <1>1, <1>2, <1>3 DEF Next, Quiescent

-----------------------------------------------------------------------------
(* What aclose() leaves behind.                                            *)

\* While it runs, and once it returned, no request() begins; then its loss of
\* the client has moved the generation, and then it has swept.
Announcing == closing \notin {"no", "failed"}
Moved == Announcing /\ pc[Drop(notice)] \notin {"idle", "conf_wait"}
Over == Moved /\ ~Sweeping(notice)

RequestLabel == {"idle", "create", "created", "conf_wait", "fail_cancel", "fail_mark",
                 "fail_done", "publish", "publishing", "done"}

\* A model's request has its row when it was created, its waiter when its
\* request() has returned, and a generation that was.
Placed(r) ==
    /\ pc[Req(r)] \in RequestLabel
    /\ pc[Req(r)] \in {"idle", "create"} => req[r] = "absent"
    /\ Working(Wait(r)) => Finished(Req(r))
    /\ gen[r] <= generation /\ born[r] = restarts

\* Its request() is there to fail it.
Owned(r) == pc[Req(r)] \in {"created", "conf_wait", "fail_cancel"}

\* Once the generation has moved, what is yet to be tracked fails itself, what
\* was tracked is swept, and nothing else is decided or checked.
Refused(r) ==
    /\ pc[Req(r)] \in {"create", "created"} => gen[r] < generation
    /\ r \in tracked => pc[Req(r)] = "conf_wait" \/ Sweeps(notice, r)
    /\ pc[Sup(r)] # "checked"
    /\ \A d \in Deciders : Carries(d, r) => pc[Req(r)] \in {"created", "conf_wait"} \/ r \in forgotten

\* A later sweep finds only such as fail themselves.
Overtaken(r) ==
    \A x \in Drops : Sweeping(x) /\ (r \in todo[x] \/ Failing(x, r)) => pc[Req(r)] = "conf_wait"

\* A supervisor that began too late to be waited for calls no handler.
Stopped(r) ==
    /\ pc[Sup(r)] = "handler" => r \in gathered
    /\ Supervised(r) /\ req[r] = "running" => Owned(r) \/ r \in gathered \/ r \in forgotten

\* An attempt that raised has left things undone, and is repeated.
Sealed(r) ==
    /\ Placed(r)
    /\ ~failed => /\ Moved => Refused(r)
                  /\ Over => Overtaken(r)
                  /\ closing \in {"stopping", "closed"} => Stopped(r)

\* The loss it announces is nobody else's, and is handled before it settles.
Noticed ==
    /\ closing # "no" => notice \in Drops /\ awaitedBy[notice] = Nobody /\ pc[Drop(notice)] # "idle"
    /\ closing \in {"settling", "answering", "stopping", "closed"} => Finished(Drop(notice))
    /\ closing = "closed" => gathered = {} /\ ~failed
    /\ \A x \in Drops : At(Drop(x), "idle") => awaitedBy[x] = Nobody

\* What else the proof says of the service beside aclose().
Lasting == Secure /\ Unrecorded /\ Truth /\ InHand /\ InTime

\* All it takes to say what aclose() leaves.
CloseInv == Lasting /\ Noticed /\ Settling /\ \A r \in Confirmed : Sealed(r)

\* Two processes that hold or work under the confirmation lock are one.
LEMMA OneInLine ==
    ASSUME InLine, NEW p \in Proc, NEW q \in Proc, InConf(p), InConf(q),
           pc[p] # "conf_wait" \/ Holds(confLock, p), pc[q] # "conf_wait" \/ Holds(confLock, q)
    PROVE  p = q
BY DEF InLine, Holds

\* A decide() that carries a request, or is about to claim one, holds the lock.
LEMMA CarriesInLine ==
    ASSUME NEW d \in Deciders,
           (\E r : Carries(d, r)) \/ pc[Dec(d)] = "exec_wait"
    PROVE  InConf(Dec(d)) /\ pc[Dec(d)] # "conf_wait"
BY ProcParts DEF Carries, Claims, InConf, At

\* So does a disconnect that sweeps.
LEMMA SweepsInLine ==
    ASSUME NEW x \in Drops, Sweeping(x)
    PROVE  InConf(Drop(x)) /\ pc[Drop(x)] # "conf_wait"
BY DEF Sweeping, InConf

\* A step of the service leaves the loss that aclose() announced to be handled ...
LEMMA NoticedServed ==
    ASSUME Grounded, Noticed, Effects, UNCHANGED closeVars
    PROVE  Noticed'
<1>1. ASSUME NEW x \in Drops PROVE
        /\ pc[Drop(x)] # "idle" => pc'[Drop(x)] # "idle" /\ awaitedBy'[x] = awaitedBy[x]
        /\ pc[Drop(x)] = "done" => pc'[Drop(x)] = "done" \/ awaitedBy[x] # Nobody
        /\ pc'[Drop(x)] = "idle" => pc[Drop(x)] = "idle" /\ awaitedBy'[x] = awaitedBy[x]
    BY DEF Effects, DropEffect, DropAdvances, Bumps, Told, Sweeping
<1> QED
    BY <1>1 DEF Noticed, closeVars, Finished, At

\* ... and what it settles to be settled.
LEMMA SettlingServed ==
    ASSUME Grounded, CloseTypeOK, Settling, Effects, UNCHANGED closeVars,
           \A q \in Requests : Stands(q) /\ GoesOn(q)
    PROVE  Settling'
<1>0. Confirmed \subseteq Requests
    BY ModelAssumption DEF Confirmed
<1>1. ASSUME NEW q \in Confirmed, ~Early(q) PROVE ~Early(q)'
    BY <1>1 DEF Effects, Concerns, RequestEffect, Advances, Early, Reporting
<1>2. ASSUME NEW q \in Confirmed, ~Early(q), req[q] # "pending_confirmation"
      PROVE  req'[q] # "pending_confirmation"
    <2>1. CASE req[q] = "absent"
        BY <1>2, <2>1 DEF Effects, Concerns, RequestEffect, Early
    <2>2. CASE Begun(q)
        BY <1>0, <2>2 DEF GoesOn, Settled
    <2> QED
        BY <1>0, <1>2, <2>1, <2>2
        DEF Grounded, TypeOK, StoreTypeOK, RequestState, Active, Begun
<1>3. ASSUME current # "none", found \in Settled, Fits(found, current) PROVE Fits(found, current)'
    BY <1>3, FitKept DEF CloseTypeOK, Fits, Fitted, closeVars
<1>4. ASSUME current # "none", req[current] \in Settled PROVE req'[current] \in Settled
    BY <1>4 DEF CloseTypeOK, GoesOn, Ended
<1> QED
    BY <1>1, <1>2, <1>3, <1>4 DEF Settling, closeVars

\* A step of the service leaves a request where its row and its waiter expect it.
LEMMA PlacedServed ==
    ASSUME Grounded, TypeOK', NEW r \in Confirmed, Placed(r), Effects, restarts' = restarts
    PROVE  Placed(r)'
<1>0. r \in Requests
    BY ModelAssumption DEF Confirmed
<1>1. RequestEffect(r) /\ generation' >= generation /\ (born'[r] = born[r] \/ born'[r] = restarts)
    BY <1>0 DEF Effects, Concerns
<1>2. pc'[Req(r)] \in RequestLabel
    BY <1>1 DEF RequestEffect, Advances, RequestLabel, Reporting, Placed
<1>3. pc'[Req(r)] \in {"idle", "create"} => req'[r] = "absent"
    BY <1>1 DEF RequestEffect, Advances, Placed, Reporting
<1>4. Working(Wait(r))' => Finished(Req(r))'
    BY <1>1 DEF RequestEffect, Advances, Reporting, Finished, Placed
<1>5. gen'[r] <= generation'
    BY <1>0, <1>1 DEF RequestEffect, Placed, Grounded, TypeOK, MemoryTypeOK, LocalTypeOK
<1> QED
    BY <1>1, <1>2, <1>3, <1>4, <1>5 DEF Placed

\* What a service does whose loss was announced: no request() begins, and one
\* that goes on keeps or fails its request.
Refusing == \A r \in Requests : At(Req(r), "idle") => pc'[Req(r)] = "idle"

\* The step that moves the generation refuses all that is tracked, and finds no
\* decide() and no supervisor under the lock.
LEMMA MoveRefuses ==
    ASSUME Grounded, TypeOK', InTime, InTime', Noticed, NEW r \in Confirmed, Placed(r), Effects,
           UNCHANGED closeVars, Announcing, Bumps(notice)
    PROVE  Refused(r)'
<1> USE ProcType, ProcParts, ProcDistinct
<1>0. r \in Requests /\ notice \in Drops
    BY ModelAssumption DEF Confirmed, Noticed, Announcing, Bumps
<1>1. /\ pc[Drop(notice)] = "conf_wait" /\ pc'[Drop(notice)] = "next" /\ Holds(confLock, Drop(notice))
      /\ generation' = generation + 1 /\ todo'[notice] = tracked /\ tracked' = tracked
      /\ pc'[Req(r)] = pc[Req(r)] /\ pc'[Sup(r)] = pc[Sup(r)]
    BY <1>0 DEF Bumps
<1>2. InConf(Drop(notice)) /\ notice' = notice
    BY <1>1 DEF InConf, closeVars
<1>3. pc'[Req(r)] \in {"create", "created"} => gen'[r] < generation'
    BY <1>0, <1>1
    DEF Effects, Concerns, RequestEffect, Placed, Grounded, TypeOK, MemoryTypeOK, LocalTypeOK
<1>4. r \in tracked' => Sweeps(notice, r)'
    BY <1>1, <1>2 DEF Sweeps, Sweeping
<1>5. pc'[Sup(r)] # "checked"
    <2>1. pc[Sup(r)] = "checked" => InConf(Sup(r))
        BY DEF InConf
    <2> QED
        BY <1>0, <1>1, <1>2, <2>1, OneInLine DEF InTime
<1>6. ASSUME NEW d \in Deciders, Carries(d, r)' PROVE FALSE
    <2>1. Carries(d, r) \/ pc[Dec(d)] = "exec_wait"
        BY <1>6 DEF Effects, Concerns, ClaimEffect
    <2> QED
        BY <1>0, <1>1, <1>2, <2>1, OneInLine, CarriesInLine DEF InTime
<1> QED
    BY <1>3, <1>4, <1>5, <1>6 DEF Refused

\* What is refused stays refused.
LEMMA RefusalStands ==
    ASSUME Grounded, TypeOK', InHand, InTime, InTime', Noticed, NEW r \in Confirmed, Placed(r),
           Refused(r), Effects, Refusing, UNCHANGED closeVars, Moved
    PROVE  Refused(r)'
<1> USE ProcType, ProcParts, ProcDistinct
<1>0. r \in Requests /\ notice \in Drops /\ notice' = notice
    BY ModelAssumption DEF Confirmed, Noticed, Moved, Announcing, closeVars
<1>1. RequestEffect(r) /\ SupEffect(r) /\ ClaimEffect(r) /\ DropEffect(notice)
      /\ generation' >= generation
    BY <1>0 DEF Effects, Concerns
<1>2. generation \in Nat /\ generation' \in Nat /\ gen[r] \in Nat /\ gen'[r] \in Nat
    BY <1>0 DEF Grounded, TypeOK, MemoryTypeOK, LocalTypeOK
<1>3. pc[Req(r)] = "idle" => pc'[Req(r)] = "idle"
    BY <1>0 DEF Refusing, At
<1>4. pc'[Req(r)] \in {"create", "created"} => gen'[r] < generation'
    BY <1>1, <1>2, <1>3 DEF RequestEffect, Advances, Refused, Reporting
<1>5. pc[Req(r)] = "created" => pc'[Req(r)] \in {"created", "conf_wait"}
    BY <1>1, <1>2 DEF RequestEffect, Advances, Refused, Reporting
<1>6. pc[Req(r)] = "conf_wait" => pc'[Req(r)] = "conf_wait" \/ (pc'[Req(r)] = "fail_cancel" /\ r \notin tracked')
    BY <1>1 DEF RequestEffect, Advances, Reporting
<1>7. ASSUME r \in tracked' PROVE pc'[Req(r)] = "conf_wait" \/ Sweeps(notice, r)'
    <2>1. CASE r \in tracked /\ pc[Req(r)] = "conf_wait"
        BY <1>6, <1>7, <2>1
    <2>2. CASE Sweeps(notice, r)
        BY <1>0, <1>1, <1>7, <2>2
        DEF Noticed, Moved, Announcing, Sweeps, Sweeping, DropEffect, DropAdvances, Bumps, Told
    <2>3. CASE r \notin tracked
        BY <1>1, <1>5, <1>7, <2>3 DEF RequestEffect
    <2> QED
        BY <2>1, <2>2, <2>3 DEF Refused
<1>8. ASSUME pc[Sup(r)] = "exec_wait" \/ \E d \in Deciders : pc[Dec(d)] = "exec_wait" PROVE ~Sweeps(notice, r)
    <2>1. \/ InConf(Sup(r)) /\ pc[Sup(r)] = "exec_wait"
          \/ \E d \in Deciders : InConf(Dec(d)) /\ pc[Dec(d)] = "exec_wait"
        BY <1>8 DEF InConf
    <2> QED
        BY <1>0, <2>1, OneInLine, SweepsInLine DEF InTime, Sweeps
<1>9. pc'[Sup(r)] # "checked"
    <2> SUFFICES ASSUME pc'[Sup(r)] = "checked" PROVE FALSE
        OBVIOUS
    <2>1. pc[Sup(r)] = "exec_wait" /\ r \in tracked
        BY <1>1 DEF SupEffect, Refused
    <2>2. pc[Req(r)] = "conf_wait"
        BY <1>8, <2>1 DEF Refused
    <2>3. Sup(r) \in DOMAIN confLock /\ confLock[Sup(r)] = {}
        BY <1>0, <2>1 DEF InTime, InLine, InConf
    <2> QED
        BY <1>0, <2>2, <2>3 DEF InTime, InLine, Follows
<1>10. ASSUME NEW d \in Deciders, Carries(d, r)', r \notin forgotten'
       PROVE  pc'[Req(r)] \in {"created", "conf_wait"}
    <2>0. r \notin forgotten
        BY <1>10 DEF Effects
    <2>1. pc[Req(r)] \in {"created", "conf_wait"}
        <3>1. CASE Carries(d, r)
            BY <2>0, <3>1 DEF Refused
        <3>2. CASE pc[Dec(d)] = "exec_wait" /\ req[r] = "pending_confirmation"
            <4>1. InConf(Dec(d)) /\ pc[Dec(d)] = "exec_wait"
                BY <3>2 DEF InConf
            <4>2. pc[Req(r)] # "fail_cancel" /\ \A x \in Drops : ~Failing(x, r)
                BY <1>0, <4>1, OneInLine DEF InTime, InConf, Failing, At
            <4>3. pc[Req(r)] \notin {"fail_mark", "fail_done"}
                <5>1. target[Req(r)] = r
                    BY <1>0 DEF Grounded, Aimed
                <5> QED
                    BY <1>0, <3>2, <5>1 DEF InHand, Knows, Ended, Settled
            <4>4. ~Asked(r)
                <5>1. r \in tracked => pc[Req(r)] = "conf_wait"
                    BY <1>8, <3>2 DEF Refused
                <5> QED
                    BY <2>0, <4>2, <5>1 DEF InTime, Tended, Watched, Asked
            <4> QED
                BY <3>2, <4>2, <4>3, <4>4 DEF Asked, Placed, RequestLabel
        <3> QED
            BY <1>1, <1>10, <3>1, <3>2 DEF ClaimEffect
    <2>2. pc'[Req(r)] # "fail_cancel"
        <3>1. InConf(Dec(d))' /\ pc'[Dec(d)] # "conf_wait"
            BY <1>10 DEF Carries, Claims, InConf, At
        <3>2. Dec(d) \in DOMAIN confLock' /\ confLock'[Dec(d)] = {}
            BY <3>1 DEF InTime, InLine
        <3>3. pc'[Req(r)] = "fail_cancel" => Req(r) \in DOMAIN confLock' /\ confLock'[Req(r)] = {}
            BY <1>0 DEF InTime, InLine, InConf
        <3> QED
            BY <1>0, <3>2, <3>3 DEF InTime, InLine
    <2> QED
        BY <1>5, <1>6, <2>1, <2>2
<1> QED
    BY <1>0, <1>4, <1>7, <1>9, <1>10 DEF Refused

\* A sweep that comes after finds only what fails itself.
LEMMA OvertakingStands ==
    ASSUME Grounded, InTime, InTime', Noticed, Noticed', NEW r \in Confirmed, Refused(r)', Effects,
           UNCHANGED closeVars, Moved, Over => Overtaken(r), Over'
    PROVE  Overtaken(r)'
<1> USE ProcType, ProcParts, ProcDistinct
<1> SUFFICES ASSUME NEW x \in Drops, Sweeping(x)', r \in todo'[x] \/ Failing(x, r)'
             PROVE  pc'[Req(r)] = "conf_wait"
    BY DEF Overtaken
<1>0. r \in Requests /\ notice \in Drops /\ notice' = notice /\ ~Sweeping(notice)'
    BY ModelAssumption DEF Confirmed, Noticed, Moved, Announcing, closeVars, Over
<1>1. DropEffect(x) /\ RequestEffect(r)
    BY DEF Effects, Concerns
<1>2. CASE Bumps(x)
    <2>1. r \in tracked'
        BY <1>2 DEF Bumps, Failing, At
    <2> QED
        BY <1>0, <2>1 DEF Refused, Sweeps
<1>3. CASE ~Bumps(x)
    <2>1. Sweeping(x) /\ (r \in todo[x] \/ Failing(x, r))
        BY <1>1, <1>3 DEF DropEffect, DropAdvances, Sweeping, Failing, At, Told
    <2>2. ~Sweeping(notice)
        BY <1>0, <2>1, OneInLine, SweepsInLine DEF InTime
    <2>3. pc[Req(r)] = "conf_wait"
        BY <2>1, <2>2 DEF Over, Overtaken
    <2>4. pc'[Req(r)] # "fail_cancel"
        <3>1. Drop(x) \in DOMAIN confLock' /\ confLock'[Drop(x)] = {}
            BY DEF InTime, InLine, InConf, Sweeping
        <3>2. pc'[Req(r)] = "fail_cancel" => Req(r) \in DOMAIN confLock' /\ confLock'[Req(r)] = {}
            BY <1>0 DEF InTime, InLine, InConf
        <3> QED
            BY <1>0, <3>1, <3>2 DEF InTime, InLine
    <2> QED
        BY <1>1, <2>3, <2>4 DEF RequestEffect, Advances, Reporting
<1> QED
    BY <1>2, <1>3

\* A supervisor that was not stopped is one of a request that fails itself.
LEMMA StopStands ==
    ASSUME Grounded, Once, Lawful, Unrecorded, NEW r \in Confirmed, Refused(r), Stopped(r), Effects,
           UNCHANGED closeVars, GoesOn(r), TypeOK'
    PROVE  Stopped(r)'
<1>0. r \in Requests
    BY ModelAssumption DEF Confirmed
<1>1. RequestEffect(r) /\ SupEffect(r)
    BY DEF Effects, Concerns
<1>2. pc'[Sup(r)] = "handler" => r \in gathered'
    BY <1>1 DEF SupEffect, Refused, Stopped, closeVars
<1>3. ASSUME Supervised(r)', req'[r] = "running" PROVE Owned(r)' \/ r \in gathered' \/ r \in forgotten'
    <2>0. forgotten' = forgotten
        BY DEF Effects
    <2>1. Owned(r) => Owned(r)'
        <3>1. pc[Req(r)] = "created" => gen[r] # generation
            BY <1>0 DEF Refused, Grounded, TypeOK, MemoryTypeOK, LocalTypeOK
        <3> QED
            BY <1>1, <1>3, <3>1 DEF Owned, RequestEffect, Advances, Reporting, Active
    <2>2. CASE Supervised(r)
        <3>1. Begun(r)
            BY <1>0, <2>2, SupBegun DEF Supervised, Working
        <3>2. req[r] = "running"
            BY <1>3, <3>1 DEF GoesOn, Begun, Ended, Settled
        <3> QED
            BY <2>0, <2>1, <2>2, <3>2 DEF Stopped, closeVars
    <2>3. CASE \E d \in Deciders : Claims(d) /\ target[Dec(d)] = r
        BY <2>0, <2>1, <2>3 DEF Refused, Carries, Owned
    <2> QED
        BY <1>1, <1>3, <2>2, <2>3 DEF SupEffect, Supervised
<1> QED
    BY <1>2, <1>3 DEF Stopped

\* No step of the service breaks what aclose() leaves behind.
LEMMA SealedServed ==
    ASSUME Lasting, Lasting', Noticed, Noticed', NEW r \in Confirmed, Sealed(r), Effects,
           UNCHANGED closeVars, restarts' = restarts, Announcing => Refusing,
           \A q \in Requests : GoesOn(q)
    PROVE  Sealed(r)'
<1> USE DEF Lasting, Secure, Grounded
<1>0. r \in Requests /\ UNCHANGED closeVars /\ restarts' = restarts /\ (Announcing' <=> Announcing)
      /\ failed' = failed
    BY ModelAssumption DEF Confirmed, closeVars, Announcing
<1>1. Placed(r)'
    BY <1>0, PlacedServed DEF Sealed
<1>2. ASSUME Moved', ~Moved PROVE Bumps(notice) /\ Announcing
    BY <1>0, <1>2
    DEF Moved, Announcing, Noticed, Effects, DropEffect, DropAdvances, closeVars, Told, Sweeping
<1>3. ASSUME ~failed, Moved' PROVE Refused(r)'
    BY <1>0, <1>2, <1>3, MoveRefuses, RefusalStands DEF Sealed, Moved
<1>4. ASSUME ~failed, Over' PROVE Overtaken(r)'
    <2>1. Over' => Moved
        BY <1>0, <1>2 DEF Over, Bumps, Sweeping, closeVars
    <2>2. Refused(r)'
        BY <1>3, <1>4 DEF Over
    <2> QED
        BY <1>0, <1>4, <2>1, <2>2, OvertakingStands DEF Sealed, Over
<1>5. ASSUME ~failed, closing' \in {"stopping", "closed"} PROVE Stopped(r)'
    <2>1. closing \in {"stopping", "closed"} => Moved
        BY DEF Noticed, Moved, Announcing, Finished
    <2> QED
        BY <1>0, <1>5, <2>1, StopStands DEF Sealed, closeVars
<1> QED
    BY <1>0, <1>1, <1>3, <1>4, <1>5 DEF Sealed

-----------------------------------------------------------------------------
(* What the closing task does to what it leaves behind.                    *)

\* It begins with a loss that nobody else waits for.
LEMMA CloseBegins ==
    ASSUME Lasting, Noticed, Settling, \A r \in Confirmed : Sealed(r), NEW x \in Drops, Close(x)
    PROVE  Noticed' /\ Settling' /\ \A r \in Confirmed : Sealed(r)'
<1> USE ProcType, ProcParts, ProcDistinct
        DEF Lasting, Secure, Grounded, TypeOK, At, Go, memoryVars, localVars, historyVars, storeVars
<1>1. /\ closing \in {"no", "failed"} /\ closing' = "announcing" /\ notice' = x
      /\ pc' = [pc EXCEPT ![Drop(x)] = "conf_wait"] /\ pc'[Drop(x)] = "conf_wait"
      /\ UNCHANGED <<req, gen, generation, born, restarts, awaitedBy, current>>
    BY DEF Close, Admits
<1>2. awaitedBy[x] = Nobody
    BY <1>1 DEF Close, Noticed
<1>3. Noticed'
    BY <1>1, <1>2 DEF Noticed
<1>4. Settling'
    BY <1>1 DEF Settling
<1>5. ASSUME NEW r \in Confirmed PROVE Sealed(r)'
    <2>0. r \in Requests
        BY ModelAssumption DEF Confirmed
    <2>1. Placed(r)'
        BY <1>1, <2>0 DEF Sealed, Placed, Working, Finished
    <2> QED
        BY <1>1, <2>1 DEF Sealed, Over, Moved
<1> QED
    BY <1>3, <1>4, <1>5

\* It settles only once its loss is handled, and gathers whoever is left.
LEMMA CloseNoticed ==
    ASSUME Lasting, Noticed, CloseStep
    PROVE  Noticed'
<1> USE DEF Noticed, Finished, At, vars, dropVars
<1>1. CASE \E r \in Requests : SettleNext(r) \/ SettleRaises(r) \/ StopNext(r) \/ StopRaises(r)
    BY <1>1 DEF SettleNext, SettleRaises, StopNext, StopRaises
<1>2. CASE Announced \/ SettleForget \/ SettleAnswer \/ AnswerRaises \/ Swept \/ StopTask \/ Closed
    <2>1. UNCHANGED <<pc, awaitedBy, notice>>
        BY <1>2
        DEF Announced, SettleForget, SettleAnswer, AnswerRaises, Swept, StopTask, Closed
    <2> QED
        BY <1>2, <2>1 DEF Announced, SettleForget, SettleAnswer, AnswerRaises, Swept, StopTask, Closed, Forget
<1>3. CASE AnnouncementRaises
    <2>1. closing = "announcing" /\ pc' = [pc EXCEPT ![Drop(notice)] = "done"]
          /\ UNCHANGED <<closing, notice, awaitedBy>>
        BY <1>3 DEF AnnouncementRaises, Go
    <2>2. notice \in Drops
        BY <2>1
    <2>3. ASSUME NEW x \in Drops PROVE x # notice => pc'[Drop(x)] = pc[Drop(x)]
        BY <2>1, <2>2, ProcType, ProcParts DEF Lasting, Secure, Grounded, TypeOK, LocalTypeOK
    <2>4. pc'[Drop(notice)] = "done"
        BY <2>1, <2>2, ProcType DEF Lasting, Secure, Grounded, TypeOK, LocalTypeOK
    <2> QED
        BY <2>1, <2>2, <2>3, <2>4
<1> QED
    BY <1>1, <1>2, <1>3 DEF CloseStep

\* It settles what request() has kept or what request() has returned.
LEMMA CloseSettling ==
    ASSUME Lasting, Settling, \A r \in Confirmed : Sealed(r), CloseStep
    PROVE  Settling'
<1> USE DEF Lasting, Secure, Grounded, TypeOK, CloseTypeOK
<1>0. Confirmed \subseteq Requests
    BY ModelAssumption DEF Confirmed
<1>1. \A r \in Confirmed : Early(r)' <=> Early(r)
    BY <1>0, CloseTakes, ProcType, ProcParts DEF Takes, Early
<1>2. CASE Announced
    <2>1. ASSUME NEW r \in Confirmed, r \in left' PROVE ~Early(r)
        <3>1. r \in args => ~Early(r)
            BY DEF InTime, Tended, Unheard
        <3>2. Working(Wait(r)) => ~Early(r)
            BY DEF Sealed, Placed, Finished, Early
        <3> QED
            BY <1>2, <2>1, <3>1, <3>2 DEF Announced, Outstanding
    <2>2. current = "none" /\ current' = "none" /\ closing' = "settling"
        BY <1>2 DEF Announced, Settling
    <2> QED
        BY <1>1, <2>1, <2>2 DEF Settling
<1>3. CASE \E r \in Requests : SettleNext(r)
    <2> PICK r \in Requests : SettleNext(r)
        BY <1>3
    <2>1. closing = "settling" /\ closing' = "settling" /\ r \in left /\ current' = r /\ left' = left \ {r}
          /\ found' = req'[r]
        BY DEF SettleNext
    <2>2. req'[r] # "pending_confirmation"
        BY DEF SettleNext, CancelRequest, StoreTypeOK, Active, storeVars
    <2> QED
        BY <1>1, <2>1, <2>2 DEF Settling, Fits
<1>4. CASE SettleForget \/ SettleAnswer \/ AnswerRaises \/ \E r \in Requests : SettleRaises(r)
    <2>1. req' = req /\ left' \subseteq left
        BY <1>4 DEF SettleForget, SettleAnswer, AnswerRaises, SettleRaises, vars, storeVars
    <2>2. \/ closing = "settling" /\ closing' = "answering" /\ UNCHANGED <<current, found>> /\ current # "none"
          \/ closing = "answering" /\ closing' = "settling" /\ current' = "none"
          \/ closing = "settling" /\ closing' = "settling" /\ UNCHANGED <<current, found>>
        BY <1>4 DEF SettleForget, SettleAnswer, AnswerRaises, SettleRaises
    <2> QED
        BY <1>1, <2>1, <2>2 DEF Settling, Fits
<1>5. CASE \E r \in Requests : StopNext(r)
    <2> PICK r \in Requests : StopNext(r)
        BY <1>5
    <2>1. closing = "stopping" /\ closing' = "stopping" /\ current = "none"
          /\ (current' = "none" \/ (current' = r /\ Supervised(r) /\ CancelRequest(r)))
        BY DEF StopNext
    <2>2. Supervised(r) => Begun(r)
        BY SupBegun DEF Supervised, Working
    <2>3. Begun(r) /\ CancelRequest(r) => req'[r] \in Settled
        BY DEF Begun, CancelRequest, StoreTypeOK, Active, Settled, storeVars
    <2> QED
        BY <2>1, <2>2, <2>3 DEF Settling
<1>6. CASE AnnouncementRaises \/ Swept \/ StopTask \/ Closed \/ \E r \in Requests : StopRaises(r)
    BY <1>6 DEF AnnouncementRaises, Swept, StopTask, Closed, StopRaises, Settling, vars, storeVars
<1> QED
    BY <1>2, <1>3, <1>4, <1>5, <1>6, Zenon DEF CloseStep

\* When it has stopped what runs, whatever began since fails itself.
LEMMA CloseSealed ==
    ASSUME Lasting, Noticed, NEW r \in Confirmed, Sealed(r), CloseStep
    PROVE  Sealed(r)'
<1> USE DEF Lasting, Secure, Grounded, TypeOK
<1>0. r \in Requests
    BY ModelAssumption DEF Confirmed
<1>1. Takes
    BY CloseTakes
<1>2. pc'[Req(r)] = pc[Req(r)] /\ pc'[Wait(r)] = pc[Wait(r)]
    BY <1>0, <1>1, ProcType, ProcParts DEF Takes
<1>3. Placed(r)'
    <2>1. req[r] = "absent" => req'[r] = "absent"
        <3>1. CASE \E q \in Requests : SettleNext(q) \/ StopNext(q)
            BY <1>0, <3>1 DEF SettleNext, StopNext, CancelRequest, StoreTypeOK, Active, storeVars
        <3>2. CASE ~\E q \in Requests : SettleNext(q) \/ StopNext(q)
            BY <3>2
            DEF CloseStep, Announced, AnnouncementRaises, SettleForget, SettleRaises, SettleAnswer,
                AnswerRaises, Swept, StopTask, StopRaises, Closed, vars, storeVars
        <3> QED
            BY <3>1, <3>2
    <2> QED
        BY <1>1, <1>2, <2>1 DEF Takes, Sealed, Placed, Working, Finished
<1>4. ASSUME ~failed' PROVE (Moved' => Refused(r)') /\ (Over' => Overtaken(r)')
                             /\ (closing' \in {"stopping", "closed"} => Stopped(r)')
    <2>1. UNCHANGED <<pc, notice, forgotten>> /\ (Announcing' => Announcing) /\ ~failed
        BY <1>4
        DEF historyVars, CloseStep, Announced, AnnouncementRaises, SettleNext, SettleForget, SettleRaises,
            SettleAnswer, AnswerRaises, Swept, StopNext, StopTask, StopRaises, Closed, vars, Announcing
    <2>2. Moved' => Moved /\ Refused(r)'
        BY <1>1, <2>1 DEF Takes, Sealed, Moved, Refused, Sweeps, Sweeping, Carries, Claims, At
    <2>3. Over' => Overtaken(r)'
        BY <1>1, <2>1, <2>2 DEF Takes, Sealed, Over, Overtaken, Sweeping, Failing, At
    <2>4. ASSUME closing' \in {"stopping", "closed"} PROVE Stopped(r)'
        <3>1. req'[r] = "running" => req[r] = "running"
            BY <1>0, <1>1 DEF Takes, Active
        <3>2. (Supervised(r)' <=> Supervised(r)) /\ (Owned(r)' <=> Owned(r))
            BY <2>1 DEF Supervised, Working, Owned
        <3>3. CASE Swept
            <4>1. Supervised(r) => r \in gathered'
                BY <1>0, <3>3 DEF Swept, ToStop
            <4> QED
                BY <2>1, <3>2, <4>1 DEF Stopped, Supervised, Working
        <3>4. CASE Closed
            <4>1. r \in gathered => ~Supervised(r)
                BY <3>4 DEF Closed
            <4>2. closing = "stopping"
                BY <3>4 DEF Closed
            <4> QED
                BY <2>1, <3>1, <3>2, <4>1, <4>2 DEF Sealed, Stopped, Supervised, Working
        <3>5. CASE ~Swept /\ ~Closed
            <4>1. gathered' = gathered /\ closing \in {"stopping", "closed"}
                BY <2>4, <3>5
                DEF CloseStep, Announced, AnnouncementRaises, SettleNext, SettleForget, SettleRaises,
                    SettleAnswer, AnswerRaises, StopNext, StopTask, StopRaises, vars
            <4> QED
                BY <2>1, <3>1, <3>2, <4>1 DEF Sealed, Stopped
        <3> QED
            BY <3>3, <3>4, <3>5
    <2> QED
        BY <2>2, <2>3, <2>4
<1> QED
    BY <1>3, <1>4 DEF Sealed

-----------------------------------------------------------------------------
(* The whole of it                                                         *)

\* It holds before anything was called.
LEMMA CloseInvInit == ShutdownInit => CloseInv
<1> SUFFICES ASSUME ShutdownInit PROVE CloseInv
    OBVIOUS
<1> USE ProcType DEF ShutdownInit
<1>1. Lasting
    BY SecureInit, UnrecordedInit, TruthInit, InHandInit, InTimeInit DEF Lasting, Init
<1>2. Noticed /\ Settling
    BY DEF Init, Noticed, Settling
<1>3. ASSUME NEW r \in Confirmed PROVE Sealed(r)
    <2>1. r \in Requests
        BY ModelAssumption DEF Confirmed
    <2> QED
        BY <2>1 DEF Init, StoreInit, Sealed, Placed, RequestLabel, Working, Moved, Over, Announcing
<1> QED
    BY <1>1, <1>2, <1>3 DEF CloseInv

\* Closing keeps what ToolExecution's proofs say of the service.
LEMMA LastingStep == Lasting /\ Settling /\ [ShutdownNext]_shutdownVars => Lasting'
<1> SUFFICES ASSUME Lasting, Settling, [ShutdownNext]_shutdownVars PROVE Lasting'
    OBVIOUS
<1>1. Secure'
    BY SecureStep DEF Lasting
<1>2. CASE Serve \/ UNCHANGED shutdownVars
    <2>1. [Next]_vars
        BY <1>2 DEF Serve, shutdownVars
    <2>2. Firm /\ InTime
        BY DEF Lasting, Secure, Firm
    <2>3. Unrecorded'
        BY <2>1, StoreRefined, UnrecordedStep DEF Lasting, Secure, Grounded, TypeOK
    <2>4. Truth'
        BY <2>1, TruthStep DEF Lasting, Secure
    <2>5. InHand' /\ InTime'
        BY <2>1, <2>2, InHandStep, InTimeStep
    <2> QED
        BY <1>1, <2>3, <2>4, <2>5 DEF Lasting
<1>3. CASE CloseStep \/ \E x \in Drops : Close(x)
    <2>1. [StoreNext]_storeVars
        BY <1>3, CloseStore DEF Lasting
    <2>2. Unrecorded' /\ \A q \in Requests : Stands(q) /\ GoesOn(q)
        BY <2>1, UnrecordedStep, StandStep, RowsGoOn DEF Lasting, Secure, Grounded, TypeOK
    <2>3. Truth'
        BY <1>3, <2>2, CloseTruth DEF Lasting, Secure
    <2>4. InHand'
        BY <1>1, <1>3, <2>2, CloseHand DEF Lasting, Secure, Grounded
    <2>5. InTime'
        BY <1>3, <2>2, CloseInTime DEF Lasting, Secure
    <2> QED
        BY <1>1, <2>2, <2>3, <2>4, <2>5 DEF Lasting
<1> QED
    BY <1>2, <1>3 DEF ShutdownNext

\* Nothing that the service or its closing task does breaks the invariant.
LEMMA CloseInvStep == CloseInv /\ [ShutdownNext]_shutdownVars => CloseInv'
<1> SUFFICES ASSUME Lasting, Noticed, Settling, \A r \in Confirmed : Sealed(r),
                    [ShutdownNext]_shutdownVars
             PROVE  CloseInv'
    BY DEF CloseInv
<1>1. Lasting'
    BY LastingStep
<1>2. CASE Serve \/ UNCHANGED shutdownVars
    <2>1. [Next]_vars /\ UNCHANGED closeVars /\ restarts' = restarts
        BY <1>2 DEF Serve, shutdownVars, vars, historyVars
    <2>2. Announcing => Refusing
        BY <1>2 DEF Announcing, Refusing, Serve, Admits, shutdownVars, vars, At
    <2>3. Effects
        BY <2>1, StepEffects DEF Lasting, Secure
    <2>4. [StoreNext]_storeVars
        BY <2>1, StoreRefined DEF Lasting, Secure
    <2>5. \A q \in Requests : Stands(q) /\ GoesOn(q)
        BY <2>4, StandStep, RowsGoOn DEF Lasting, Secure, Grounded, TypeOK
    <2>6. Noticed'
        BY <2>1, <2>3, NoticedServed DEF Lasting, Secure
    <2>7. Settling'
        BY <2>1, <2>3, <2>5, SettlingServed DEF Lasting, Secure
    <2>8. \A r \in Confirmed : Sealed(r)'
        BY <1>1, <2>1, <2>2, <2>3, <2>5, <2>6, SealedServed
    <2>9. Confirmed' = Confirmed
        BY DEF Confirmed
    <2> QED
        BY <1>1, <2>6, <2>7, <2>8, <2>9 DEF CloseInv
<1>3. CASE \E x \in Drops : Close(x)
    <2>1. Noticed' /\ Settling' /\ \A r \in Confirmed : Sealed(r)'
        BY <1>3, CloseBegins
    <2> QED
        BY <1>1, <2>1 DEF CloseInv, Confirmed
<1>4. CASE CloseStep
    <2>1. \A r \in Confirmed : Sealed(r)'
        BY <1>4, CloseSealed
    <2> QED
        BY <1>1, <1>4, <2>1, CloseNoticed, CloseSettling DEF CloseInv, Confirmed
<1> QED
    BY <1>2, <1>3, <1>4 DEF ShutdownNext

\* It holds in every state of a service that is closed, or is not.
LEMMA AlwaysClosing == ShutdownSpec => []CloseInv
BY CloseInvInit, CloseInvStep, PTL DEF ShutdownSpec

\* Whichever request(), decide(), supervisor and disconnect aclose() overtook,
\* and whichever of its own calls of the repository raised before it was tried
\* again: once it has returned, no handler of a model's request is being called,
\* and what still waits or runs is one whose request() is about to fail it, or
\* one that an attempt that raised had forgotten before it failed it.
THEOREM ClosedTheorem == ShutdownSpec => []ClosedForGood
<1>1. CloseInv => ClosedForGood
    <2> SUFFICES ASSUME CloseInv, closing = "closed", NEW r \in Confirmed
                 PROVE  /\ req[r] \in Active => Working(Req(r)) \/ r \in forgotten
                        /\ pc[Sup(r)] # "handler"
        BY DEF ClosedForGood
    <2>0. r \in Requests /\ r \in HighRisk
        BY ModelAssumption DEF Confirmed
    <2>1. gathered = {} /\ pc[Drop(notice)] = "done" /\ ~failed
        BY DEF CloseInv, Noticed, Finished
    <2>2. Placed(r) /\ Refused(r) /\ Overtaken(r) /\ Stopped(r)
        BY <2>1 DEF CloseInv, Sealed, Moved, Over, Announcing, Sweeping
    <2>3. ASSUME req[r] = "running", r \notin forgotten PROVE Working(Req(r))
        <3>1. pc[Sup(r)] \in Attending \/ \E d \in Deciders : Carries(d, r)
            BY <2>0, <2>2, <2>3, AbandonableAssumption
            DEF CloseInv, Lasting, InHand, Attended, Orphaned, Placed
        <3>2. pc[Sup(r)] \in Attending => Owned(r)
            BY <2>1, <2>2, <2>3 DEF Stopped, Supervised, Working, Attending
        <3> QED
            BY <2>2, <2>3, <3>1, <3>2 DEF Refused, Owned, Working
    <2>4. ASSUME req[r] = "pending_confirmation", ~Working(Req(r)), r \notin forgotten PROVE FALSE
        <3>1. Asked(r)
            BY <2>2, <2>4 DEF Asked, Placed, Working
        <3>2. r \in tracked \/ \E x \in Drops : Failing(x, r)
            BY <2>4, <3>1 DEF CloseInv, Lasting, InTime, Tended, Watched
        <3>3. pc[Req(r)] # "conf_wait" /\ ~Sweeps(notice, r)
            BY <2>1, <3>1 DEF Asked, Sweeps, Sweeping
        <3> QED
            BY <2>2, <3>2, <3>3 DEF Refused, Overtaken, Failing, Sweeping, At
    <2> QED
        BY <2>1, <2>2, <2>3, <2>4 DEF Stopped, Active
<1> QED
    BY <1>1, AlwaysClosing, PTL

\* Closing takes back nothing that the service promises: its waiters are told
\* what is stored, no row is left running without anybody to settle it, and as
\* long as every sweep is carried through a model's request runs in its session
\* only, and does not wait for a client that is gone.
THEOREM PromisesAtShutdown ==
    ShutdownSpec => [](WaiterToldOutcome /\ NoStrandedRun /\ ModelRunsInItsSession /\ OfflineSettles)
<1>1. Lasting => WaiterToldOutcome
    BY Zenon DEF Lasting, Truth, Fits, WaiterToldOutcome
<1>2. Lasting => NoStrandedRun
    BY AttendedSupervised DEF Lasting, Secure
<1>3. Lasting => ModelRunsInItsSession
    BY DEF Lasting, InTime, Tended, InSession, ModelRunsInItsSession
<1>4. Lasting => OfflineSettles
    BY InTimeSettles DEF Lasting
<1>5. CloseInv => Lasting
    BY DEF CloseInv
<1> QED
    BY <1>1, <1>2, <1>3, <1>4, <1>5, AlwaysClosing, PTL

\* However requests, decisions and supervisors are overtaken by a close, and
\* however it fails and is repeated, each request lives the life the service
\* promises: asked, granted, invoked once, and then succeeded, stopped or refused
\* for good; and no handler is called for a request of an earlier process.
THEOREM LifecycleAtShutdown == ShutdownSpec => ImplementsLifecycle /\ RestartNeverRuns
<1> DEFINE Own == \A r \in Requests : runs'[r] # runs[r] => born[r] = restarts
<1>1. CloseInv /\ [ShutdownNext]_shutdownVars => [Lifecycle!Next]_Lifecycle!lifecycleVars
    <2> SUFFICES ASSUME CloseInv, [ShutdownNext]_shutdownVars
                 PROVE  [Lifecycle!Next]_Lifecycle!lifecycleVars
        OBVIOUS
    <2>1. Secure /\ Unrecorded
        BY DEF CloseInv, Lasting
    <2>2. CASE Serve \/ UNCHANGED shutdownVars
        <3>1. [Next]_vars
            BY <2>2 DEF Serve, shutdownVars
        <3> QED
            BY <2>1, <3>1, LifecycleStep, Zenon DEF Secure
    <2>3. CASE CloseStep \/ \E x \in Drops : Close(x)
        <3>1. [StoreNext]_storeVars /\ Quiet
            BY <2>1, <2>3, CloseStore, CloseIsQuiet, Zenon
        <3> QED
            BY <2>1, <3>1, StoreMaps DEF Quiet, Secure, Grounded, TypeOK
    <2> QED
        BY <2>2, <2>3 DEF ShutdownNext
<1>2. CloseInv /\ [ShutdownNext]_shutdownVars => [Own]_vars
    <2> SUFFICES ASSUME CloseInv, [ShutdownNext]_shutdownVars PROVE [Own]_vars
        OBVIOUS
    <2>1. Secure
        BY DEF CloseInv, Lasting
    <2>2. CASE Serve \/ UNCHANGED shutdownVars
        <3>1. [Next]_vars
            BY <2>2 DEF Serve, shutdownVars
        <3> QED
            BY <2>1, <3>1, SupCalls, OthersCallNothing DEF Next, Service, Secure
    <2>3. CASE CloseStep \/ \E x \in Drops : Close(x)
        BY <2>1, <2>3, CloseIsQuiet DEF Quiet
    <2> QED
        BY <2>2, <2>3 DEF ShutdownNext
<1>3. ShutdownInit => Lifecycle!Init
    BY LifecycleInit DEF ShutdownInit
<1> QED
    BY <1>1, <1>2, <1>3, AlwaysClosing, PTL
    DEF ShutdownSpec, ImplementsLifecycle, Lifecycle!Spec, RestartNeverRuns
=============================================================================
