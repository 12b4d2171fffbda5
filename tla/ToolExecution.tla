--------------------------- MODULE ToolExecution ----------------------------
(***************************************************************************)
(* ToolExecutionService of backend/tools/service.py over the tool tables   *)
(* (ToolStore) and the DesktopWebSocketHub of backend/api/ws.py that says  *)
(* whether a confirmation client is online.                                *)
(*                                                                         *)
(* The program is one asyncio event loop: a coroutine runs without         *)
(* interruption between two awaits, and every repository call is an await  *)
(* of a thread that runs one transaction.  So a step of a process is       *)
(* either a transaction (what the thread commits) or a resumption (what    *)
(* the coroutine does to the service's memory up to its next await), and   *)
(* any other process may step in between.                                  *)
(***************************************************************************)
EXTENDS ToolStore, FairLock, Naturals

CONSTANTS
    Model,        \* requests whose source is ToolSource.MODEL; others: DESKTOP
    Cancellable,  \* requests whose ToolDefinition.cancellable is true
    Abandonable,  \* requests made for a QQ event, whose task api/qq.py may cancel
    Deciders,     \* calls of decide()
    Approvers,    \* those that carry ToolDecision.APPROVE; the others reject
    Cancellers,   \* calls of cancel()
    Drops,        \* losses of the last confirmation client
    MaxRestarts   \* bound on restarts of the backend process

ASSUME ModelAssumption == Model \subseteq Requests
ASSUME CancellableAssumption == Cancellable \subseteq Requests
\* ModelToolPolicy.allows(): what must be confirmed is for the desktop channel only.
ASSUME AbandonableAssumption == Abandonable \subseteq Model \ HighRisk
ASSUME ApproversAssumption == Approvers \subseteq Deciders
ASSUME RestartsAssumption == MaxRestarts \in Nat

\* One process per call of the service, and one per supervisor task.
Req(r) == <<"request", r>>
Sup(r) == <<"supervise", r>>
Wait(r) == <<"wait", r>>
Dec(d) == <<"decide", d>>
Can(c) == <<"cancel", c>>
Drop(x) == <<"drop", x>>

Proc == ({"request", "supervise", "wait"} \X Requests) \cup ({"decide"} \X Deciders)
          \cup ({"cancel"} \X Cancellers) \cup ({"drop"} \X Drops)

\* A model request that must be confirmed over a live connection.
Confirmed == Model \cap HighRisk

VARIABLES
    args,        \* keys of _pending_arguments
    tracked,     \* _pending_model_confirmations
    generation,  \* _confirmation_generation
    stopping,    \* supervisors with an undelivered Task.cancel(); _cancel_requested
    released,    \* requests whose publish_after event is set
    confLock,    \* _confirmation_lock
    execLock,    \* _execution_lock
    pc,          \* where each process stands
    target,      \* the request a process works on
    seen,        \* the state its last repository call returned to a process
    flag,        \* what a process remembers besides (see the actions)
    gen,         \* the generation request() captured
    told,        \* the settled state given to the waiter of a request
    online,      \* DesktopWebSocketHub.has_connections()
    todo,        \* requests a disconnect still has to fail
    handled,     \* requests a disconnect has failed and will publish
    awaitedBy,   \* the process whose publish() ran into the dead connection
    runs,        \* history: how often the handler of a request was started
    session,     \* history: generation at which a model handler was started
    born,        \* history: the incarnation of the service that took the request
    cut,         \* history: the disconnects whose handling was cancelled half way
    forgotten,   \* history: requests forgotten and then not failed (ToolShutdown)
    restarts     \* how often the backend was restarted

memoryVars == <<args, tracked, generation, stopping, released>>
lockVars == <<confLock, execLock>>
localVars == <<target, seen, flag, gen, told>>
dropVars == <<online, todo, handled, awaitedBy>>
historyVars == <<runs, session, born, cut, forgotten, restarts>>
vars == <<storeVars, memoryVars, lockVars, dropVars, pc, localVars, historyVars>>

Nobody == <<"nobody", "nobody">>

At(p, label) == pc[p] = label
Go(p, label) == pc' = [pc EXCEPT ![p] = label]
Finished(p) == pc[p] = "done"
Working(p) == pc[p] \notin {"idle", "done"}

\* not running_task.done(), for the task registered in _running_tasks
Supervised(r) == Working(Sup(r))

\* _resolve_terminal_waiters(view), for a view that shows state s
Resolve(r, s) ==
    IF s \in Settled /\ Working(Wait(r)) /\ told[r] = "none"
    THEN told' = [told EXCEPT ![r] = s]
    ELSE UNCHANGED told

Forget(r) == args' = args \ {r} /\ tracked' = tracked \ {r}

\* _cancel_requested.add(r); running_task.cancel()
CancelTask(r) == stopping' = IF Supervised(r) THEN stopping \cup {r} ELSE stopping

LeaveLocks(p) == confLock' = Leave(confLock, p) /\ execLock' = Leave(execLock, p)

See(p, s) == seen' = [seen EXCEPT ![p] = s]

Init ==
    /\ StoreInit
    /\ args = {} /\ tracked = {} /\ generation = 0 /\ stopping = {} /\ released = {}
    /\ confLock = Free /\ execLock = Free
    /\ online = TRUE
    /\ pc = [p \in Proc |-> "idle"]
    /\ target = [p \in Proc |-> IF p[1] \in {"request", "supervise", "wait"} THEN p[2] ELSE "none"]
    /\ seen = [p \in Proc |-> "absent"]
    /\ flag = [p \in Proc |-> FALSE]
    /\ gen = [r \in Requests |-> 0]
    /\ todo = [x \in Drops |-> {}]
    /\ handled = [x \in Drops |-> {}]
    /\ awaitedBy = [x \in Drops |-> Nobody]
    /\ told = [r \in Requests |-> "none"]
    /\ runs = [r \in Requests |-> 0]
    /\ session = [r \in Requests |-> 0]
    /\ born = [r \in Requests |-> 0]
    /\ cut = {} /\ forgotten = {} /\ restarts = 0

-----------------------------------------------------------------------------
(* request()                                                               *)

\* Policy checks up to the first await; a confirmed tool needs a live client.
Request(r) ==
    /\ At(Req(r), "idle")
    /\ r \in Confirmed => online
    /\ gen' = [gen EXCEPT ![r] = generation]
    /\ Go(Req(r), "create")
    /\ UNCHANGED <<storeVars, memoryVars, lockVars, dropVars, target, seen, flag, told, historyVars>>

\* The thread commits, even if the call that awaited it is gone.
CommitRequest(r) ==
    /\ pc[Req(r)] \in {"create", "late"}
    /\ IF r \in HighRisk THEN CreateConfirmation(r) ELSE CreateRequest(r)
    /\ born' = [born EXCEPT ![r] = restarts]
    /\ Go(Req(r), IF At(Req(r), "create") THEN "created" ELSE "done")
    /\ UNCHANGED <<memoryVars, lockVars, dropVars, localVars, runs, session, cut, forgotten,
                   restarts>>

\* _execute() of a low-risk request: wait for the execution lock ...
QueueExecution(r) ==
    /\ At(Req(r), "created") /\ r \notin HighRisk
    /\ execLock' = Join(execLock, Req(r))
    /\ Go(Req(r), "exec_wait")
    /\ UNCHANGED <<storeVars, memoryVars, confLock, dropVars, localVars, historyVars>>

\* ... read the request again ...
RereadRequest(r) ==
    /\ At(Req(r), "exec_wait") /\ Holds(execLock, Req(r))
    /\ See(Req(r), req[r])
    /\ Go(Req(r), "reread")
    /\ UNCHANGED <<storeVars, memoryVars, lockVars, dropVars, target, flag, gen, told, historyVars>>

\* ... and start its supervisor if it was running when it was read.
ExecuteRequest(r) ==
    /\ At(Req(r), "reread")
    /\ execLock' = Leave(execLock, Req(r))
    /\ IF seen[Req(r)] = "running"
       THEN /\ pc' = [pc EXCEPT ![Req(r)] = "done", ![Sup(r)] = "new"]
            /\ released' = released \cup {r}
            /\ UNCHANGED told
       ELSE /\ Go(Req(r), "done")
            /\ Resolve(r, seen[Req(r)])
            /\ UNCHANGED released
    /\ UNCHANGED <<storeVars, args, tracked, generation, stopping, confLock, dropVars,
                   target, seen, flag, gen, historyVars>>

\* The socket of a QQ event closes and its task is cancelled (api/qq.py): its call
\* ends where it awaits, in a transaction or for the lock; one that awaits the
\* supervisor is shielded from it.  A thread not begun yet writes nothing.
CallerCancelled(r) ==
    /\ r \in Abandonable
    /\ \/ /\ At(Req(r), "create")
          /\ \E label \in {"late", "done"} : Go(Req(r), label)
       \/ pc[Req(r)] \in {"created", "exec_wait", "reread"} /\ Go(Req(r), "done")
    /\ execLock' = Leave(execLock, Req(r))
    /\ UNCHANGED <<storeVars, memoryVars, confLock, dropVars, localVars, historyVars>>

\* Variants: only a client still offline is noticed, or none.
ClientGone(r) == ~online
ClientIgnored(r) == FALSE

\* The generation moved, or the client left, while the rows were written.
ClientChanged(r) == gen[r] # generation \/ ~online

\* A high-risk request: keep its arguments, track it if the model made it.
TrackConfirmation(r) ==
    /\ At(Req(r), "created") /\ r \in HighRisk
    /\ args' = args \cup {r}
    /\ tracked' = IF r \in Model THEN tracked \cup {r} ELSE tracked
    /\ See(Req(r), "pending_confirmation")
    /\ IF r \in Model /\ ClientChanged(r)
       THEN confLock' = Join(confLock, Req(r)) /\ Go(Req(r), "conf_wait")
       ELSE UNCHANGED confLock /\ Go(Req(r), "publish")
    /\ UNCHANGED <<storeVars, generation, stopping, released, execLock, dropVars,
                   target, flag, gen, told, historyVars>>

\* _fail_pending_model_confirmation()
FailNewRequest(r) ==
    /\ At(Req(r), "conf_wait") /\ Holds(confLock, Req(r))
    /\ Forget(r)
    /\ Go(Req(r), "fail_cancel")
    /\ UNCHANGED <<storeVars, generation, stopping, released, lockVars, dropVars, localVars,
                   historyVars>>

-----------------------------------------------------------------------------
(* _fail_pending_model_confirmation_locked(), for the process p that runs  *)
(* it holding _confirmation_lock: Forget (part of the step that calls it), *)
(* two transactions, then the cancellation of the running task.            *)

FailCancel(p) ==
    /\ At(p, "fail_cancel")
    /\ CancelRequest(target[p])
    /\ Go(p, "fail_mark")
    /\ UNCHANGED <<memoryVars, lockVars, dropVars, localVars, historyVars>>

FailMark(p) ==
    /\ At(p, "fail_mark")
    /\ MarkUnavailable(target[p])
    /\ See(p, req'[target[p]])
    /\ Go(p, "fail_done")
    /\ UNCHANGED <<memoryVars, lockVars, dropVars, target, flag, gen, told, historyVars>>

\* The end of it in request(), decide() and a disconnect (a supervisor: SupFailed).
FailDone(p) ==
    /\ At(p, "fail_done") /\ p[1] # "supervise"
    /\ CancelTask(target[p])
    /\ IF p[1] = "drop"
       THEN /\ handled' = [handled EXCEPT ![p[2]] = @ \cup {target[p]}]
            /\ Go(p, "next")
            /\ UNCHANGED lockVars
       ELSE /\ LeaveLocks(p)
            /\ Go(p, "publish")
            /\ UNCHANGED handled
    /\ UNCHANGED <<storeVars, args, tracked, generation, released, online, todo, awaitedBy,
                   localVars, historyVars>>

-----------------------------------------------------------------------------
(* decide(): both locks around _prepare_decision(), nothing published      *)
(* before they are released.                                               *)

\* The caller knows the confirmation of a request that has one.
Decide(d, r) ==
    /\ At(Dec(d), "idle") /\ conf[r] # "absent"
    /\ target' = [target EXCEPT ![Dec(d)] = r]
    /\ confLock' = Join(confLock, Dec(d))
    /\ Go(Dec(d), "conf_wait")
    /\ UNCHANGED <<storeVars, memoryVars, execLock, dropVars, seen, flag, gen, told, historyVars>>

DecideLock(d) ==
    /\ At(Dec(d), "conf_wait") /\ Holds(confLock, Dec(d))
    /\ execLock' = Join(execLock, Dec(d))
    /\ Go(Dec(d), "exec_wait")
    /\ UNCHANGED <<storeVars, memoryVars, confLock, dropVars, localVars, historyVars>>

Choice(d) == IF d \in Approvers THEN "approve" ELSE "reject"

\* claim_decision(): what it returns is "unclaimed" or the new state.
DecideClaim(d) ==
    LET p == Dec(d)
        r == target[p]
    IN /\ At(p, "exec_wait") /\ Holds(execLock, p)
       /\ ClaimDecision(r, Choice(d), r \in due)
       /\ See(p, IF conf[r] = "pending" THEN req'[r] ELSE "unclaimed")
       /\ Go(p, "claimed")
       /\ UNCHANGED <<memoryVars, lockVars, dropVars, target, flag, gen, told, historyVars>>

\* No live client for a request that needs one.
ClientLost(r) == r \in Model /\ ~online

\* Somebody else's decision, or this one refused the request.
DecideRefused(d) ==
    LET p == Dec(d)
        r == target[p]
    IN /\ At(p, "claimed") /\ seen[p] # "running"
       /\ tracked' = tracked \ {r}
       /\ IF seen[p] = "unclaimed"
          THEN UNCHANGED args /\ Go(p, "done")
          ELSE args' = args \ {r} /\ Go(p, "publish")
       /\ LeaveLocks(p)
       /\ UNCHANGED <<storeVars, generation, stopping, released, dropVars, localVars, historyVars>>

\* The request is this call's to run: look for its arguments, and read a
\* model request once more.
DecideApproved(d) ==
    LET p == Dec(d)
        r == target[p]
    IN /\ At(p, "claimed") /\ seen[p] = "running"
       /\ flag' = [flag EXCEPT ![p] = r \in args]
       /\ \/ ClientLost(r) /\ Forget(r) /\ Go(p, "fail_cancel")
          \/ r \in Model /\ ~ClientLost(r) /\ UNCHANGED <<args, tracked>> /\ Go(p, "recheck")
          \/ r \notin Model /\ r \in args /\ UNCHANGED <<args, tracked>> /\ Go(p, "start")
          \/ /\ r \notin Model /\ r \notin args
             /\ tracked' = tracked \ {r} /\ UNCHANGED args
             /\ Go(p, "no_context")
       /\ UNCHANGED <<storeVars, generation, stopping, released, lockVars, dropVars,
                      target, seen, gen, told, historyVars>>

DecideReread(d) ==
    /\ At(Dec(d), "recheck")
    /\ See(Dec(d), req[target[Dec(d)]])
    /\ Go(Dec(d), "rechecked")
    /\ UNCHANGED <<storeVars, memoryVars, lockVars, dropVars, target, flag, gen, told, historyVars>>

DecideRechecked(d) ==
    LET p == Dec(d)
        r == target[p]
        settled == seen[p] \in Settled
    IN /\ At(p, "rechecked")
       /\ \/ settled /\ UNCHANGED <<args, tracked>> /\ LeaveLocks(p) /\ Go(p, "done")
          \/ ~settled /\ ClientLost(r) /\ Forget(r) /\ UNCHANGED lockVars /\ Go(p, "fail_cancel")
          \/ /\ ~settled /\ ~ClientLost(r) /\ ~flag[p]
             /\ tracked' = tracked \ {r} /\ UNCHANGED <<args, lockVars>>
             /\ Go(p, "no_context")
          \/ /\ ~settled /\ ~ClientLost(r) /\ flag[p]
             /\ UNCHANGED <<args, tracked, lockVars>>
             /\ Go(p, "start")
       /\ UNCHANGED <<storeVars, generation, stopping, released, dropVars, localVars, historyVars>>

DecideNoContext(d) ==
    LET p == Dec(d)
    IN /\ At(p, "no_context")
       /\ Fail(target[p], "request_context_unavailable")
       /\ See(p, req'[target[p]])
       /\ LeaveLocks(p)
       /\ Go(p, "publish")
       /\ UNCHANGED <<memoryVars, dropVars, target, flag, gen, told, historyVars>>

DecideStart(d) ==
    /\ At(Dec(d), "start")
    /\ StartExecution(target[Dec(d)])
    /\ See(Dec(d), req[target[Dec(d)]])
    /\ Go(Dec(d), "started")
    /\ UNCHANGED <<memoryVars, lockVars, dropVars, target, flag, gen, told, historyVars>>

\* The arguments of a model request stay until its handler starts.
DecideStarted(d) ==
    LET p == Dec(d)
        r == target[p]
    IN /\ At(p, "started")
       /\ \/ seen[p] # "running" /\ Forget(r) /\ LeaveLocks(p) /\ Go(p, "publish")
          \/ /\ seen[p] = "running" /\ ClientLost(r)
             /\ Forget(r) /\ UNCHANGED lockVars
             /\ Go(p, "fail_cancel")
          \/ /\ seen[p] = "running" /\ ~ClientLost(r)
             /\ args' = IF r \in Model THEN args ELSE args \ {r}
             /\ UNCHANGED tracked
             /\ LeaveLocks(p)
             /\ pc' = [pc EXCEPT ![p] = "publish", ![Sup(r)] = "new"]
       /\ UNCHANGED <<storeVars, generation, stopping, released, dropVars, localVars, historyVars>>

-----------------------------------------------------------------------------
(* cancel(), which takes neither lock                                      *)

\* Reads the request and decides by what it read.
Cancel(c, r) ==
    LET p == Can(c)
        running == req[r] = "running"
    IN /\ At(p, "idle") /\ req[r] # "absent"
       /\ target' = [target EXCEPT ![p] = r]
       /\ Go(p, IF req[r] \notin Active \/ (running /\ r \notin Cancellable)
                THEN "done" ELSE "cancel")
       /\ UNCHANGED <<storeVars, memoryVars, lockVars, dropVars, seen, flag, gen, told, historyVars>>

CancelCommit(c) ==
    LET p == Can(c)
    IN /\ At(p, "cancel")
       /\ CancelRequest(target[p])
       /\ See(p, req'[target[p]])
       /\ Go(p, "cancelled")
       /\ UNCHANGED <<memoryVars, lockVars, dropVars, target, flag, gen, told, historyVars>>

CancelResume(c) ==
    LET p == Can(c)
    IN /\ At(p, "cancelled")
       /\ Forget(target[p])
       /\ CancelTask(target[p])
       /\ Go(p, "publish")
       /\ UNCHANGED <<storeVars, generation, released, lockVars, dropVars, localVars, historyVars>>

-----------------------------------------------------------------------------
(* wait_for_terminal(): the turn of the conversation that made a model     *)
(* request awaits its end, with a time limit in either waiting state.      *)

WaitStart(r) ==
    /\ At(Wait(r), "idle") /\ r \in Confirmed /\ Finished(Req(r))
    /\ Go(Wait(r), "read")
    /\ UNCHANGED <<storeVars, memoryVars, lockVars, dropVars, localVars, historyVars>>

WaitRead(r) ==
    LET s == req[r]
    IN /\ At(Wait(r), "read")
       /\ IF s \in Settled
          THEN /\ told' = [told EXCEPT ![r] = s]
               /\ Go(Wait(r), "done")
          ELSE /\ UNCHANGED told
               /\ Go(Wait(r), IF s = "running" THEN "wait_running" ELSE "wait_pending")
       /\ UNCHANGED <<storeVars, memoryVars, lockVars, dropVars, target, seen, flag, gen,
                      historyVars>>

WaitResolved(r) ==
    /\ pc[Wait(r)] \in {"wait_pending", "wait_running"} /\ told[r] # "none"
    /\ Go(Wait(r), "done")
    /\ UNCHANGED <<storeVars, memoryVars, lockVars, dropVars, localVars, historyVars>>

\* _expire_waiting_request(): a rejection at max(now, expires_at)
WaitExpire(r) ==
    LET p == Wait(r)
    IN /\ At(p, "wait_pending") /\ told[r] = "none"
       /\ ClaimDecision(r, "reject", TRUE)
       /\ See(p, req'[r])
       /\ Go(p, "expired")
       /\ UNCHANGED <<memoryVars, lockVars, dropVars, target, flag, gen, told, historyVars>>

WaitExpired(r) ==
    LET p == Wait(r)
    IN /\ At(p, "expired")
       /\ IF seen[p] \in Settled
          THEN Forget(r) /\ Go(p, "publish")
          ELSE UNCHANGED <<args, tracked>> /\ Go(p, "read")
       /\ UNCHANGED <<storeVars, generation, stopping, released, lockVars, dropVars, localVars,
                      historyVars>>

\* _fail_running_wait()
WaitTimeout(r) ==
    LET p == Wait(r)
    IN /\ At(p, "wait_running") /\ told[r] = "none"
       /\ execLock' = Join(execLock, p)
       /\ Go(p, "exec_wait")
       /\ UNCHANGED <<storeVars, memoryVars, confLock, dropVars, localVars, historyVars>>

\* Variant: the outcome is taken to be "failed" without a look at the row.
WaitFailBlind(r) ==
    LET p == Wait(r)
    IN /\ At(p, "exec_wait") /\ Holds(execLock, p)
       /\ Fail(r, "execution_timeout")
       /\ See(p, "failed")
       /\ Go(p, "failed")
       /\ UNCHANGED <<memoryVars, lockVars, dropVars, target, flag, gen, told, historyVars>>

WaitFail(r) ==
    LET p == Wait(r)
    IN /\ At(p, "exec_wait") /\ Holds(execLock, p)
       /\ Fail(r, "execution_timeout")
       /\ See(p, req'[r])
       /\ Go(p, "failed")
       /\ UNCHANGED <<memoryVars, lockVars, dropVars, target, flag, gen, told, historyVars>>

WaitFailed(r) ==
    LET p == Wait(r)
    IN /\ At(p, "failed")
       /\ CancelTask(r)
       /\ execLock' = Leave(execLock, p)
       /\ Go(p, "publish")
       /\ UNCHANGED <<storeVars, args, tracked, generation, released, confLock, dropVars, localVars,
                      historyVars>>

-----------------------------------------------------------------------------
(* The hub loses its last connection: confirmation_client_disconnected().  *)

Disconnect(x) ==
    /\ At(Drop(x), "idle") /\ online
    /\ online' = FALSE
    /\ confLock' = Join(confLock, Drop(x))
    /\ Go(Drop(x), "conf_wait")
    /\ UNCHANGED <<storeVars, memoryVars, execLock, todo, handled, awaitedBy, localVars,
                   historyVars>>

Reconnect ==
    /\ ~online
    /\ online' = TRUE
    /\ UNCHANGED <<storeVars, memoryVars, lockVars, pc, todo, handled, awaitedBy, localVars,
                   historyVars>>

DropBump(x) ==
    /\ At(Drop(x), "conf_wait") /\ Holds(confLock, Drop(x))
    /\ generation' = generation + 1
    /\ todo' = [todo EXCEPT ![x] = tracked]
    /\ Go(Drop(x), "next")
    /\ UNCHANGED <<storeVars, args, tracked, stopping, released, lockVars, online, handled,
                   awaitedBy, localVars, historyVars>>

DropNext(x, r) ==
    /\ At(Drop(x), "next") /\ r \in todo[x]
    /\ todo' = [todo EXCEPT ![x] = @ \ {r}]
    /\ target' = [target EXCEPT ![Drop(x)] = r]
    /\ Forget(r)
    /\ Go(Drop(x), "fail_cancel")
    /\ UNCHANGED <<storeVars, generation, stopping, released, lockVars, online, handled, awaitedBy,
                   seen, flag, gen, told, historyVars>>

DropEnd(x) ==
    /\ At(Drop(x), "next") /\ todo[x] = {}
    /\ confLock' = Leave(confLock, Drop(x))
    /\ Go(Drop(x), IF handled[x] = {} THEN "done" ELSE "publish")
    /\ UNCHANGED <<storeVars, memoryVars, execLock, dropVars, localVars, historyVars>>

-----------------------------------------------------------------------------
(* _supervise_execution() and _run_confirmed_model_handler().  A step of   *)
(* the coroutine needs that no cancellation awaits delivery; a transaction *)
(* it has sent to its thread does not.                                     *)

AtSup(r, label) == At(Sup(r), label) /\ r \notin stopping

\* The handler is called.
RunHandler(r) ==
    /\ runs' = [runs EXCEPT ![r] = @ + 1]
    /\ session' = [session EXCEPT ![r] = generation]
    /\ UNCHANGED <<born, cut, forgotten, restarts>>

SupStart(r) ==
    /\ AtSup(r, "new")
    /\ IF r \in Confirmed
       THEN /\ confLock' = Join(confLock, Sup(r))
            /\ Go(Sup(r), "conf_wait")
            /\ UNCHANGED historyVars
       ELSE RunHandler(r) /\ Go(Sup(r), "handler") /\ UNCHANGED confLock
    /\ UNCHANGED <<storeVars, memoryVars, execLock, dropVars, localVars>>

SupLock(r) ==
    /\ AtSup(r, "conf_wait") /\ Holds(confLock, Sup(r))
    /\ execLock' = Join(execLock, Sup(r))
    /\ Go(Sup(r), "exec_wait")
    /\ UNCHANGED <<storeVars, memoryVars, confLock, dropVars, localVars, historyVars>>

SupCheck(r) ==
    LET p == Sup(r)
    IN /\ AtSup(r, "exec_wait") /\ Holds(execLock, p)
       /\ \/ /\ r \notin tracked
             /\ LeaveLocks(p) /\ UNCHANGED <<args, tracked, seen>>
             /\ Go(p, "fail_unavailable")
          \/ /\ r \in tracked /\ ClientLost(r)
             /\ Forget(r) /\ UNCHANGED <<lockVars, seen>>
             /\ Go(p, "fail_cancel")
          \/ /\ r \in tracked /\ ~ClientLost(r)
             /\ See(p, req[r]) /\ UNCHANGED <<args, tracked, lockVars>>
             /\ Go(p, "checked")
       /\ UNCHANGED <<storeVars, generation, stopping, released, dropVars, target, flag, gen, told,
                      historyVars>>

SupChecked(r) ==
    LET p == Sup(r)
    IN /\ AtSup(r, "checked")
       /\ IF seen[p] = "running"
          THEN Forget(r) /\ RunHandler(r) /\ Go(p, "handler")
          ELSE UNCHANGED <<args, tracked, historyVars>> /\ Go(p, "fail_unavailable")
       /\ LeaveLocks(p)
       /\ UNCHANGED <<storeVars, generation, stopping, released, dropVars, localVars>>

SupFailed(r) ==
    /\ AtSup(r, "fail_done")
    /\ LeaveLocks(Sup(r))
    /\ Go(Sup(r), "fail_unavailable")
    /\ UNCHANGED <<storeVars, memoryVars, dropVars, localVars, historyVars>>

\* The handler returns a result or raises.
HandlerEnds(r) ==
    /\ AtSup(r, "handler")
    /\ \E label \in {"succeed", "fail_error"} : Go(Sup(r), label)
    /\ UNCHANGED <<storeVars, memoryVars, lockVars, dropVars, localVars, historyVars>>

\* Where wait_for() can interrupt what it runs.
Interruptible == {"handler", "conf_wait", "exec_wait", "checked", "fail_mark", "fail_done"}

\* Variants: an execution that timed out is tried again, or not recorded.
SupRetries(r) ==
    /\ pc[Sup(r)] \in Interruptible /\ r \notin stopping
    /\ LeaveLocks(Sup(r))
    /\ Go(Sup(r), "new")
    /\ UNCHANGED <<storeVars, memoryVars, dropVars, localVars, historyVars>>

SupGivesUp(r) ==
    /\ pc[Sup(r)] \in Interruptible /\ r \notin stopping
    /\ LeaveLocks(Sup(r))
    /\ Go(Sup(r), "done")
    /\ UNCHANGED <<storeVars, memoryVars, dropVars, localVars, historyVars>>

SupTimeout(r) ==
    /\ pc[Sup(r)] \in Interruptible /\ r \notin stopping
    /\ LeaveLocks(Sup(r))
    /\ Go(Sup(r), "fail_timeout")
    /\ UNCHANGED <<storeVars, memoryVars, dropVars, localVars, historyVars>>

CommitSuccess(r) ==
    /\ At(Sup(r), "succeed")
    /\ Succeed(r)
    /\ See(Sup(r), req'[r])
    /\ Go(Sup(r), "succeeded")
    /\ UNCHANGED <<memoryVars, lockVars, dropVars, target, flag, gen, told, historyVars>>

FailureCode == [fail_unavailable |-> "confirmation_client_unavailable",
                fail_timeout |-> "execution_timeout",
                fail_error |-> "execution_failed"]

CommitFailure(r) ==
    /\ pc[Sup(r)] \in DOMAIN FailureCode
    /\ Fail(r, FailureCode[pc[Sup(r)]])
    /\ See(Sup(r), req'[r])
    /\ Go(Sup(r), "failed")
    /\ UNCHANGED <<memoryVars, lockVars, dropVars, target, flag, gen, told, historyVars>>

SupSettle(r) ==
    /\ pc[Sup(r)] \in {"succeeded", "failed"} /\ r \notin stopping
    /\ Resolve(r, seen[Sup(r)])
    /\ Go(Sup(r), "settled")
    /\ UNCHANGED <<storeVars, memoryVars, lockVars, dropVars, target, seen, flag, gen, historyVars>>

\* `await publish_after.wait()`
SupReleased(r) ==
    /\ AtSup(r, "settled") /\ r \in released
    /\ Go(Sup(r), "publish")
    /\ UNCHANGED <<storeVars, memoryVars, lockVars, dropVars, localVars, historyVars>>

\* CancelledError arrives.  During the execution or the commit of its success
\* the supervisor catches it; a task not begun, or one that is already storing
\* a failure or publishing, ends.
SupCancelled(r) ==
    LET p == Sup(r)
        caught == pc[p] \in Interruptible \cup {"succeeded"}
    IN /\ r \in stopping
       /\ pc[p] \in {"new", "failed", "settled", "publish", "reread"} \cup Interruptible
                     \cup {"succeeded"}
       /\ stopping' = stopping \ {r}
       /\ LeaveLocks(p)
       /\ Go(p, IF caught THEN "reread" ELSE "done")
       /\ UNCHANGED <<storeVars, args, tracked, generation, released, dropVars, localVars,
                      historyVars>>

\* Cancelled by the service: read the row, tell the waiter, publish nothing.
SupReread(r) ==
    /\ AtSup(r, "reread")
    /\ Resolve(r, req[r])
    /\ Go(Sup(r), "done")
    /\ UNCHANGED <<storeVars, memoryVars, lockVars, dropVars, target, seen, flag, gen, historyVars>>

\* The disconnects whose handling the publish() of p waits for, one inside the
\* publication of another included.
Awaited(p) ==
    {x \in Drops : \A S \in SUBSET Drops :
        (\A y \in Drops :
            awaitedBy[y] = p \/ (\E z \in S : At(Drop(z), "publishing") /\ awaitedBy[y] = Drop(z))
              => y \in S)
        => x \in S}

\* Cancelled while its publish() waits for a disconnect: gather() cancels that
\* too, at its next await that is not a transaction in flight.
SupAborts(r) ==
    LET p == Sup(r)
        ends == {p} \cup {Drop(x) : x \in Awaited(p)}
    IN /\ r \in stopping /\ At(p, "publishing")
       /\ \A q \in ends : pc[q] \notin {"fail_cancel", "next"}
       /\ stopping' = stopping \ {r}
       /\ confLock' = LeaveAll(confLock, ends)
       /\ pc' = [q \in Proc |-> IF q \in ends THEN "done" ELSE pc[q]]
       /\ cut' = cut \cup {x \in Awaited(p) : pc[Drop(x)] \notin {"publish", "publishing", "done"}}
       /\ UNCHANGED <<storeVars, args, tracked, generation, released, execLock, dropVars, localVars,
                      runs, session, born, forgotten, restarts>>

-----------------------------------------------------------------------------
(* publish(): the service's own subscriber resolves waiters (a waiter      *)
(* that publishes returns what it published); the hub's broadcast may find *)
(* the last connection dead, and then waits for the handler of that        *)
(* disconnect.                                                             *)

MayPublish(p) == At(p, "publish") /\ ~(p[1] = "supervise" /\ p[2] \in stopping)

Notify(p) ==
    IF p[1] = "drop"
    THEN told' = [r \in Requests |->
                    IF r \in handled[p[2]] /\ req[r] \in Settled /\ Working(Wait(r))
                         /\ told[r] = "none"
                    THEN req[r] ELSE told[r]]
    ELSE IF p[1] = "wait" /\ seen[p] \in Settled
         THEN told' = [told EXCEPT ![p[2]] = seen[p]]
         ELSE Resolve(target[p], seen[p])

\* Variant: decide() never sets publish_after.
ReleaseNothing(p) == UNCHANGED released

\* decide() sets publish_after once its update is out.
Release(p) == released' = IF p[1] = "decide" THEN released \cup {target[p]} ELSE released

Publish(p) ==
    /\ MayPublish(p)
    /\ Notify(p)
    /\ Release(p)
    /\ Go(p, "done")
    /\ UNCHANGED <<storeVars, args, tracked, generation, stopping, lockVars, dropVars,
                   target, seen, flag, gen, historyVars>>

PublishToDead(p, x) ==
    /\ MayPublish(p)
    /\ online /\ At(Drop(x), "idle")
    /\ Notify(p)
    /\ online' = FALSE
    /\ awaitedBy' = [awaitedBy EXCEPT ![x] = p]
    /\ confLock' = Join(confLock, Drop(x))
    /\ pc' = [pc EXCEPT ![p] = "publishing", ![Drop(x)] = "conf_wait"]
    /\ UNCHANGED <<storeVars, memoryVars, execLock, todo, handled, target, seen, flag, gen,
                   historyVars>>

PublishReturns(p, x) ==
    /\ At(p, "publishing") /\ awaitedBy[x] = p /\ Finished(Drop(x))
    /\ ~(p[1] = "supervise" /\ p[2] \in stopping)
    /\ Release(p)
    /\ Go(p, "done")
    /\ UNCHANGED <<storeVars, args, tracked, generation, stopping, lockVars, dropVars, localVars,
                   historyVars>>

-----------------------------------------------------------------------------
(* Clock, listing, restart                                                 *)

PassTime(r) ==
    /\ PassDeadline(r)
    /\ UNCHANGED <<memoryVars, lockVars, dropVars, pc, localVars, historyVars>>

\* list_pending_confirmations(): all it changes is what the store expires.
List ==
    /\ Overdue # {}
    /\ ListPendingConfirmations
    /\ UNCHANGED <<memoryVars, lockVars, dropVars, pc, localVars, historyVars>>

\* Variant: the arguments are kept on disk.
KeepArguments ==
    args' = args /\ tracked' = {} /\ generation' = 0 /\ stopping' = {} /\ released' = {}

LoseMemory ==
    args' = {} /\ tracked' = {} /\ generation' = 0 /\ stopping' = {} /\ released' = {}

\* The process dies and a new one opens the same database: every call in
\* progress and everything in memory is gone.
Restart ==
    /\ restarts < MaxRestarts
    /\ restarts' = restarts + 1
    /\ LoseMemory
    /\ confLock' = Free /\ execLock' = Free
    /\ online' = FALSE
    /\ pc' = [p \in Proc |->
                IF At(p, "idle") /\ ~(p[1] = "wait" /\ ~At(Req(p[2]), "idle"))
                THEN "idle" ELSE "done"]
    /\ UNCHANGED <<storeVars, todo, handled, awaitedBy, localVars, runs, session, born, cut,
                   forgotten>>

-----------------------------------------------------------------------------
RequestStep(r) ==
    \/ CommitRequest(r) \/ QueueExecution(r) \/ RereadRequest(r) \/ ExecuteRequest(r)
    \/ TrackConfirmation(r) \/ FailNewRequest(r)

DecideStep(d) ==
    \/ DecideLock(d) \/ DecideClaim(d) \/ DecideRefused(d) \/ DecideApproved(d)
    \/ DecideReread(d) \/ DecideRechecked(d) \/ DecideNoContext(d)
    \/ DecideStart(d) \/ DecideStarted(d)

CancelStep(c) == CancelCommit(c) \/ CancelResume(c)

WaitStep(r) ==
    \/ WaitStart(r) \/ WaitRead(r) \/ WaitResolved(r) \/ WaitExpire(r) \/ WaitExpired(r)
    \/ WaitTimeout(r) \/ WaitFail(r) \/ WaitFailed(r)

DropStep(x) == DropBump(x) \/ (\E r \in Requests : DropNext(x, r)) \/ DropEnd(x)

SupStep(r) ==
    \/ SupStart(r) \/ SupLock(r) \/ SupCheck(r) \/ SupChecked(r) \/ SupFailed(r)
    \/ HandlerEnds(r) \/ SupTimeout(r) \/ CommitSuccess(r) \/ CommitFailure(r) \/ SupSettle(r)
    \/ SupReleased(r) \/ SupCancelled(r) \/ SupReread(r) \/ SupAborts(r)

SharedStep(p) ==
    \/ FailCancel(p) \/ FailMark(p) \/ FailDone(p)
    \/ Publish(p) \/ \E x \in Drops : PublishReturns(p, x)

\* What a caller, a client or the world starts, or may never start.
Environment ==
    \/ \E r \in Requests : Request(r) \/ CallerCancelled(r)
    \/ \E d \in Deciders, r \in Requests : Decide(d, r)
    \/ \E c \in Cancellers, r \in Requests : Cancel(c, r)
    \/ \E x \in Drops : Disconnect(x)
    \/ Reconnect
    \/ \E p \in Proc, x \in Drops : PublishToDead(p, x)
    \/ \E r \in Requests : PassTime(r)
    \/ List
    \/ Restart

\* Every call has been made and has returned.
Quiescent ==
    /\ \A p \in Proc : ~Working(p)
    /\ UNCHANGED vars

Service ==
    \/ \E r \in Requests : RequestStep(r) \/ WaitStep(r) \/ SupStep(r)
    \/ \E d \in Deciders : DecideStep(d)
    \/ \E c \in Cancellers : CancelStep(c)
    \/ \E x \in Drops : DropStep(x)
    \/ \E p \in Proc : SharedStep(p)

Next == Service \/ Environment \/ Quiescent

Spec == Init /\ [][Next]_vars

-----------------------------------------------------------------------------
Label == {"idle", "done", "create", "late", "created", "exec_wait", "reread", "conf_wait", "publish",
          "publishing", "fail_cancel", "fail_mark", "fail_done", "claimed", "recheck", "rechecked",
          "no_context", "start", "started", "cancel", "cancelled", "read", "wait_pending",
          "wait_running", "expired", "failed", "next", "new", "checked", "handler", "succeed",
          "succeeded", "settled"} \cup DOMAIN FailureCode

MemoryTypeOK ==
    /\ args \in SUBSET Requests /\ tracked \in SUBSET Requests
    /\ generation \in Nat
    /\ stopping \in SUBSET Requests /\ released \in SUBSET Requests

LockTypeOK == IsLock(confLock, Proc) /\ IsLock(execLock, Proc)

DropTypeOK ==
    /\ online \in BOOLEAN
    /\ todo \in [Drops -> SUBSET Requests] /\ handled \in [Drops -> SUBSET Requests]
    /\ awaitedBy \in [Drops -> Proc \cup {Nobody}]

LocalTypeOK ==
    /\ target \in [Proc -> Requests \cup {"none"}]
    /\ seen \in [Proc -> RequestState \cup {"unclaimed"}]
    /\ flag \in [Proc -> BOOLEAN]
    /\ gen \in [Requests -> Nat]
    /\ told \in [Requests -> Settled \cup {"none"}]

HistoryTypeOK ==
    /\ runs \in [Requests -> Nat] /\ session \in [Requests -> Nat] /\ born \in [Requests -> Nat]
    /\ cut \in SUBSET Drops /\ forgotten \in SUBSET Requests
    /\ restarts \in 0..MaxRestarts

TypeOK ==
    /\ StoreTypeOK /\ MemoryTypeOK /\ LockTypeOK /\ DropTypeOK
    /\ pc \in [Proc -> Label]
    /\ LocalTypeOK /\ HistoryTypeOK

\* Two approvals, a cancellation, a disconnect and a timeout may race for one
\* request: its handler is still called at most once, and only a request whose
\* handler was called is ever recorded as succeeded.
RunsAtMostOnce ==
    \A r \in Requests : runs[r] <= 1 /\ (req[r] = "succeeded" => runs[r] = 1)

\* No handler is called before the start of its execution is in the audit
\* trail (README.md: requests, executions and results are recorded).
RunsAreAudited == \A r \in Requests : runs[r] > 0 => "execution_started" \in audit[r]

\* A model request runs only over the client connection that was live when the
\* request was made: a loss of the last client in between (the generation
\* moves) fails it for good, whatever the order of tracking, sweep and approval,
\* as long as every sweep is carried through.
ModelRunsInItsSession ==
    cut = {} => \A r \in Confirmed : runs[r] > 0 => session[r] = gen[r]

\* A call that has still to run a request or to settle it.
WorksOn(d, r) == target[Dec(d)] = r /\ Working(Dec(d)) /\ pc[Dec(d)] \notin {"publish", "publishing"}

\* Its caller was cancelled before it had a supervisor, and it was never run.
Abandoned(r) == r \in Abandonable /\ Finished(Req(r)) /\ At(Sup(r), "idle") /\ runs[r] = 0

\* A row says "running" only while its requester, its supervisor or the decide()
\* that claimed it is there to settle it; rows of an earlier process are not, nor
\* is the row of a QQ event that was cancelled before its execution began: nobody
\* but a cancel() will ever settle that one, and nobody runs it.
NoStrandedRun ==
    \A r \in Requests :
        req[r] = "running" /\ born[r] = restarts
          => \/ Working(Req(r)) \/ Supervised(r) \/ Abandoned(r)
             \/ \E d \in Deciders : WorksOn(d, r)

\* With no client online and no disconnect being handled, no model request
\* awaits a confirmation, except one whose request() call is yet to notice.
ClientLossSettles ==
    \A r \in Confirmed :
        /\ req[r] = "pending_confirmation" /\ born[r] = restarts
        /\ ~online /\ \A x \in Drops : ~Working(Drop(x))
        => Working(Req(r))

\* So it is where no supervisor was cancelled while its own notification awaited
\* the handling of the lost connection: that handling ends with it.
OfflineSettles == cut = {} => ClientLossSettles

\* What wait_for_terminal() returns to the conversation is the outcome stored,
\* or "cancelled" where a lost client made the store say "failed" later.
WaiterToldOutcome ==
    \A r \in Requests : told[r] # "none" => \/ told[r] = req[r]
                                            \/ told[r] = "cancelled" /\ req[r] = "failed"

\* A handler is called only by the process that took the request: nothing is
\* run, or run again, after a restart (README.md).
RestartNeverRuns == [][\A r \in Requests : runs'[r] # runs[r] => born[r] = restarts]_vars

\* What its rows say of a request in the terms of its lifecycle.
PhaseOf(r) ==
    CASE req[r] = "pending_confirmation" -> "waiting"
      [] req[r] = "running" -> "granted"
      [] req[r] \in {"rejected", "expired"} -> "refused"
      [] req[r] \in {"cancelled", "failed"} -> "stopped"
      [] OTHER -> req[r]

Granted == {r \in Requests : IF r \in HighRisk THEN conf[r] = "approved" ELSE req[r] # "absent"}

\* The service implements the lifecycle it promises.
Lifecycle == INSTANCE ToolLifecycle WITH
    phase <- [r \in Requests |-> PhaseOf(r)],
    granted <- Granted,
    invocations <- runs

ImplementsLifecycle == Lifecycle!Spec

\* Weak fairness of every step of the service: asyncio resumes a task whose
\* await is over, its locks are first-in first-out, a transaction ends, and a
\* handler ends because wait_for() limits it, as the two timers of a waiter do.
\* Nothing is assumed of callers and clients.
Fairness ==
    /\ \A r \in Requests : WF_vars(RequestStep(r)) /\ WF_vars(WaitStep(r)) /\ WF_vars(SupStep(r))
    /\ \A d \in Deciders : WF_vars(DecideStep(d))
    /\ \A c \in Cancellers : WF_vars(CancelStep(c))
    /\ \A x \in Drops : WF_vars(DropStep(x))
    /\ \A p \in Proc : WF_vars(SharedStep(p))

FairSpec == Spec /\ Fairness

\* No call waits for ever, for a lock, for a waiter that nobody resolves or for
\* the disconnect its own notification caused: nothing is published with a
\* lock held, and every wait has a limit.
CallsReturn == \A p \in Proc : Working(p) ~> Finished(p)
=============================================================================
