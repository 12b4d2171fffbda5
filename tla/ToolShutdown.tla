---------------------------- MODULE ToolShutdown ----------------------------
(***************************************************************************)
(* ToolExecutionService.aclose(): one task, which concurrent callers       *)
(* share, settles what waits and stops what runs while other calls of the  *)
(* service are in progress.  It takes no lock of its own, and only a       *)
(* request() that begins later is refused.  It does not survive a restart  *)
(* of the process, so none happens here.                                   *)
(***************************************************************************)
EXTENDS ToolExecution

CONSTANT MaxCloses  \* bound on the attempts to close

ASSUME ClosesAssumption == MaxCloses \in Nat

VARIABLES
    closing,  \* where the closing task stands
    notice,   \* the loss of the client it announces first
    left,     \* requests it still has to settle or to stop
    current,  \* the one it is at
    found,    \* the state cancel_request returned for that one
    gathered, \* the supervisors it waits for
    failed,   \* a repository call of it raised
    closes    \* attempts so far

closeVars == <<closing, notice, left, current, found, gathered, failed, closes>>

ShutdownInit ==
    /\ Init
    /\ closing = "no" /\ notice = "none" /\ left = {} /\ current = "none"
    /\ found = "absent" /\ gathered = {} /\ failed = FALSE /\ closes = 0

\* Variant: request() looks at _closed only.
AdmitsUntilClosed == closing # "closed"

\* request() looks at _closed and _closing_task, which a failed close resets.
Admits == closing \in {"no", "failed"}

\* A call of the service steps; while it closes no request() begins.
Serve ==
    /\ Next /\ restarts' = restarts /\ UNCHANGED closeVars
    /\ Admits \/ \A r \in Requests : At(Req(r), "idle") => pc'[Req(r)] = "idle"

-----------------------------------------------------------------------------
(* _close_impl()                                                           *)

\* It begins as if the last client were lost: confirmation_client_disconnected().
\* A retry announces a loss of its own again, never one that a hub announced.
Close(x) ==
    /\ Admits /\ closes < MaxCloses /\ closes' = closes + 1
    /\ At(Drop(x), "idle") \/ (closing = "failed" /\ x = notice /\ Finished(Drop(x)))
    /\ closing' = "announcing" /\ notice' = x /\ failed' = FALSE
    /\ handled' = [handled EXCEPT ![x] = {}]
    /\ confLock' = Join(confLock, Drop(x))
    /\ Go(Drop(x), "conf_wait")
    /\ UNCHANGED <<storeVars, memoryVars, execLock, online, todo, awaitedBy, localVars, historyVars,
                   left, current, found, gathered>>

\* The announcement fails a request that it has forgotten already.  A repository
\* call that raises there ends it: what it was at stays as it is, the requests
\* left are not failed by it and none of its updates is published.
AnnouncementRaises ==
    LET p == Drop(notice)
    IN /\ closing = "announcing" /\ pc[p] \in {"fail_cancel", "fail_mark", "fail_done"}
       /\ confLock' = Leave(confLock, p)
       /\ Go(p, "done")
       /\ cut' = cut \cup {notice} /\ failed' = TRUE
       /\ forgotten' = IF At(p, "fail_cancel") THEN forgotten \cup {target[p]} ELSE forgotten
       /\ UNCHANGED <<storeVars, memoryVars, execLock, dropVars, localVars, runs, session, born,
                      restarts, closing, notice, left, current, found, gathered, closes>>

\* Keys of _terminal_waiters and of _pending_arguments.
Outstanding == args \cup {r \in Requests : Working(Wait(r))}

Announced ==
    /\ closing = "announcing" /\ Finished(Drop(notice))
    /\ closing' = "settling" /\ left' = Outstanding
    /\ UNCHANGED <<vars, notice, current, found, gathered, failed, closes>>

\* The next one is cancelled in the tables ...
SettleNext(r) ==
    /\ closing = "settling" /\ r \in left /\ current = "none"
    /\ CancelRequest(r)
    /\ left' = left \ {r} /\ current' = r /\ found' = req'[r]
    /\ UNCHANGED <<memoryVars, lockVars, dropVars, pc, localVars, historyVars,
                   closing, notice, gathered, failed, closes>>

\* ... and forgotten; its confirmation is read ...
SettleForget ==
    /\ closing = "settling" /\ current # "none"
    /\ Forget(current) /\ closing' = "answering"
    /\ UNCHANGED <<storeVars, generation, stopping, released, lockVars, dropVars, pc,
                   localVars, historyVars, notice, left, current, found, gathered, failed, closes>>

\* ... and its waiter is told.
SettleAnswer ==
    /\ closing = "answering" /\ Resolve(current, found)
    /\ closing' = "settling" /\ current' = "none"
    /\ UNCHANGED <<storeVars, memoryVars, lockVars, dropVars, pc, target, seen, flag, gen,
                   historyVars, notice, left, found, gathered, failed, closes>>

\* Where its confirmation cannot be read nobody is told.
AnswerRaises ==
    /\ closing = "answering"
    /\ closing' = "settling" /\ current' = "none" /\ failed' = TRUE
    /\ UNCHANGED <<vars, notice, left, found, gathered, closes>>

\* A repository call that raises leaves this one as it is and the rest goes on.
SettleRaises(r) ==
    /\ closing = "settling" /\ r \in left /\ current = "none"
    /\ left' = left \ {r} /\ failed' = TRUE
    /\ UNCHANGED <<vars, closing, notice, current, found, gathered, closes>>

\* _running_tasks, as it is now
ToStop == {r \in Requests : Supervised(r)}

Swept ==
    /\ closing = "settling" /\ left = {} /\ current = "none"
    /\ closing' = "stopping" /\ left' = ToStop /\ gathered' = ToStop
    /\ UNCHANGED <<vars, notice, current, found, failed, closes>>

\* A task that is done by now is skipped.
StopNext(r) ==
    /\ closing = "stopping" /\ r \in left /\ current = "none"
    /\ left' = left \ {r}
    /\ IF Supervised(r) THEN CancelRequest(r) /\ current' = r
                        ELSE UNCHANGED <<storeVars, current>>
    /\ UNCHANGED <<memoryVars, lockVars, dropVars, pc, localVars, historyVars,
                   closing, notice, found, gathered, failed, closes>>

StopTask ==
    /\ closing = "stopping" /\ current # "none"
    /\ CancelTask(current) /\ current' = "none"
    /\ UNCHANGED <<storeVars, args, tracked, generation, released, lockVars, dropVars, pc,
                   localVars, historyVars, closing, notice, left, found, gathered, failed, closes>>

StopRaises(r) ==
    /\ closing = "stopping" /\ r \in left /\ current = "none" /\ Supervised(r)
    /\ left' = left \ {r} /\ failed' = TRUE
    /\ UNCHANGED <<vars, closing, notice, current, found, gathered, closes>>

\* gather() of the tasks; the first error is raised and aclose() may be retried.
Closed ==
    /\ closing = "stopping" /\ left = {} /\ current = "none"
    /\ \A r \in gathered : ~Supervised(r)
    /\ closing' = IF failed THEN "failed" ELSE "closed"
    /\ gathered' = {}
    /\ UNCHANGED <<vars, notice, left, current, found, failed, closes>>

CloseStep ==
    \/ Announced \/ AnnouncementRaises \/ SettleForget \/ SettleAnswer \/ AnswerRaises
    \/ Swept \/ StopTask \/ Closed
    \/ \E r \in Requests : SettleNext(r) \/ SettleRaises(r) \/ StopNext(r) \/ StopRaises(r)

ShutdownNext == Serve \/ (\E x \in Drops : Close(x)) \/ CloseStep

shutdownVars == <<vars, closeVars>>

\* The closing task is one more task of the loop.
ShutdownSpec ==
    /\ ShutdownInit /\ [][ShutdownNext]_shutdownVars
    /\ Fairness /\ WF_shutdownVars(CloseStep)

-----------------------------------------------------------------------------
\* Once aclose() has returned, no handler of a model's request is called and no
\* such request is left for somebody to confirm, whichever request(), decide()
\* and disconnect it overtook, except one whose request() is about to fail it and
\* one that an attempt that raised had forgotten: a retry does not find that one.
ClosedForGood ==
    closing = "closed" =>
        \A r \in Confirmed :
            /\ req[r] \in Active => Working(Req(r)) \/ r \in forgotten
            /\ pc[Sup(r)] # "handler"

\* Every call returns, aclose() too: it waits for nobody who waits for it.
AllReturn ==
    /\ CallsReturn
    /\ closing \notin {"no", "failed", "closed"} ~> closing \in {"failed", "closed"}
=============================================================================
