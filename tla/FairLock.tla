------------------------------ MODULE FairLock ------------------------------
(***************************************************************************)
(* asyncio.Lock as backend/tools/service.py uses it: a first-in first-out  *)
(* queue whose only member with nobody ahead of it holds the lock.  A lock *)
(* maps every task that holds or awaits it to the set of tasks ahead of    *)
(* it.  Leaving covers a release and the cancellation of a waiting task.   *)
(***************************************************************************)

Free == [p \in {} |-> {}]

\* `await lock.acquire()` : behind everybody already there.
Join(l, p) == [q \in DOMAIN l \cup {p} |-> IF q = p THEN DOMAIN l \ {p} ELSE l[q]]

\* `release()`, or a waiter dropped from the queue by its own cancellation.
LeaveAll(l, P) == [q \in DOMAIN l \ P |-> l[q] \ P]
Leave(l, p) == LeaveAll(l, {p})

Holds(l, p) == p \in DOMAIN l /\ l[p] = {}

\* A well-formed queue of tasks of P.
IsLock(l, P) ==
    /\ l = [p \in DOMAIN l |-> l[p]]
    /\ DOMAIN l \subseteq P
    /\ \A p \in DOMAIN l : l[p] \subseteq DOMAIN l \ {p}
=============================================================================
