--------------------------- MODULE ToolLifecycle ----------------------------
(***************************************************************************)
(* What the tool service promises of a request, whatever its callers, its  *)
(* clients and its timers do: it is granted once (by policy if low-risk,   *)
(* by an approval if high-risk), its handler is invoked at most once and   *)
(* only after the grant, it succeeds only after the invocation, and its    *)
(* outcome is never revised.  "stopped" covers cancelled and failed, which *)
(* the service may still exchange when it loses its confirmation client.   *)
(***************************************************************************)
EXTENDS Naturals

CONSTANTS Requests, HighRisk

VARIABLES
    phase,        \* where the request stands
    granted,      \* the requests that were ever allowed to run
    invocations   \* how often the handler of a request was invoked

lifecycleVars == <<phase, granted, invocations>>

Phase == {"absent", "waiting", "granted", "succeeded", "refused", "stopped"}

Init ==
    /\ phase = [r \in Requests |-> "absent"]
    /\ granted = {}
    /\ invocations = [r \in Requests |-> 0]

Move(r, from, to) == phase[r] \in from /\ phase' = [phase EXCEPT ![r] = to]

Ask(r) == r \in HighRisk /\ Move(r, {"absent"}, "waiting") /\ UNCHANGED <<granted, invocations>>

Grant(r) ==
    /\ Move(r, IF r \in HighRisk THEN {"waiting"} ELSE {"absent"}, "granted")
    /\ granted' = granted \cup {r}
    /\ UNCHANGED invocations

\* A rejection, or all the confirmations one listing finds overdue.
Refuse(S) ==
    /\ \A r \in S : phase[r] = "waiting"
    /\ phase' = [r \in Requests |-> IF r \in S THEN "refused" ELSE phase[r]]
    /\ UNCHANGED <<granted, invocations>>

Stop(r) == Move(r, {"waiting", "granted"}, "stopped") /\ UNCHANGED <<granted, invocations>>

Invoke(r) ==
    /\ r \in granted /\ invocations[r] = 0
    /\ invocations' = [invocations EXCEPT ![r] = 1]
    /\ UNCHANGED <<phase, granted>>

Succeed(r) ==
    /\ invocations[r] = 1
    /\ Move(r, {"granted"}, "succeeded")
    /\ UNCHANGED <<granted, invocations>>

Next ==
    \/ \E r \in Requests : Ask(r) \/ Grant(r) \/ Stop(r) \/ Invoke(r) \/ Succeed(r)
    \/ \E S \in SUBSET Requests : Refuse(S)

Spec == Init /\ [][Next]_lifecycleVars
=============================================================================
