-------------------------- MODULE MCCloudOperations --------------------------
(* CloudOperations with two runs of the monitor that may overlap, a kill or  *)
(* a wall clock that is set, and two deployments.  Two failures make a       *)
(* restart due and a window is two minutes, so that a third restart may be   *)
(* due within one.                                                           *)
EXTENDS CloudOperations, TLC

Alike == Permutations(Monitors)

Settings == {-2, 2}

\* Bounds: nothing is deployed where the clock is set or a restart is not on
\* record, a window sees three restarts, and a time grows as old as it matters.
Bounded ==
    /\ target = 0 \/ (jumps = 0 /\ missed = <<>>)
    /\ Len(recent) <= MaxRecoveries + 1
    /\ \A i \in DOMAIN private.stamps :
           private.stamps[i] <= Window + 1 + (IF jumps < MaxJumps /\ target = 0 THEN 1 ELSE 0)
=============================================================================
