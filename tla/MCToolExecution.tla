-------------------------- MODULE MCToolExecution ---------------------------
(***************************************************************************)
(* ToolExecution for TLC.  The requests of a run are model values named    *)
(* for what they are: made by the model or by the desktop, of high or low  *)
(* risk.  Approving calls, cancelling calls and disconnects are            *)
(* interchangeable.                                                        *)
(***************************************************************************)
EXTENDS ToolExecution, TLC

Interchangeable ==
    Permutations(Approvers) \cup Permutations(Cancellers) \cup Permutations(Drops)

Made(R) == \E r \in R : ~At(Req(r), "idle")

Calls == {Dec(d) : d \in Deciders} \cup {Can(c) : c \in Cancellers} \cup {Drop(x) : x \in Drops}

\* Bounds: a behaviour is about the model's confirmed requests, without a restart,
\* or about the others, without a lost client; and about three calls or losses.
Bounded ==
    /\ Made(Confirmed) => restarts = 0 /\ ~Made(Requests \ Confirmed)
    /\ Made(Requests \ Confirmed) => \A x \in Drops : At(Drop(x), "idle")
    /\ Cardinality({p \in Calls : ~At(p, "idle")}) <= 3
=============================================================================
