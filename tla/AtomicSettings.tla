--------------------------- MODULE AtomicSettings ---------------------------
(***************************************************************************)
(* What a save of the settings promises, although a file and a key ring    *)
(* cannot be written together: an update computed from the configuration   *)
(* in force takes effect as a whole, secrets included, or not at all.  A   *)
(* configuration shows the secrets themselves and not their references.    *)
(***************************************************************************)
CONSTANTS Slots, Secrets, Bodies, DefaultBody

VARIABLES
    config,   \* the configuration a reader would resolve
    pending   \* the configurations a save in progress may install: one or none

atomicVars == <<config, pending>>

\* What a save may ask for: settings without secrets, secrets to delete and
\* secrets to replace; the other slots are retained.
Drafts ==
    {d \in [body : Bodies, deleted : SUBSET Slots, given : UNION {[G -> Secrets] : G \in SUBSET Slots}] :
       d.deleted \cap DOMAIN d.given = {}}

Updated(c, d) ==
    [body |-> d.body,
     secret |-> [s \in Slots |-> IF s \in DOMAIN d.given THEN {d.given[s]}
                                 ELSE IF s \in d.deleted THEN {} ELSE c.secret[s]]]

Init ==
    /\ config = [body |-> DefaultBody, secret |-> [s \in Slots |-> {}]]
    /\ pending = {}

Submit(d) == pending = {} /\ pending' = {Updated(config, d)} /\ UNCHANGED config

TakeEffect == config' \in pending /\ pending' = {}

GiveUp == pending' = {} /\ UNCHANGED config

Next == (\E d \in Drafts : Submit(d)) \/ TakeEffect \/ GiveUp

Spec == Init /\ [][Next]_atomicVars
=============================================================================
