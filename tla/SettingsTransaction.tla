------------------------ MODULE SettingsTransaction -------------------------
(***************************************************************************)
(* SettingsTransactionCoordinator of backend/settings/transactions.py over *)
(* SettingsFileStore (the settings file and the save journal) and          *)
(* SecretStore (the operating system's key ring).                          *)
(*                                                                         *)
(* _TRANSACTION_LOCK lets one save or recovery run at a time, so there is  *)
(* one transaction in the state.  Every access to the disk or the key ring *)
(* is a step of its own; it may raise, before or after its effect, and the *)
(* process may die between any two.                                        *)
(***************************************************************************)
CONSTANTS
    Slots,        \* _SECRET_SLOTS
    Versions,     \* what makes a reference unique within its slot
    Secrets,      \* secret values
    Absent,       \* what the key ring answers for a reference it does not hold
    Bodies,       \* the settings but for the references of secrets
    DefaultBody,  \* PersistedSettings()
    Callers       \* those that hold a snapshot and save over it

ASSUME AbsentAssumption == Absent \notin Secrets
ASSUME DefaultAssumption == DefaultBody \in Bodies

\* A reference carries the prefix of its slot (is_safe_secret_reference).
Refs == Slots \X Versions

\* A slot has one reference at most.
OneEach(R) == \A q, r \in R : q[1] = r[1] => q = r

Settings == [body : Bodies, refs : {R \in SUBSET Refs : OneEach(R)}]
Default == [body |-> DefaultBody, refs |-> {}]

\* validate_reference_invariants(): any other journal cannot be read back.
Journals ==
    {j \in [open : BOOLEAN, old : SUBSET Refs, new : SUBSET Refs, target : SUBSET Refs] :
       j.old \cap j.target = {} /\ j.new \subseteq j.target /\ OneEach(j.target)}
Closed == [open |-> FALSE, old |-> {}, new |-> {}, target |-> {}]

\* A function on references that maps none.
NoSecrets == [r \in {} |-> Absent]

VARIABLES
    file,     \* settings.json
    journal,  \* settings.save-journal.json
    vault,    \* the key ring
    held,     \* the snapshot each caller took
    process,  \* the backend: "down", "starting" (in lifespan) or "serving"
    stage,    \* where the transaction in progress stands
    caller,   \* whose save it is
    final,    \* final_settings
    fresh,    \* new_secrets
    todo,     \* references still to be written or deleted
    failed    \* cleanup_failed

diskVars == <<file, journal, vault>>
txVars == <<stage, caller, final, fresh, todo, failed>>
vars == <<diskVars, held, process, txVars>>

Stored == {r \in Refs : vault[r] # Absent}

\* The references a recovery deletes: those the settings file no longer has if
\* it was saved, those it never had if not.
Committed == file.refs = journal.target
Cleanup == IF Committed THEN journal.old ELSE journal.new

\* A reader resolves each reference to what the key ring holds; a save in
\* progress will install the secrets it brings and those it retains.
Resolved(s, known) ==
    [body |-> s.body,
     secret |-> [x \in Slots |-> {known[r] : r \in {q \in s.refs : q[1] = x}}]]

InProgress ==
    IF stage \in {"journal", "secrets"}
    THEN {Resolved(final, [r \in Refs |-> IF r \in DOMAIN fresh THEN fresh[r] ELSE vault[r]])}
    ELSE {}

\* What it is to save the settings.
Promise == INSTANCE AtomicSettings WITH
    config <- Resolved(file, vault), pending <- InProgress

Init ==
    /\ file = Default /\ journal = Closed /\ vault = [r \in Refs |-> Absent]
    /\ held = [c \in Callers |-> Default]
    /\ process = "down"
    /\ stage = "idle" /\ caller = "nobody"
    /\ final = Default /\ fresh = NoSecrets /\ todo = {} /\ failed = FALSE

\* The call is over, whatever it did.
Ends ==
    /\ stage' = "idle" /\ caller' = "nobody"
    /\ final' = Default /\ fresh' = NoSecrets /\ todo' = {} /\ failed' = FALSE

\* It raises: a save reports SettingsTransactionError, a recovery during the
\* start of the backend stops it.
Raises ==
    /\ Ends
    /\ process' = IF process = "starting" THEN "down" ELSE process
    /\ UNCHANGED held

Goes(to) == stage' = to /\ UNCHANGED <<held, process, caller>>

-----------------------------------------------------------------------------
(* Callers.  load() needs no lock: the file is replaced atomically.        *)

Load(c) ==
    /\ process = "serving" /\ caller # c
    /\ held' = [held EXCEPT ![c] = file]
    /\ UNCHANGED <<diskVars, process, txVars>>

Save(c) ==
    /\ process = "serving" /\ stage = "idle"
    /\ stage' = "recover" /\ caller' = c
    /\ UNCHANGED <<diskVars, held, process, final, fresh, todo, failed>>

\* lifespan() recovers before it serves anything.
Start ==
    /\ process = "down"
    /\ process' = "starting" /\ stage' = "recover"
    /\ UNCHANGED <<diskVars, held, caller, final, fresh, todo, failed>>

-----------------------------------------------------------------------------
(* _recover_locked()                                                       *)

Recovered ==
    IF process = "starting"
    THEN Ends /\ process' = "serving" /\ UNCHANGED held
    ELSE Goes("load") /\ UNCHANGED <<final, fresh, todo, failed>>

Recover ==
    /\ stage = "recover"
    /\ \/ ~journal.open /\ Recovered
       \/ /\ journal.open /\ Cleanup \cap file.refs = {}
          /\ Goes("cleanup")
          /\ todo' = Cleanup
          /\ UNCHANGED <<final, fresh, failed>>
       \/ Raises
    /\ UNCHANGED diskVars

\* A failing deletion does not stop the others.
CleanUp(r) ==
    /\ stage = "cleanup" /\ r \in todo
    /\ vault' \in {vault, [vault EXCEPT ![r] = Absent]}
    /\ \/ vault'[r] = Absent /\ UNCHANGED failed
       \/ failed' = TRUE
    /\ todo' = todo \ {r}
    /\ UNCHANGED <<file, journal, held, process, stage, caller, final, fresh>>

CleanedUp ==
    /\ stage = "cleanup" /\ todo = {}
    /\ journal' \in {journal, Closed}
    /\ failed => journal' = journal
    /\ \/ ~failed /\ journal' = Closed /\ Recovered
       \/ Raises
    /\ UNCHANGED <<file, vault>>

-----------------------------------------------------------------------------
(* save()                                                                  *)

\* Retained and deleted slots; a replaced one gets an unused reference.
FinalSettings(d, v) ==
    [body |-> d.body,
     refs |-> {r \in file.refs : r[1] \notin d.deleted \cup DOMAIN d.given}
                \cup {<<s, v[s]>> : s \in DOMAIN d.given}]

\* The secrets to be stored, by their new references.
NewSecrets(d, v) == [r \in {<<s, v[s]>> : s \in DOMAIN d.given} |-> d.given[r[1]]]

\* Variant: whatever the factory returns is taken for unused.
AnyReference(r) == TRUE

\* _allocate_reference()
Unused(r) == r \notin file.refs /\ vault[r] = Absent

\* Variant: a save does not look at what is stored now.
AnySnapshot == TRUE

\* Not a "stale settings snapshot".
UpToDate == file = held[caller]

PrepareWith(d, v) ==
    /\ stage = "load" /\ UpToDate
    /\ \A r \in DOMAIN NewSecrets(d, v) : Unused(r)
    /\ final' = FinalSettings(d, v)
    /\ fresh' = NewSecrets(d, v)
    /\ Goes("journal")
    /\ UNCHANGED <<diskVars, todo, failed>>

Prepare == \E d \in Promise!Drafts : \E v \in [DOMAIN d.given -> Versions] : PrepareWith(d, v)

\* A stale snapshot, an invalid replacement or a reference that collides.
Refuse == stage = "load" /\ Raises /\ UNCHANGED diskVars

Obsolete == file.refs \ final.refs

WriteJournal ==
    /\ stage = "journal"
    /\ journal' \in {journal, [open |-> TRUE, old |-> Obsolete, new |-> DOMAIN fresh,
                               target |-> final.refs]}
    /\ \/ /\ journal'.open
          /\ Goes("secrets")
          /\ todo' = DOMAIN fresh
          /\ UNCHANGED <<final, fresh, failed>>
       \/ Raises
    /\ UNCHANGED <<file, vault>>

StoreSecret(r) ==
    /\ stage = "secrets" /\ r \in todo
    /\ vault' \in {vault, [vault EXCEPT ![r] = fresh[r]]}
    /\ \/ /\ vault'[r] = fresh[r]
          /\ todo' = todo \ {r}
          /\ UNCHANGED <<held, process, stage, caller, final, fresh, failed>>
       \/ Raises
    /\ UNCHANGED <<file, journal>>

\* Variant: the settings file is saved before its secrets are.
CommitEarly ==
    /\ stage = "secrets"
    /\ file' = final
    /\ Goes("purge")
    /\ todo' = Obsolete
    /\ UNCHANGED <<journal, vault, final, fresh, failed>>

Commit ==
    /\ stage = "secrets" /\ todo = {}
    /\ file' \in {file, final}
    /\ \/ /\ file' = final
          /\ Goes("purge")
          /\ todo' = Obsolete
          /\ UNCHANGED <<final, fresh, failed>>
       \/ Raises
    /\ UNCHANGED <<journal, vault>>

Purge(r) ==
    /\ stage = "purge" /\ r \in todo
    /\ vault' \in {vault, [vault EXCEPT ![r] = Absent]}
    /\ \/ /\ vault'[r] = Absent
          /\ todo' = todo \ {r}
          /\ UNCHANGED <<held, process, stage, caller, final, fresh, failed>>
       \/ Raises
    /\ UNCHANGED <<file, journal>>

\* The caller is given what was saved.
Return ==
    /\ stage = "purge" /\ todo = {}
    /\ journal' \in {journal, Closed}
    /\ \/ /\ journal' = Closed
          /\ held' = [held EXCEPT ![caller] = final]
          /\ Ends /\ UNCHANGED process
       \/ Raises
    /\ UNCHANGED <<file, vault>>

-----------------------------------------------------------------------------
\* The process dies; what a caller holds (a browser's revision) does not.
Crash ==
    /\ process # "down"
    /\ process' = "down"
    /\ Ends
    /\ UNCHANGED <<diskVars, held>>

Next ==
    \/ \E c \in Callers : Load(c) \/ Save(c)
    \/ Start \/ Recover \/ CleanedUp
    \/ Prepare \/ Refuse \/ WriteJournal \/ Commit \/ Return
    \/ \E r \in Refs : CleanUp(r) \/ StoreSecret(r) \/ Purge(r)
    \/ Crash

Spec == Init /\ [][Next]_vars

-----------------------------------------------------------------------------
Stage == {"idle", "recover", "cleanup", "load", "journal", "secrets", "purge"}

TypeOK ==
    /\ file \in Settings /\ journal \in Journals /\ vault \in [Refs -> Secrets \cup {Absent}]
    /\ held \in [Callers -> Settings]
    /\ process \in {"down", "starting", "serving"}
    /\ stage \in Stage /\ caller \in Callers \cup {"nobody"}
    /\ final \in Settings
    /\ DOMAIN fresh \subseteq Refs /\ fresh \in [DOMAIN fresh -> Secrets]
    /\ todo \in SUBSET Refs /\ failed \in BOOLEAN

\* Whatever fails and whenever the process dies, every secret the settings file
\* refers to is in the key ring (docs/superpowers/specs/
\* 2026-08-01-web-settings-interface-design.md:259).
SecretsPresent == file.refs \subseteq Stored

\* No secret is left behind in the key ring that neither the settings file nor
\* the journal of an unfinished save knows of.
NothingOrphaned ==
    Stored \subseteq file.refs \cup (IF journal.open THEN Cleanup ELSE {})

\* A journal never tells the recovery to delete a reference in use: the check
\* that makes _recover_locked() refuse one is never what stops it.
CleanupIsSafe == journal.open => Cleanup \cap file.refs = {}

\* The key ring holds what the settings refer to, and what it holds besides is
\* on record to be deleted, and is safe to delete.
SecretsKept == SecretsPresent /\ NothingOrphaned /\ CleanupIsSafe

\* The settings file is replaced only by a save whose caller held just what it
\* replaces, however many callers, failures and restarts came in between.
NoLostUpdate == [][file' # file => held[caller] = file]_vars

\* File and key ring together behave as one configuration that is saved
\* atomically, secrets included, however a save or a recovery is cut short.
ImplementsAtomic == Promise!Spec
=============================================================================
