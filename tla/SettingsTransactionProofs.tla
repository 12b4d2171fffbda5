---------------------- MODULE SettingsTransactionProofs ----------------------
(***************************************************************************)
(* Theorems about saves and recoveries of the settings, for any slots,     *)
(* references, secrets and callers, and any failures and restarts.         *)
(***************************************************************************)
EXTENDS SettingsTransaction, TLAPS

\* What the disk and the key ring satisfy between any two accesses to them.
DiskInv == SecretsPresent /\ NothingOrphaned /\ CleanupIsSafe

\* The references of a prepared save: new ones are not in use, and all others
\* are retained.
Prepared ==
    /\ DOMAIN fresh \cap file.refs = {}
    /\ DOMAIN fresh \subseteq final.refs
    /\ final.refs \subseteq file.refs \cup DOMAIN fresh

\* What the transaction in progress relies on at each of its stages.
StageInv ==
    /\ stage \in {"load", "journal"} => ~journal.open
    /\ stage = "cleanup" => /\ journal.open
                            /\ todo \subseteq Cleanup
                            /\ ~failed => Stored \cap Cleanup \subseteq todo
    /\ stage \in {"journal", "secrets"} => Prepared
    /\ stage = "secrets" => /\ journal = [open |-> TRUE, old |-> Obsolete, new |-> DOMAIN fresh,
                                          target |-> final.refs]
                            /\ todo \subseteq DOMAIN fresh
                            /\ \A r \in DOMAIN fresh \ todo : vault[r] = fresh[r]
    /\ stage = "purge" => /\ journal.open /\ Committed
                          /\ todo \subseteq journal.old
                          /\ Stored \cap journal.old \subseteq todo

\* Who runs the transaction, and over which snapshot.
CallerInv ==
    /\ process = "down" => stage = "idle"
    /\ process = "starting" => stage \in {"recover", "cleanup"}
    /\ process = "serving" /\ stage # "idle" => caller \in Callers
    /\ stage \in {"journal", "secrets"} => file = held[caller]

-----------------------------------------------------------------------------
(* Types                                                                   *)

\* What a prepared save writes has the types of settings and of secrets.
LEMMA PreparedTypes ==
    ASSUME TypeOK, NEW d \in Promise!Drafts, NEW v \in [DOMAIN d.given -> Versions]
    PROVE  /\ FinalSettings(d, v) \in Settings
           /\ DOMAIN NewSecrets(d, v) \subseteq Refs
           /\ NewSecrets(d, v) \in [DOMAIN NewSecrets(d, v) -> Secrets]
           /\ \A r \in DOMAIN NewSecrets(d, v) : r[1] \in DOMAIN d.given
<1> DEFINE N == {<<s, v[s]>> : s \in DOMAIN d.given}
<1>1. /\ d.body \in Bodies /\ DOMAIN d.given \subseteq Slots
      /\ d.given \in [DOMAIN d.given -> Secrets]
    BY DEF Promise!Drafts
<1>2. N \subseteq Refs /\ \A r \in N : r[1] \in DOMAIN d.given
    BY <1>1 DEF Refs
<1>3. OneEach(FinalSettings(d, v).refs)
    <2>1. OneEach(N)
        BY DEF OneEach
    <2>2. OneEach(file.refs)
        BY DEF TypeOK, Settings
    <2> QED
        BY <1>2, <2>1, <2>2 DEF OneEach, FinalSettings
<1>4. FinalSettings(d, v) \in Settings
    BY <1>1, <1>2, <1>3 DEF FinalSettings, Settings, TypeOK
<1>5. NewSecrets(d, v) \in [N -> Secrets] /\ DOMAIN NewSecrets(d, v) = N
    BY <1>1, <1>2 DEF NewSecrets
<1> QED
    BY <1>2, <1>4, <1>5

\* The initial values have their types.
LEMMA TypeInit == Init => TypeOK
<1> SUFFICES ASSUME Init PROVE TypeOK
    OBVIOUS
<1>1. Default \in Settings /\ Closed \in Journals
    BY DefaultAssumption DEF Default, Settings, Closed, Journals, OneEach
<1>2. NoSecrets \in [{} -> Secrets] /\ DOMAIN NoSecrets = {}
    BY DEF NoSecrets
<1> QED
    BY <1>1, <1>2 DEF Init, TypeOK, Stage

\* Ends resets the variables of a transaction.
LEMMA EndsTypes ==
    ASSUME Ends
    PROVE  /\ stage' \in Stage /\ caller' \in Callers \cup {"nobody"} /\ final' \in Settings
           /\ DOMAIN fresh' \subseteq Refs /\ fresh' \in [DOMAIN fresh' -> Secrets]
           /\ todo' \in SUBSET Refs /\ failed' \in BOOLEAN
<1>1. Default \in Settings
    BY DefaultAssumption DEF Default, Settings, OneEach
<1>2. NoSecrets \in [{} -> Secrets] /\ DOMAIN NoSecrets = {}
    BY DEF NoSecrets
<1> QED
    BY <1>1, <1>2 DEF Ends, Stage

\* Every step keeps the types, the validity of the journal included.
LEMMA TypeStep == TypeOK /\ StageInv /\ [Next]_vars => TypeOK'
<1> SUFFICES ASSUME TypeOK, StageInv, [Next]_vars PROVE TypeOK'
    OBVIOUS
<1>j. Closed \in Journals
    BY DEF Closed, Journals, OneEach
<1>c. Cleanup \subseteq Refs
    BY DEF Cleanup, TypeOK, Journals
<1>v. \A r \in Refs : vault' = [vault EXCEPT ![r] = Absent] => vault' \in [Refs -> Secrets \cup {Absent}]
    BY DEF TypeOK
<1>r. ASSUME Raises, file' \in Settings, journal' \in Journals,
             vault' \in [Refs -> Secrets \cup {Absent}]
      PROVE  TypeOK'
    BY <1>r, EndsTypes DEF Raises, TypeOK
<1>d. ASSUME Recovered, file' \in Settings, journal' \in Journals,
             vault' \in [Refs -> Secrets \cup {Absent}]
      PROVE  TypeOK'
    <2>1. CASE process = "starting"
        BY <1>d, <2>1, EndsTypes DEF Recovered, TypeOK
    <2>2. CASE process # "starting"
        BY <1>d, <2>2 DEF Recovered, Goes, TypeOK, Stage
    <2> QED
        BY <2>1, <2>2
<1>1. CASE \E c \in Callers : Load(c) \/ Save(c)
    BY <1>1 DEF Load, Save, TypeOK, diskVars, txVars, Stage
<1>2. CASE Start
    BY <1>2 DEF Start, TypeOK, diskVars, Stage
<1>3. CASE Recover
    <2>1. file' \in Settings /\ journal' \in Journals /\ vault' \in [Refs -> Secrets \cup {Absent}]
        BY <1>3 DEF Recover, diskVars, TypeOK
    <2>2. CASE Goes("cleanup") /\ todo' = Cleanup /\ UNCHANGED <<final, fresh, failed>>
        BY <2>1, <2>2, <1>c DEF Goes, TypeOK, Stage
    <2> QED
        BY <1>3, <2>1, <2>2, <1>r, <1>d DEF Recover
<1>4. CASE CleanedUp
    <2>1. file' \in Settings /\ journal' \in Journals /\ vault' \in [Refs -> Secrets \cup {Absent}]
        BY <1>4, <1>j DEF CleanedUp, TypeOK
    <2> QED
        BY <1>4, <2>1, <1>r, <1>d DEF CleanedUp
<1>5. CASE Prepare
    <2>1. PICK d \in Promise!Drafts : \E v \in [DOMAIN d.given -> Versions] : PrepareWith(d, v)
        BY <1>5 DEF Prepare
    <2>2. PICK v \in [DOMAIN d.given -> Versions] : PrepareWith(d, v)
        BY <2>1
    <2>3. final' \in Settings /\ DOMAIN fresh' \subseteq Refs /\ fresh' \in [DOMAIN fresh' -> Secrets]
        BY <2>2, PreparedTypes DEF PrepareWith
    <2> QED
        BY <2>2, <2>3 DEF PrepareWith, Goes, TypeOK, diskVars, Stage
<1>6. CASE Refuse
    BY <1>6, <1>r DEF Refuse, diskVars, TypeOK
<1>7. CASE WriteJournal
    <2> DEFINE J == [open |-> TRUE, old |-> Obsolete, new |-> DOMAIN fresh, target |-> final.refs]
    <2>1. J \in Journals
        BY <1>7 DEF WriteJournal, StageInv, Prepared, Obsolete, TypeOK, Journals, Settings
    <2>2. file' \in Settings /\ journal' \in Journals /\ vault' \in [Refs -> Secrets \cup {Absent}]
        BY <1>7, <2>1 DEF WriteJournal, TypeOK
    <2> QED
        BY <1>7, <2>2, <1>r DEF WriteJournal, Goes, TypeOK, Stage
<1>8. CASE Commit
    <2>1. file' \in Settings /\ journal' \in Journals /\ vault' \in [Refs -> Secrets \cup {Absent}]
        BY <1>8 DEF Commit, TypeOK
    <2>2. Obsolete \subseteq Refs
        BY DEF Obsolete, TypeOK, Settings
    <2> QED
        BY <1>8, <2>1, <2>2, <1>r DEF Commit, Goes, TypeOK, Stage
<1>9. CASE Return
    <2>1. file' \in Settings /\ journal' \in Journals /\ vault' \in [Refs -> Secrets \cup {Absent}]
        BY <1>9, <1>j DEF Return, TypeOK
    <2>2. CASE held' = [held EXCEPT ![caller] = final] /\ Ends /\ UNCHANGED process
        BY <2>1, <2>2, EndsTypes DEF TypeOK
    <2> QED
        BY <1>9, <2>1, <2>2, <1>r DEF Return
<1>10. CASE \E r \in Refs : CleanUp(r)
    BY <1>10, <1>v DEF CleanUp, TypeOK
<1>11. CASE \E r \in Refs : StoreSecret(r)
    <2>1. PICK r \in Refs : StoreSecret(r)
        BY <1>11
    <2>2. fresh[r] \in Secrets
        BY <2>1 DEF StoreSecret, StageInv, TypeOK
    <2>3. file' \in Settings /\ journal' \in Journals /\ vault' \in [Refs -> Secrets \cup {Absent}]
        BY <2>1, <2>2 DEF StoreSecret, TypeOK
    <2> QED
        BY <2>1, <2>3, <1>r DEF StoreSecret, TypeOK
<1>12. CASE \E r \in Refs : Purge(r)
    <2>1. PICK r \in Refs : Purge(r)
        BY <1>12
    <2>2. file' \in Settings /\ journal' \in Journals /\ vault' \in [Refs -> Secrets \cup {Absent}]
        BY <2>1, <1>v DEF Purge, TypeOK
    <2> QED
        BY <2>1, <2>2, <1>r DEF Purge, TypeOK
<1>13. CASE Crash
    BY <1>13, EndsTypes DEF Crash, diskVars, TypeOK
<1>14. CASE UNCHANGED vars
    BY <1>14 DEF vars, diskVars, txVars, TypeOK
<1> QED
    BY <1>1, <1>2, <1>3, <1>4, <1>5, <1>6, <1>7, <1>8, <1>9, <1>10, <1>11, <1>12, <1>13, <1>14
       DEF Next

-----------------------------------------------------------------------------
(* The disk, the key ring and the stages                                   *)

Inv == TypeOK /\ DiskInv /\ StageInv /\ CallerInv

\* Nothing is stored, journalled or in progress at first.
LEMMA InvInit == Init => Inv
<1> SUFFICES ASSUME Init PROVE Inv
    OBVIOUS
<1>1. DiskInv
    BY DEF Init, DiskInv, SecretsPresent, NothingOrphaned, CleanupIsSafe, Stored, Default, Closed
<1>2. StageInv /\ CallerInv
    BY DEF Init, StageInv, CallerInv
<1> QED
    BY <1>1, <1>2, TypeInit DEF Inv

\* A call that has ended owes nothing.
LEMMA EndsStage == Ends => StageInv'
BY DEF Ends, StageInv

\* Nothing but an access to the disk or the key ring concerns DiskInv.
LEMMA SameDisk == DiskInv /\ UNCHANGED diskVars => DiskInv'
BY DEF DiskInv, SecretsPresent, NothingOrphaned, CleanupIsSafe, Stored, Cleanup, Committed, diskVars

\* What the key ring holds after one entry was deleted ...
LEMMA Deleted ==
    ASSUME TypeOK, NEW r \in Refs, vault' \in {vault, [vault EXCEPT ![r] = Absent]}
    PROVE  /\ Stored' \subseteq Stored /\ Stored \ {r} \subseteq Stored'
           /\ vault'[r] = Absent => r \notin Stored'
BY DEF TypeOK, Stored

\* ... and after one was written: no other entry changes.
LEMMA Written ==
    ASSUME TypeOK, NEW r \in DOMAIN fresh, vault' \in {vault, [vault EXCEPT ![r] = fresh[r]]}
    PROVE  /\ Stored \subseteq Stored' /\ Stored' \subseteq Stored \cup {r}
           /\ \A q \in Refs \ {r} : vault'[q] = vault[q]
<1>1. fresh[r] \in Secrets /\ r \in Refs
    BY DEF TypeOK
<1> QED
    BY <1>1, AbsentAssumption DEF TypeOK, Stored

\* Recovery: only references out of use are deleted, and the journal goes when
\* they are all gone.
LEMMA RecoveryDisk ==
    ASSUME TypeOK, DiskInv, StageInv, (\E r \in Refs : CleanUp(r)) \/ CleanedUp
    PROVE  DiskInv'
<1>1. CASE \E r \in Refs : CleanUp(r)
    <2>p. PICK r \in Refs : CleanUp(r)
        BY <1>1
    <2>1. Cleanup' = Cleanup /\ UNCHANGED <<file, journal>>
        BY <2>p DEF CleanUp, Cleanup, Committed
    <2>2. r \notin file.refs
        BY <2>p DEF CleanUp, StageInv, DiskInv, CleanupIsSafe
    <2>3. Stored' \subseteq Stored /\ Stored \ {r} \subseteq Stored'
        BY <2>p, Deleted DEF CleanUp
    <2> QED
        BY <2>1, <2>2, <2>3 DEF DiskInv, SecretsPresent, NothingOrphaned, CleanupIsSafe
<1>2. CASE CleanedUp
    <2>1. UNCHANGED file /\ Stored' = Stored
        BY <1>2 DEF CleanedUp, Stored
    <2>2. CASE UNCHANGED journal
        BY <1>2, <2>2, SameDisk DEF CleanedUp, diskVars
    <2>3. CASE ~failed /\ journal' = Closed
        <3>1. Stored \cap Cleanup = {}
            BY <1>2, <2>3 DEF CleanedUp, StageInv
        <3> QED
            BY <2>1, <2>3, <3>1 DEF DiskInv, SecretsPresent, NothingOrphaned, CleanupIsSafe, Closed
    <2> QED
        BY <1>2, <2>2, <2>3 DEF CleanedUp
<1> QED
    BY <1>1, <1>2

\* Up to the commit the file keeps its references; the journal names the new.
LEMMA SaveDisk ==
    ASSUME TypeOK, DiskInv, StageInv, (\E r \in Refs : StoreSecret(r)) \/ WriteJournal
    PROVE  DiskInv'
<1>1. CASE WriteJournal
    <2>1. UNCHANGED file /\ Stored' = Stored
        BY <1>1 DEF WriteJournal, Stored
    <2>2. CASE UNCHANGED journal
        BY <1>1, <2>2, SameDisk DEF WriteJournal, diskVars
    <2>3. CASE journal' = [open |-> TRUE, old |-> Obsolete, new |-> DOMAIN fresh,
                           target |-> final.refs]
        <3>1. Stored \subseteq file.refs
            BY <1>1 DEF WriteJournal, StageInv, DiskInv, NothingOrphaned
        <3>2. Cleanup' \cap file.refs = {}
            BY <1>1, <2>1, <2>3
            DEF WriteJournal, StageInv, Prepared, Cleanup, Committed, Obsolete
        <3> QED
            BY <2>1, <2>3, <3>1, <3>2 DEF DiskInv, SecretsPresent, NothingOrphaned, CleanupIsSafe
    <2> QED
        BY <1>1, <2>2, <2>3 DEF WriteJournal
<1>2. CASE \E r \in Refs : StoreSecret(r)
    <2>p. PICK r \in Refs : StoreSecret(r)
        BY <1>2
    <2>1. r \in DOMAIN fresh /\ UNCHANGED <<file, journal>> /\ Cleanup' = Cleanup
        BY <2>p DEF StoreSecret, StageInv, Cleanup, Committed
    <2>2. Stored \subseteq Stored' /\ Stored' \subseteq Stored \cup {r}
        BY <2>p, <2>1, Written DEF StoreSecret
    <2>3. journal.open /\ r \in file.refs \cup Cleanup
        BY <2>p, <2>1 DEF StoreSecret, StageInv, Prepared, Cleanup, Committed
    <2> QED
        BY <2>1, <2>2, <2>3 DEF DiskInv, SecretsPresent, NothingOrphaned, CleanupIsSafe
<1> QED
    BY <1>1, <1>2

\* The commit turns what was new into what is in use, and what was in use and is
\* not retained into what is to be deleted.
LEMMA CommitDisk ==
    ASSUME TypeOK, DiskInv, StageInv, Commit
    PROVE  DiskInv' /\ (file' = final => Committed' /\ journal'.open /\ journal'.old = Obsolete)
<1>1. UNCHANGED journal /\ Stored' = Stored
    BY DEF Commit, Stored
<1>2. /\ journal = [open |-> TRUE, old |-> Obsolete, new |-> DOMAIN fresh, target |-> final.refs]
      /\ \A r \in DOMAIN fresh : vault[r] = fresh[r]
      /\ Prepared
    BY DEF Commit, StageInv
<1>f. DOMAIN fresh \subseteq Stored
    BY <1>2, AbsentAssumption DEF TypeOK, Stored
<1>3. CASE file' = final
    <2>1. Committed' /\ Cleanup' = Obsolete
        BY <1>1, <1>2, <1>3 DEF Committed, Cleanup
    <2>2. Stored \subseteq file.refs \cup DOMAIN fresh
        BY <1>2 DEF DiskInv, NothingOrphaned, Cleanup, Committed, Prepared, Obsolete
    <2>3. final.refs \subseteq Stored
        BY <1>2, <1>f DEF DiskInv, SecretsPresent, Prepared
    <2>4. Stored \subseteq final.refs \cup Obsolete
        BY <1>2, <2>2 DEF Obsolete, Prepared
    <2> QED
        BY <1>1, <1>2, <1>3, <2>1, <2>3, <2>4
        DEF DiskInv, SecretsPresent, NothingOrphaned, CleanupIsSafe, Obsolete
<1>4. CASE file' = file /\ file # final
    BY <1>4, SameDisk DEF Commit, diskVars
<1> QED
    BY <1>3, <1>4 DEF Commit

\* After it, what is deleted is out of use, and the journal goes last.
LEMMA PurgeDisk ==
    ASSUME TypeOK, DiskInv, StageInv, (\E r \in Refs : Purge(r)) \/ Return
    PROVE  DiskInv'
<1>1. CASE \E r \in Refs : Purge(r)
    <2>p. PICK r \in Refs : Purge(r)
        BY <1>1
    <2>1. Cleanup' = Cleanup /\ UNCHANGED <<file, journal>>
        BY <2>p DEF Purge, Cleanup, Committed
    <2>2. r \notin file.refs
        BY <2>p DEF Purge, StageInv, DiskInv, CleanupIsSafe, Cleanup
    <2>3. Stored' \subseteq Stored /\ Stored \ {r} \subseteq Stored'
        BY <2>p, Deleted DEF Purge
    <2> QED
        BY <2>1, <2>2, <2>3 DEF DiskInv, SecretsPresent, NothingOrphaned, CleanupIsSafe
<1>2. CASE Return
    <2>1. UNCHANGED file /\ Stored' = Stored
        BY <1>2 DEF Return, Stored
    <2>2. CASE UNCHANGED journal
        BY <1>2, <2>2, SameDisk DEF Return, diskVars
    <2>3. CASE journal' = Closed
        <3>1. Stored \cap Cleanup = {}
            BY <1>2 DEF Return, StageInv, Cleanup
        <3> QED
            BY <2>1, <2>3, <3>1 DEF DiskInv, SecretsPresent, NothingOrphaned, CleanupIsSafe, Closed
    <2> QED
        BY <1>2, <2>2, <2>3 DEF Return
<1> QED
    BY <1>1, <1>2

\* No step endangers the secrets in use or leaves one unknown to the journal.
LEMMA DiskStep == TypeOK /\ DiskInv /\ StageInv /\ [Next]_vars => DiskInv'
<1> SUFFICES ASSUME TypeOK, DiskInv, StageInv, [Next]_vars PROVE DiskInv'
    OBVIOUS
<1>1. CASE (\E c \in Callers : Load(c) \/ Save(c)) \/ Start \/ Recover \/ Refuse \/ Crash
    BY <1>1, SameDisk DEF Load, Save, Start, Recover, Refuse, Crash
<1>2. CASE Prepare
    <2>1. UNCHANGED diskVars
        BY <1>2 DEF Prepare, PrepareWith
    <2> QED
        BY <2>1, SameDisk
<1>3. CASE UNCHANGED vars
    BY <1>3, SameDisk DEF vars
<1>4. CASE CleanedUp \/ \E r \in Refs : CleanUp(r)
    BY <1>4, RecoveryDisk
<1>5. CASE WriteJournal \/ \E r \in Refs : StoreSecret(r)
    BY <1>5, SaveDisk
<1>7. CASE Return \/ \E r \in Refs : Purge(r)
    BY <1>7, PurgeDisk
<1>6. CASE Commit
    BY <1>6, CommitDisk
<1> QED
    BY <1>1, <1>2, <1>3, <1>4, <1>5, <1>6, <1>7 DEF Next

\* Each stage leaves what the next relies on.
LEMMA StageStep == TypeOK /\ DiskInv /\ StageInv /\ [Next]_vars => StageInv'
<1> SUFFICES ASSUME TypeOK, DiskInv, StageInv, [Next]_vars PROVE StageInv'
    OBVIOUS
<1>e. Raises => StageInv'
    BY EndsStage DEF Raises
<1>s. ASSUME UNCHANGED <<diskVars, final, fresh, todo, failed>>, UNCHANGED stage PROVE StageInv'
    BY <1>s DEF StageInv, Prepared, Cleanup, Committed, Obsolete, Stored, diskVars
<1>1. CASE \E c \in Callers : Load(c)
    BY <1>1, <1>s DEF Load, txVars
<1>2. CASE (\E c \in Callers : Save(c)) \/ Start
    BY <1>2 DEF Save, Start, StageInv
<1>d. ASSUME ~journal'.open, Recovered PROVE StageInv'
    BY <1>d, EndsStage DEF Recovered, Goes, StageInv
<1>3. CASE Recover
    <2>1. CASE journal.open /\ Goes("cleanup") /\ todo' = Cleanup /\ UNCHANGED diskVars
        BY <2>1 DEF Goes, StageInv, Cleanup, Committed, diskVars
    <2> QED
        BY <1>3, <2>1, <1>d, <1>e DEF Recover, diskVars
<1>4. CASE CleanedUp
    BY <1>4, <1>d, <1>e DEF CleanedUp, Closed
<1>5. CASE Prepare
    <2>1. PICK d \in Promise!Drafts : \E v \in [DOMAIN d.given -> Versions] : PrepareWith(d, v)
        BY <1>5 DEF Prepare
    <2>2. PICK v \in [DOMAIN d.given -> Versions] : PrepareWith(d, v)
        BY <2>1
    <2>3. DOMAIN NewSecrets(d, v) = {<<s, v[s]>> : s \in DOMAIN d.given}
        BY DEF NewSecrets
    <2>4. Prepared'
        BY <2>2, <2>3 DEF PrepareWith, FinalSettings, Unused, Prepared, diskVars
    <2> QED
        BY <2>2, <2>4 DEF PrepareWith, Goes, StageInv, diskVars
<1>6. CASE Refuse \/ Crash
    BY <1>6, <1>e, EndsStage DEF Refuse, Crash
<1>7. CASE WriteJournal
    <2>1. CASE journal'.open /\ Goes("secrets") /\ todo' = DOMAIN fresh /\ UNCHANGED <<final, fresh>>
        <3>1. journal' = [open |-> TRUE, old |-> Obsolete, new |-> DOMAIN fresh,
                          target |-> final.refs]
            BY <1>7, <2>1 DEF WriteJournal, StageInv
        <3>2. Prepared' /\ Obsolete' = Obsolete
            BY <1>7, <2>1 DEF WriteJournal, StageInv, Prepared, Obsolete
        <3> QED
            BY <2>1, <3>1, <3>2 DEF Goes, StageInv
    <2> QED
        BY <1>7, <2>1, <1>e DEF WriteJournal
<1>8. CASE Commit
    <2>1. CASE file' = final /\ Goes("purge") /\ todo' = Obsolete
        <3>1. Committed' /\ journal'.open /\ journal'.old = Obsolete
            BY <1>8, <2>1, CommitDisk
        <3>2. Stored' \cap journal'.old \subseteq Obsolete
            BY <3>1
        <3> QED
            BY <2>1, <3>1, <3>2 DEF Goes, StageInv
    <2> QED
        BY <1>8, <2>1, <1>e DEF Commit
<1>9. CASE Return
    BY <1>9, <1>e, EndsStage DEF Return
<1>10. CASE \E r \in Refs : CleanUp(r)
    <2>1. PICK r \in Refs : CleanUp(r)
        BY <1>10
    <2>2. Cleanup' = Cleanup /\ UNCHANGED <<file, journal, stage>>
        BY <2>1 DEF CleanUp, Cleanup, Committed
    <2>3. Stored' \subseteq Stored /\ (~failed' => r \notin Stored')
        BY <2>1, Deleted DEF CleanUp
    <2> QED
        BY <2>1, <2>2, <2>3 DEF CleanUp, StageInv
<1>11. CASE \E r \in Refs : StoreSecret(r)
    <2>1. PICK r \in Refs : StoreSecret(r)
        BY <1>11
    <2>2. \A q \in Refs \ {r} : vault'[q] = vault[q]
        BY <2>1, Written DEF StoreSecret, StageInv
    <2>3. CASE vault'[r] = fresh[r] /\ todo' = todo \ {r} /\ UNCHANGED <<stage, final, fresh>>
        BY <2>1, <2>2, <2>3 DEF StoreSecret, StageInv, Prepared, Obsolete, TypeOK
    <2> QED
        BY <2>1, <2>3, <1>e DEF StoreSecret
<1>12. CASE \E r \in Refs : Purge(r)
    <2>1. PICK r \in Refs : Purge(r)
        BY <1>12
    <2>2. Stored' \subseteq Stored /\ (vault'[r] = Absent => r \notin Stored')
        BY <2>1, Deleted DEF Purge
    <2>3. CASE vault'[r] = Absent /\ todo' = todo \ {r} /\ UNCHANGED <<stage, final, fresh>>
        BY <2>1, <2>2, <2>3 DEF Purge, StageInv, Committed
    <2> QED
        BY <2>1, <2>3, <1>e DEF Purge
<1>13. CASE UNCHANGED vars
    BY <1>13, <1>s DEF vars, txVars
<1> QED
    BY <1>1, <1>2, <1>3, <1>4, <1>5, <1>6, <1>7, <1>8, <1>9, <1>10, <1>11, <1>12, <1>13 DEF Next

\* A caller keeps its snapshot while its save is in progress.
LEMMA CallerStep == TypeOK /\ StageInv /\ CallerInv /\ [Next]_vars => CallerInv'
<1> SUFFICES ASSUME TypeOK, StageInv, CallerInv, [Next]_vars PROVE CallerInv'
    OBVIOUS
<1>e. Ends /\ process' \in {"down", "serving", process} /\ process' # "starting" => CallerInv'
    BY DEF Ends, CallerInv
<1>r. Raises => CallerInv'
    BY <1>e DEF Raises, TypeOK
<1>s. ASSUME UNCHANGED <<held, process, caller, file>>,
             stage' # "idle", stage # "idle",
             process = "starting" => stage' \in {"recover", "cleanup"},
             stage' \in {"journal", "secrets"} => file = held[caller]
      PROVE  CallerInv'
    BY <1>s DEF CallerInv
<1>d. Recovered /\ stage # "idle" /\ UNCHANGED file => CallerInv'
    BY <1>s, <1>e DEF Recovered, Goes
<1>1. CASE \E c \in Callers : Load(c)
    BY <1>1 DEF Load, CallerInv, TypeOK, diskVars, txVars
<1>2. CASE (\E c \in Callers : Save(c)) \/ Start
    BY <1>2 DEF Save, Start, CallerInv
<1>3. CASE Recover
    BY <1>3, <1>d, <1>r, <1>s DEF Recover, Goes, diskVars
<1>4. CASE CleanedUp
    BY <1>4, <1>d, <1>r DEF CleanedUp
<1>5. CASE Prepare
    <2>1. stage = "load" /\ UpToDate /\ Goes("journal") /\ UNCHANGED diskVars
        BY <1>5 DEF Prepare, PrepareWith
    <2> QED
        BY <2>1, <1>s DEF Goes, UpToDate, CallerInv, diskVars
<1>6. CASE Refuse \/ Crash
    BY <1>6, <1>r, <1>e DEF Refuse, Crash
<1>7. CASE WriteJournal
    BY <1>7, <1>r, <1>s DEF WriteJournal, Goes, CallerInv
<1>8. CASE Commit
    BY <1>8, <1>r DEF Commit, Goes, CallerInv
<1>9. CASE Return
    BY <1>9, <1>r, <1>e DEF Return, CallerInv
<1>10. CASE \E r \in Refs : CleanUp(r) \/ StoreSecret(r) \/ Purge(r)
    BY <1>10, <1>r DEF CleanUp, StoreSecret, Purge, CallerInv
<1>11. CASE UNCHANGED vars
    BY <1>11 DEF vars, diskVars, txVars, CallerInv
<1> QED
    BY <1>1, <1>2, <1>3, <1>4, <1>5, <1>6, <1>7, <1>8, <1>9, <1>10, <1>11 DEF Next

\* The four parts together are inductive.
LEMMA InvStep == Inv /\ [Next]_vars => Inv'
BY TypeStep, DiskStep, StageStep, CallerStep DEF Inv

\* The invariant holds of every behaviour.
LEMMA AlwaysInv == Spec => []Inv
BY InvInit, InvStep, PTL DEF Spec

\* Settings, journal, key ring and the transaction in progress keep their types;
\* above all, every journal written can be read back.
THEOREM SettingsTypes == Spec => []TypeOK
<1>1. Inv => TypeOK
    BY DEF Inv
<1> QED
    BY <1>1, AlwaysInv, PTL

\* Whatever fails and whenever the process dies, the secrets in use are in the
\* key ring, those not in use are known to the journal, and no recovery is ever
\* asked to delete one in use.
THEOREM SecretsSafe == Spec => []SecretsKept
<1>1. Inv => SecretsKept
    BY DEF Inv, DiskInv, SecretsKept
<1> QED
    BY <1>1, AlwaysInv, PTL

\* A save replaces only the settings its caller held.
THEOREM UpdatesNotLost == Spec => NoLostUpdate
<1>1. Inv /\ [Next]_vars => [file' # file => held[caller] = file]_vars
    <2> SUFFICES ASSUME Inv, Next, file' # file PROVE held[caller] = file
        BY DEF vars, diskVars
    <2>1. Commit
        BY DEF Next, Load, Save, Start, Recover, CleanedUp, Prepare, PrepareWith, Refuse,
               WriteJournal, Return, CleanUp, StoreSecret, Purge, Crash, diskVars
    <2> QED
        BY <2>1 DEF Commit, Inv, CallerInv
<1> QED
    BY <1>1, AlwaysInv, PTL DEF Spec, NoLostUpdate

-----------------------------------------------------------------------------
(* Saves are atomic                                                        *)

\* The secrets that a save in progress will leave in force.
Promised == [r \in Refs |-> IF r \in DOMAIN fresh THEN fresh[r] ELSE vault[r]]

\* A configuration is what the secrets of its own references make it.
LEMMA SameSecrets ==
    ASSUME NEW s, NEW k, NEW l, \A r \in s.refs : k[r] = l[r]
    PROVE  Resolved(s, k) = Resolved(s, l)
<1>1. ASSUME NEW x \in Slots
      PROVE  {k[r] : r \in {q \in s.refs : q[1] = x}} = {l[r] : r \in {q \in s.refs : q[1] = x}}
    OBVIOUS
<1> QED
    BY <1>1 DEF Resolved

\* Initially nobody saves, and no slot has a secret.
LEMMA PromiseInit == Init => Promise!Init
<1> SUFFICES ASSUME Init PROVE Promise!Init
    OBVIOUS
<1>1. ASSUME NEW x \in Slots PROVE {vault[r] : r \in {q \in file.refs : q[1] = x}} = {}
    BY DEF Init, Default
<1>2. Resolved(file, vault) = [body |-> DefaultBody, secret |-> [x \in Slots |-> {}]]
    BY <1>1 DEF Resolved, Init, Default
<1>3. InProgress = {}
    BY DEF InProgress, Init
<1> QED
    BY <1>2, <1>3 DEF Promise!Init

\* What a prepared save will install is the update that its draft asks for.
LEMMA PrepareSubmits ==
    ASSUME Inv, NEW d \in Promise!Drafts, NEW v \in [DOMAIN d.given -> Versions], PrepareWith(d, v)
    PROVE  Promise!Submit(d)
<1> DEFINE N == {<<x, v[x]>> : x \in DOMAIN d.given}
           At(R, x) == {q \in R : q[1] = x}
<1>1. /\ d.body \in Bodies /\ DOMAIN d.given \subseteq Slots /\ d.deleted \subseteq Slots
      /\ d.given \in [DOMAIN d.given -> Secrets] /\ d.deleted \cap DOMAIN d.given = {}
    BY DEF Promise!Drafts
<1>2. /\ UNCHANGED <<file, vault>> /\ final' = FinalSettings(d, v) /\ fresh' = NewSecrets(d, v)
      /\ stage = "load" /\ stage' = "journal"
    BY DEF PrepareWith, Goes, diskVars
<1>3. /\ N \subseteq Refs /\ DOMAIN fresh' = N
      /\ \A r \in N : r[1] \in DOMAIN d.given /\ fresh'[r] = d.given[r[1]]
    BY <1>1, <1>2 DEF NewSecrets, Refs
<1>4. file.refs \subseteq Refs
    BY DEF Inv, TypeOK, Settings
<1>5. /\ final'.body = d.body
      /\ final'.refs = {r \in file.refs : r[1] \notin d.deleted \cup DOMAIN d.given} \cup N
    BY <1>2 DEF FinalSettings
<1>6. /\ final'.refs \subseteq Refs
      /\ \A r \in final'.refs : Promised'[r] = IF r \in N THEN d.given[r[1]] ELSE vault[r]
    BY <1>2, <1>3, <1>4, <1>5 DEF Promised
<1>7. ASSUME NEW x \in Slots
      PROVE  {Promised'[r] : r \in At(final'.refs, x)} =
             IF x \in DOMAIN d.given THEN {d.given[x]}
             ELSE IF x \in d.deleted THEN {} ELSE {vault[r] : r \in At(file.refs, x)}
    <2>1. CASE x \in DOMAIN d.given
        <3>1. At(final'.refs, x) = {<<x, v[x]>>}
            BY <2>1, <1>5
        <3>2. <<x, v[x]>> \in N
            BY <2>1
        <3>3. Promised'[<<x, v[x]>>] = d.given[x]
            BY <3>2, <1>5, <1>6
        <3> QED
            BY <2>1, <3>1, <3>3
    <2>2. CASE x \in d.deleted
        <3>1. At(final'.refs, x) = {}
            BY <2>2, <1>1, <1>5
        <3> QED
            BY <2>2, <1>1, <3>1
    <2>3. CASE x \notin d.deleted \cup DOMAIN d.given
        <3>1. At(final'.refs, x) = At(file.refs, x)
            BY <2>3, <1>3, <1>5
        <3>2. \A r \in At(file.refs, x) : Promised'[r] = vault[r]
            BY <2>3, <3>1, <1>3, <1>6
        <3> QED
            BY <2>3, <3>1, <3>2
    <2> QED
        BY <2>1, <2>2, <2>3
<1>8. InProgress = {} /\ InProgress' = {Resolved(final', Promised')}
    BY <1>2 DEF InProgress, Promised
<1>9. Resolved(final', Promised') = Promise!Updated(Resolved(file, vault), d)
    BY <1>5, <1>7 DEF Resolved, Promise!Updated
<1> QED
    BY <1>2, <1>8, <1>9 DEF Promise!Submit

\* A step that leaves the file and its secrets alone changes no configuration.
LEMMA SameConfig ==
    ASSUME UNCHANGED file, \A r \in file.refs : vault'[r] = vault[r]
    PROVE  Resolved(file, vault)' = Resolved(file, vault)
<1>1. Resolved(file, vault') = Resolved(file, vault)
    BY SameSecrets
<1> QED
    BY <1>1 DEF Resolved

\* Every other step of a save gives it up or stutters, but for the commit.
LEMMA PromiseStep == Inv /\ [Next]_vars => [Promise!Next]_(Promise!atomicVars)
<1> SUFFICES ASSUME Inv, [Next]_vars PROVE [Promise!Next]_(Promise!atomicVars)
    OBVIOUS
<1> USE DEF Promise!atomicVars
<1>g. ASSUME Resolved(file, vault)' = Resolved(file, vault), stage' \notin {"journal", "secrets"}
      PROVE  Promise!Next
    <2>1. InProgress' = {}
        BY <1>g DEF InProgress
    <2>2. Promise!GiveUp
        BY <1>g, <2>1 DEF Promise!GiveUp
    <2> QED
        BY <2>2 DEF Promise!Next
<1>e. ASSUME UNCHANGED <<file, vault>> PROVE Resolved(file, vault)' = Resolved(file, vault)
    BY <1>e DEF Resolved
<1>s. ASSUME UNCHANGED <<file, vault, stage, final, fresh>> PROVE [Promise!Next]_(Promise!atomicVars)
    <2>1. InProgress' = InProgress
        BY <1>s DEF InProgress, Resolved
    <2> QED
        BY <1>s, <1>e, <2>1
<1>r. ASSUME Raises \/ Ends, Resolved(file, vault)' = Resolved(file, vault)
      PROVE  Promise!Next
    BY <1>r, <1>g DEF Raises, Ends
<1>1. CASE \E c \in Callers : Load(c)
    BY <1>1, <1>s DEF Load, diskVars, txVars
<1>2. CASE (\E c \in Callers : Save(c)) \/ Start
    BY <1>2, <1>e, <1>g DEF Save, Start, diskVars
<1>3. CASE Recover \/ CleanedUp
    <2>1. UNCHANGED <<file, vault>>
        BY <1>3 DEF Recover, CleanedUp, diskVars
    <2>2. stage' \notin {"journal", "secrets"}
        BY <1>3 DEF Recover, CleanedUp, Recovered, Raises, Ends, Goes
    <2> QED
        BY <2>1, <2>2, <1>e, <1>g
<1>5. CASE Prepare
    <2>1. PICK d \in Promise!Drafts : \E v \in [DOMAIN d.given -> Versions] : PrepareWith(d, v)
        BY <1>5 DEF Prepare
    <2>2. PICK v \in [DOMAIN d.given -> Versions] : PrepareWith(d, v)
        BY <2>1
    <2> QED
        BY <2>2, PrepareSubmits DEF Promise!Next
<1>6. CASE Refuse \/ Crash
    BY <1>6, <1>e, <1>r DEF Refuse, Crash, diskVars
<1>7. CASE WriteJournal
    <2>1. CASE Goes("secrets") /\ UNCHANGED <<final, fresh>>
        <3>1. InProgress' = InProgress
            BY <1>7, <2>1 DEF WriteJournal, Goes, InProgress, Resolved
        <3> QED
            BY <1>7, <3>1, <1>e DEF WriteJournal
    <2> QED
        BY <1>7, <2>1, <1>e, <1>r DEF WriteJournal
<1>8. CASE Commit
    <2>1. stage' \notin {"journal", "secrets"} /\ UNCHANGED vault
        BY <1>8 DEF Commit, Raises, Ends, Goes
    <2>2. CASE file' = final
        <3>1. /\ final.refs \subseteq Refs
              /\ \A r \in final.refs : Promised[r] = vault[r]
            BY <1>8 DEF Commit, Inv, StageInv, TypeOK, Settings, Promised
        <3>2. Resolved(final, vault) = Resolved(final, Promised)
            BY <3>1, SameSecrets
        <3>3. InProgress = {Resolved(final, Promised)} /\ InProgress' = {}
            BY <1>8, <2>1 DEF Commit, InProgress, Promised
        <3>4. Resolved(file, vault)' = Resolved(final, vault)
            BY <2>1, <2>2 DEF Resolved
        <3>5. Promise!TakeEffect
            BY <3>2, <3>3, <3>4 DEF Promise!TakeEffect
        <3> QED
            BY <3>5 DEF Promise!Next
    <2>3. CASE UNCHANGED file
        BY <2>1, <2>3, <1>e, <1>g
    <2> QED
        BY <1>8, <2>2, <2>3 DEF Commit
<1>9. CASE Return
    BY <1>9, <1>e, <1>r DEF Return
<1>10. CASE \E r \in Refs : CleanUp(r) \/ Purge(r)
    <2>1. PICK r \in Refs : CleanUp(r) \/ Purge(r)
        BY <1>10
    <2>2. r \notin file.refs
        BY <2>1 DEF CleanUp, Purge, Inv, StageInv, DiskInv, CleanupIsSafe, Cleanup
    <2>3. UNCHANGED file /\ \A q \in file.refs : vault'[q] = vault[q]
        BY <2>1, <2>2 DEF CleanUp, Purge, Inv, TypeOK, Settings
    <2>4. stage' \notin {"journal", "secrets"}
        BY <2>1 DEF CleanUp, Purge, Raises, Ends
    <2> QED
        BY <2>3, <2>4, SameConfig, <1>g
<1>11. CASE \E r \in Refs : StoreSecret(r)
    <2>1. PICK r \in Refs : StoreSecret(r)
        BY <1>11
    <2>2. r \in DOMAIN fresh /\ r \notin file.refs /\ stage = "secrets"
        BY <2>1 DEF StoreSecret, Inv, StageInv, Prepared
    <2>3. \A q \in Refs \ {r} : vault'[q] = vault[q]
        BY <2>1, <2>2, Written DEF StoreSecret, Inv
    <2>4. UNCHANGED file /\ \A q \in file.refs : vault'[q] = vault[q]
        BY <2>1, <2>2, <2>3 DEF StoreSecret, Inv, TypeOK, Settings
    <2>5. CASE UNCHANGED <<stage, final, fresh>>
        <3>1. Promised' = Promised
            BY <2>2, <2>3, <2>5 DEF Promised
        <3>2. InProgress' = {Resolved(final, Promised')} /\ InProgress = {Resolved(final, Promised)}
            BY <2>2, <2>5 DEF InProgress, Promised, Resolved
        <3> QED
            BY <2>4, <3>1, <3>2, SameConfig
    <2>6. CASE Raises
        BY <2>4, <2>6, SameConfig, <1>r
    <2> QED
        BY <2>1, <2>5, <2>6 DEF StoreSecret
<1>12. CASE UNCHANGED vars
    BY <1>12, <1>s DEF vars, diskVars, txVars
<1> QED
    BY <1>1, <1>2, <1>3, <1>5, <1>6, <1>7, <1>8, <1>9, <1>10, <1>11, <1>12 DEF Next

\* Saves of the settings implement atomic updates of a configuration whose
\* secrets are part of it: one takes effect as a whole or not at all.
THEOREM SavesAreAtomic == Spec => ImplementsAtomic
BY PromiseInit, PromiseStep, AlwaysInv, PTL DEF Spec, ImplementsAtomic, Promise!Spec
=============================================================================
