--------------------------- MODULE CloudOperations ---------------------------
(***************************************************************************)
(* The two scripts that act on the containers of the cloud host:           *)
(* cloud_monitor.py, which a timer runs every minute and which restarts    *)
(* NapCat when QQ stays disconnected, and deploy.sh, which installs a      *)
(* version and rolls back to the one before.                               *)
(*                                                                         *)
(* The scripts are processes of the host: one may be killed between any    *)
(* two steps, which releases its file locks and leaves its files.  A time  *)
(* is kept as its age in minutes by the wall clock, which may be set while *)
(* anything goes on: a time that is yet to come has a negative age.  Of    *)
(* the monitor's state the model keeps what decides about restarts; what   *)
(* is only shown (the overall state, the alert, the back-ups) is left out. *)
(***************************************************************************)
EXTENDS Integers, Sequences, FiniteSets

CONSTANTS
    Monitors,       \* runs of the monitor that may overlap
    Threshold,      \* FAILURES_BEFORE_RECOVERY
    Window,         \* RECOVERY_WINDOW_SECONDS
    MaxRecoveries,  \* MAX_RECOVERIES_IN_WINDOW
    MaxCount,       \* the most failures a state that is read may count
    Lag,            \* how long a run may take, up to its restart
    Jumps,          \* by how much the wall clock may be set, either way
    MaxDeploys, MaxKills, MaxJumps

NoOne == "no one"
Deployment == "deployment"

ASSUME CloudAssumption ==
    /\ {NoOne, Deployment} \cap Monitors = {}
    /\ {Threshold, Window, MaxRecoveries, MaxCount} \subseteq Nat \ {0}
    /\ Threshold <= MaxCount /\ Lag \in 0 .. Window
    /\ {MaxDeploys, MaxKills, MaxJumps} \subseteq Nat
    /\ Jumps \subseteq Int

Versions == 0 .. MaxDeploys

VARIABLES
    onebot,       \* what /api/health/onebot answers
    private,      \* the monitor's private state file
    monitorLock, deployLock,   \* who holds the flock
    pc,           \* where each run of the monitor stands
    run,          \* its local state
    deploy,       \* where the deployment stands
    target,       \* the version it installs: deployments are numbered
    previous,     \* previous_sha
    head,         \* the version checked out
    running,      \* the version the containers run
    good,         \* the versions that work
    recent,       \* history: the restarts of NapCat, by their true age
    missed,       \* history: those of them no file tells of, or tells the age of
    checks,       \* history: checks in a row that are on file as disconnected
    unsettled,    \* history: a deployment was cut short and none succeeded since
    kills, jumps

release == <<deploy, target, previous, head, running, good, unsettled>>
history == <<recent, missed, checks>>
vars == <<onebot, private, monitorLock, deployLock, pc, run, release, history, kills, jumps>>

Blank == [failures |-> 0, stamps |-> <<>>]
Fresh == [at |-> 0, shift |-> 0, seen |-> "unknown", state |-> Blank, epoch |-> 0,
          restarted |-> FALSE]

Init ==
    /\ onebot = "connected"
    /\ private = Blank
    /\ monitorLock = NoOne /\ deployLock = NoOne
    /\ pc = [m \in Monitors |-> "idle"] /\ run = [m \in Monitors |-> Fresh]
    /\ deploy = "idle" /\ target = 0 /\ previous = 0 /\ head = 0 /\ running = 0
    /\ good \in {S \in SUBSET Versions : 0 \in S}
    /\ recent = <<>> /\ missed = <<>> /\ checks = 0 /\ unsettled = FALSE
    /\ kills = 0 /\ jumps = 0

At(m, label) == pc[m] = label
Go(m, label) == pc' = [pc EXCEPT ![m] = label]

-----------------------------------------------------------------------------
(* The world.                                                              *)

\* The elements of s at the positions K, in their order: SelectSeq without its
\* recursion, which could not be reasoned about.
Nth(K, j) == CHOOSE i \in K : Cardinality({k \in K : k <= i}) = j
Kept(s, K) == [j \in 1 .. Cardinality(K) |-> s[Nth(K, j)]]

\* _prune_recoveries
Prune(ages) == Kept(ages, {i \in DOMAIN ages : ages[i] <= Window})

\* A minute passes.
Shifted(ages, d) == [i \in DOMAIN ages |-> ages[i] + d]
Older(ages) == Prune(Shifted(ages, 1))
Tick ==
    /\ \A m \in Monitors : pc[m] # "idle" => run[m].at < Lag
    /\ run' = [m \in Monitors |-> IF pc[m] = "idle" THEN run[m]
                  ELSE [run[m] EXCEPT !.at = @ + 1, !.state.stamps = Shifted(@, 1)]]
    /\ private' = [private EXCEPT !.stamps = Shifted(@, 1)]
    /\ recent' = Older(recent) /\ missed' = Older(missed)
    /\ UNCHANGED <<onebot, monitorLock, deployLock, pc, release, checks, kills, jumps>>

\* The wall clock is set: what is on file, and what a run knows of it, is that
\* much older or younger, and no longer tells when NapCat was restarted.
SetClock(d) ==
    /\ jumps < MaxJumps /\ jumps' = jumps + 1
    /\ private' = [private EXCEPT !.stamps = Shifted(@, d)]
    /\ run' = [m \in Monitors |-> IF pc[m] = "idle" THEN run[m]
                  ELSE [run[m] EXCEPT !.shift = @ + d, !.state.stamps = Shifted(@, d)]]
    /\ missed' = recent
    /\ UNCHANGED <<onebot, monitorLock, deployLock, pc, release, recent, checks, kills>>

\* The connection comes and goes.  What else the backend may answer, disabled
\* or misconfigured, counts as a connection does.
Answers == {"connected", "disconnected"}
Change ==
    /\ onebot' \in Answers \ {onebot}
    /\ UNCHANGED <<private, monitorLock, deployLock, pc, run, release, history, kills, jumps>>

-----------------------------------------------------------------------------
(* run_once()                                                              *)

\* acquire_monitor_lock: a second run raises and ends.
Alone(m) == monitorLock = NoOne

\* _safe_previous drops the restarts that are yet to come ...
Past(ages) == Kept(ages, {i \in DOMAIN ages : ages[i] >= 0})

\* ... which, with evaluate's pruning, is what is made of the state on file.
Sane(file) == [failures |-> IF file.failures <= MaxCount THEN file.failures ELSE 0,
               stamps |-> Prune(Past(file.stamps))]

\* The lock, the time and the state on file.
Begin(m) ==
    /\ At(m, "idle") /\ Alone(m) /\ monitorLock' = m
    /\ run' = [run EXCEPT ![m] = [Fresh EXCEPT !.state = Sane(private)]]
    /\ Go(m, "observe")
    /\ UNCHANGED <<onebot, private, deployLock, release, history, kills, jumps>>

\* Variant: a connection does not count.
FailuresKept(failures, seen) == IF seen = "disconnected" THEN failures + 1 ELSE failures
\* evaluate: consecutiveOnebotFailures.  A backend that is not ready, or gives
\* no answer, leaves the count as it is.
Failures(failures, seen) ==
    CASE seen = "disconnected" -> failures + 1
      [] seen = "unknown" -> failures
      [] OTHER -> 0

\* evaluate: restart_napcat
MayRestart(s) == s.failures >= Threshold /\ Len(s.stamps) < MaxRecoveries

\* evaluate
Evaluated(s, seen) == [s EXCEPT !.failures = Failures(@, seen)]

\* observe, and evaluate what is seen: there may be no answer.
Observe(m) ==
    /\ At(m, "observe")
    /\ \E seen \in {onebot, "unknown"} :
          LET s == Evaluated(run[m].state, seen) IN
          /\ run' = [run EXCEPT ![m].seen = seen, ![m].state = s]
          /\ Go(m, IF seen = "disconnected" /\ MayRestart(s) THEN "due" ELSE "write")
    /\ UNCHANGED <<onebot, private, monitorLock, deployLock, release, history, kills, jumps>>

\* deployment_lock_busy: takes the lock, or is refused it ...
Probe(m) ==
    /\ At(m, "due")
    /\ IF deployLock = NoOne
       THEN /\ deployLock' = m /\ Go(m, "probing")
            /\ run' = [run EXCEPT ![m].epoch = target]
       ELSE Go(m, "write") /\ UNCHANGED <<deployLock, run>>
    /\ UNCHANGED <<onebot, private, monitorLock, release, history, kills, jumps>>

\* ... and gives it back.
Probed(m) ==
    /\ At(m, "probing") /\ deployLock' = NoOne /\ Go(m, "recheck")
    /\ UNCHANGED <<onebot, private, monitorLock, run, release, history, kills, jumps>>

\* observe_onebot once more: if it is connected again, or there is no answer,
\* the check is evaluated as one that saw it connected.
Recheck(m) ==
    /\ At(m, "recheck")
    /\ \/ onebot = "disconnected" /\ Go(m, "restart") /\ UNCHANGED run
       \/ /\ run' = [run EXCEPT ![m].seen = "connected",
                        ![m].state = Evaluated(@, "connected")]
          /\ Go(m, "write")
    /\ UNCHANGED <<onebot, private, monitorLock, deployLock, release, history, kills, jumps>>

\* Variant: the restart is not recorded.
NotRecorded(s, at) == [s EXCEPT !.failures = 0]
\* record_recovery
Recorded(s, at) == [failures |-> 0, stamps |-> Append(s.stamps, at)]

\* restart_napcat: docker compose restart.  The time on record is that at which
\* the run began, and a clock that was set since makes it a wrong one.
Restarts(told) ==
    /\ onebot' = "disconnected" /\ recent' = Append(recent, 0)
    /\ missed' = IF told THEN missed ELSE Append(missed, 0)

Restart(m) ==
    /\ At(m, "restart") /\ Restarts(run[m].shift = 0)
    /\ run' = [run EXCEPT ![m].state = Recorded(@, run[m].at + run[m].shift),
                          ![m].restarted = TRUE]
    /\ Go(m, "write")
    /\ UNCHANGED <<private, monitorLock, deployLock, release, checks, kills, jumps>>

\* The command cannot be run or exits with an error, and NapCat was restarted
\* or was not: the state is left as evaluated, with no restart recorded.
RestartFails(m) ==
    /\ At(m, "restart") /\ Go(m, "write")
    /\ Restarts(FALSE) \/ UNCHANGED <<onebot, recent, missed>>
    /\ UNCHANGED <<private, monitorLock, deployLock, run, release, checks, kills, jumps>>

\* atomic_write_json, of the private state
WritePrivate(m) ==
    /\ At(m, "write") /\ private' = run[m].state /\ Go(m, "public")
    /\ checks' = IF run[m].restarted \/ run[m].seen = "connected" THEN 0
                 ELSE IF run[m].seen = "disconnected" /\ checks < Threshold THEN checks + 1
                 ELSE checks
    /\ UNCHANGED <<onebot, monitorLock, deployLock, run, release, recent, missed, kills, jumps>>

\* ... and of the public one, the end of the run.
WritePublic(m) ==
    /\ At(m, "public")
    /\ monitorLock' = (IF monitorLock = m THEN NoOne ELSE monitorLock)
    /\ Go(m, "idle") /\ run' = [run EXCEPT ![m] = Fresh]
    /\ UNCHANGED <<onebot, private, deployLock, release, history, kills, jumps>>

\* The run is killed, or cannot write.
KillMonitor(m) ==
    /\ pc[m] # "idle" /\ kills < MaxKills /\ kills' = kills + 1
    /\ missed' = IF At(m, "write") /\ run[m].restarted THEN Append(missed, 0) ELSE missed
    /\ monitorLock' = (IF monitorLock = m THEN NoOne ELSE monitorLock)
    /\ deployLock' = (IF deployLock = m THEN NoOne ELSE deployLock)
    /\ Go(m, "idle") /\ run' = [run EXCEPT ![m] = Fresh]
    /\ UNCHANGED <<onebot, private, release, recent, checks, jumps>>

-----------------------------------------------------------------------------
(* deploy.sh                                                               *)

\* flock -n, and git rev-parse HEAD.  With the lock taken it ends at once.
DeployBegin ==
    /\ deploy = "idle" /\ target < MaxDeploys /\ target' = target + 1
    /\ IF deployLock = NoOne
       THEN deployLock' = Deployment /\ deploy' = "import" /\ previous' = head
       ELSE UNCHANGED <<deployLock, deploy, previous>>
    /\ UNCHANGED <<onebot, private, monitorLock, pc, run, head, running, good, unsettled, history, kills, jumps>>

Step(from, to) == deploy = from /\ deploy' = to
Ended == deploy' = "idle" /\ deployLock' = NoOne /\ previous' = 0
RestOfHost == <<onebot, private, monitorLock, pc, run, target, good, history, kills, jumps>>

\* The importer fails before the trap is set: nothing has changed.
ImportFails ==
    /\ deploy = "import" /\ Ended
    /\ UNCHANGED <<RestOfHost, head, running, unsettled>>

\* The backup, and git checkout of the target; either may fail.
CheckOut ==
    /\ \/ Step("import", "up") /\ head' = target
       \/ Step("import", "rollback") /\ head' = head
    /\ UNCHANGED <<RestOfHost, deployLock, previous, running, unsettled>>

\* docker compose up: it may fail, with the containers replaced or not.
Up ==
    /\ deploy = "up" /\ running' \in {running, head}
    /\ deploy' \in {"rollback"} \cup (IF running' = head THEN {"verify"} ELSE {})
    /\ UNCHANGED <<RestOfHost, deployLock, previous, head, unsettled>>

\* verify-deployment.sh startup: healthy only if the version is.
Healthy == running \in good

Verified ==
    /\ deploy = "verify" /\ Healthy /\ Ended /\ unsettled' = FALSE
    /\ UNCHANGED <<RestOfHost, head, running>>

\* The deadline of the loop.
DeadlinePasses ==
    /\ Step("verify", "rollback")
    /\ UNCHANGED <<RestOfHost, deployLock, previous, head, running, unsettled>>

\* Variant: the version before is looked up when it is needed.
BaseLate == head
\* git rev-parse HEAD, before the checkout
Base == previous

\* rollback(): the trap is off, and a command of it that fails ends the script.
RollBack ==
    /\ \/ /\ Step("rollback", "rolled") /\ head' = Base /\ running' = Base
          /\ UNCHANGED <<deployLock, previous, unsettled>>
       \/ /\ deploy = "rollback" /\ Ended /\ unsettled' = TRUE
          /\ head' \in {head, Base}
          /\ running' \in {running} \cup (IF head' = Base THEN {Base} ELSE {})
    /\ UNCHANGED RestOfHost

\* Its verification; the exit status is the failed deployment's either way.
RolledBack ==
    /\ deploy = "rolled" /\ Ended
    /\ UNCHANGED <<RestOfHost, head, running, unsettled>>

KillDeploy ==
    /\ deploy # "idle" /\ kills < MaxKills /\ kills' = kills + 1
    /\ Ended /\ unsettled' = (unsettled \/ deploy \notin {"import", "rolled"})
    /\ UNCHANGED <<onebot, private, monitorLock, pc, run, target, good, history, head, running, jumps>>

-----------------------------------------------------------------------------
DeployStep ==
    \/ DeployBegin \/ ImportFails \/ CheckOut \/ Up \/ Verified \/ DeadlinePasses
    \/ RollBack \/ RolledBack \/ KillDeploy
MonitorStep(m) ==
    \/ Begin(m) \/ Observe(m) \/ Probe(m) \/ Probed(m) \/ Recheck(m) \/ Restart(m)
    \/ RestartFails(m) \/ WritePrivate(m) \/ WritePublic(m) \/ KillMonitor(m)

Next ==
    \/ Tick \/ Change \/ DeployStep
    \/ \E d \in Jumps : SetClock(d)
    \/ \E m \in Monitors : MonitorStep(m)

Spec == Init /\ [][Next]_vars

-----------------------------------------------------------------------------
(* Properties.                                                             *)

State == {s \in [failures : 0 .. MaxCount + 1, stamps : Seq(Int)] :
            Len(s.stamps) <= MaxRecoveries}
TypeOK ==
    /\ onebot \in Answers
    /\ private \in State
    /\ monitorLock \in Monitors \cup {NoOne}
    /\ deployLock \in Monitors \cup {NoOne, Deployment}
    /\ pc \in [Monitors -> {"idle", "observe", "due", "probing", "recheck", "restart", "write",
                            "public"}]
    /\ \A m \in Monitors : /\ run[m].at \in 0 .. Lag /\ run[m].shift \in Int
                           /\ run[m].state \in State
                           /\ run[m].seen \in Answers \cup {"unknown"}
                           /\ run[m].epoch \in Versions /\ run[m].restarted \in BOOLEAN
    /\ deploy \in {"idle", "import", "up", "verify", "rollback", "rolled"}
    /\ {target, previous, head, running} \subseteq Versions
    /\ deploy # "idle" <=> deployLock = Deployment
    /\ unsettled \in BOOLEAN /\ kills \in 0 .. MaxKills /\ jumps \in 0 .. MaxJumps

Within(ages, x) == Cardinality({i \in DOMAIN ages : ages[i] \in 0 .. x})

\* NapCat is restarted at most twice in a window, less the time a run takes
\* until its restart, overlapping runs or not, but for the restarts in that time
\* that are not on file as they were: the command failed although it restarted
\* NapCat, the run was killed before it wrote, or the wall clock was set since
\* the run began (run_once, _safe_previous; the design's limit).
RestartsBounded ==
    Within(recent, Window - Lag) <= MaxRecoveries + Within(missed, Window - Lag)

\* The limit holds of what was done, and of what is on file.
LimitHolds == TypeOK /\ RestartsBounded

Restarted == recent' = Append(recent, 0)

\* NapCat is restarted only when as many checks in a row as it takes, this one
\* among them, found it disconnected, with none in between that saw it
\* connected or misconfigured and no restart on record (evaluate, record_recovery).
IsDue == Restarted => checks + 1 >= Threshold

\* A restart never falls into a deployment that was there when the monitor
\* looked at its lock (deployment_lock_busy).
MissesDeploy ==
    Restarted /\ deploy # "idle" =>
         \E m \in Monitors : At(m, "restart") /\ run[m].epoch < target

\* A restart is one that was due, and keeps out of a deployment.
RestartIsDue == [][IsDue /\ MissesDeploy]_vars

\* With no deployment at work, and none cut short, the version that is checked
\* out is the one that runs, and it is one that works (deploy.sh, rollback).
DeployedWorks == deploy = "idle" /\ ~unsettled => head = running /\ running \in good
=============================================================================
