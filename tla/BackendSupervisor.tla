-------------------------- MODULE BackendSupervisor --------------------------
(***************************************************************************)
(* The supervisor the desktop app runs its Python backend under: it uses a *)
(* service that already answers on the port, or spawns a child, waits for  *)
(* it to become ready, starts it again when it exits, a bounded number of  *)
(* times, and terminates it when the app quits.                            *)
(*                                                                         *)
(* A step is what runs between two awaits of _start, or in one timer or    *)
(* event callback.  The children, the other service that may hold the port *)
(* and the moment the app quits are the environment.                       *)
(***************************************************************************)
EXTENDS Naturals, FiniteSets

CONSTANTS
    MaxRestarts,    \* MAX_RESTARTS
    ReadyAttempts,  \* readyAttempts
    MaxChildren     \* processes the model has names for

ASSUME SupervisorAssumption ==
    /\ MaxRestarts \in Nat /\ ReadyAttempts \in Nat \ {0}
    /\ MaxChildren \in Nat \ {0}

Children == 1 .. MaxChildren
None == 0

VARIABLES
    proc,        \* each child: unborn, up, serving, ended
    notices,     \* error and exit events its handle still emits
    termed,      \* children that were sent SIGTERM
    foreign,     \* another service on the port: none, healthy or hung
    child,       \* this.child
    external,    \* this.externalBackend
    stopping,
    restartTimer,
    termTimer,   \* the child the termination timer is for
    attempts,    \* this.restartAttempts
    flow,        \* the _start that startPromise stands for
    app,         \* running, quit
    slow,        \* history: a start outlived its child by more than the timer
    orphans      \* history: children spawned after stop()

this == <<child, external, stopping, restartTimer, termTimer, attempts, flow>>
world == <<proc, notices, termed, foreign, app>>
vars == <<this, world, slow, orphans>>

Idle == [at |-> "idle"]
Alive(c) == proc[c] \in {"up", "serving"}
Healthy == foreign = "healthy" \/ \E c \in Children : proc[c] = "serving"

\* main.js: whenReady calls start(), which is at its first probe.
Init ==
    /\ proc = [c \in Children |-> "unborn"] /\ notices = [c \in Children |-> 0]
    /\ termed = {} /\ foreign \in {"none", "healthy", "hung"} /\ app = "running"
    /\ child = None /\ external = FALSE /\ stopping = FALSE
    /\ restartTimer = FALSE /\ termTimer = None /\ attempts = 0
    /\ flow = [at |-> "probing"] /\ slow = FALSE /\ orphans = {}

-----------------------------------------------------------------------------
MayRestart == attempts < MaxRestarts

\* _scheduleRestart
ScheduleRestart ==
    IF ~stopping /\ ~restartTimer /\ MayRestart
    THEN restartTimer' = TRUE /\ attempts' = attempts + 1
    ELSE UNCHANGED <<restartTimer, attempts>>

\* _terminateChild, for the child the supervisor holds or held.  exitCode is
\* also null after a death by signal; the signal and the timer are then idle.
Terminate(c) ==
    IF child = c /\ Alive(c)
    THEN /\ termed' = termed \cup {c}
         /\ termTimer' = IF termTimer = None THEN c ELSE termTimer
    ELSE UNCHANGED <<termed, termTimer>>

Running == ~stopping /\ (external \/ child # None)

-----------------------------------------------------------------------------
(* _start                                                                  *)

\* The first probe.  A service that answered may be gone when the answer is
\* read; one that does not answer costs a second.
Probed(healthy) ==
    /\ app = "running" /\ flow.at = "probing"
    /\ healthy => Healthy
    /\ flow' = [at |-> IF healthy THEN "found" ELSE "absent"]
    /\ UNCHANGED <<world, child, external, stopping, restartTimer, termTimer, attempts, slow, orphans>>

Found ==
    /\ app = "running" /\ flow.at = "found"
    /\ external' = TRUE /\ flow' = Idle
    /\ UNCHANGED <<world, child, stopping, restartTimer, termTimer, attempts, slow, orphans>>

\* Nobody answers: spawn, and look at stopping before the first probe only.
Spawn ==
    /\ app = "running" /\ flow.at = "absent"
    /\ \E c \in Children :
          /\ proc[c] = "unborn" /\ \A d \in Children : proc[d] = "unborn" => c <= d
          /\ proc' = [proc EXCEPT ![c] = "up"] /\ child' = c
          /\ flow' = IF stopping THEN Idle ELSE [at |-> "waiting", mine |-> c, attempt |-> 1]
          /\ orphans' = IF stopping THEN orphans \cup {c} ELSE orphans
    /\ external' = FALSE
    /\ UNCHANGED <<notices, termed, foreign, app, stopping, restartTimer, termTimer, attempts, slow>>

\* Variant: a spawn that throws counts as a start that failed, no more.
SpawnThrowsQuietly ==
    /\ app = "running" /\ flow.at = "absent" /\ flow' = Idle
    /\ UNCHANGED <<world, child, external, stopping, restartTimer, termTimer, attempts, slow, orphans>>
SpawnThrows ==
    /\ app = "running" /\ flow.at = "absent"
    /\ ScheduleRestart /\ flow' = Idle
    /\ UNCHANGED <<world, child, external, stopping, termTimer, slow, orphans>>

\* A probe while the child gets ready: it answers, or there is a delay and the
\* next attempt, unless the app stops, the child is lost or attempts run out.
Ready ==
    /\ app = "running" /\ flow.at = "waiting" /\ Healthy
    /\ flow' = Idle
    /\ UNCHANGED <<world, child, external, stopping, restartTimer, termTimer, attempts, slow, orphans>>

NotReady ==
    /\ app = "running" /\ flow.at = "waiting"
    /\ IF flow.attempt >= ReadyAttempts
       THEN Terminate(flow.mine) /\ flow' = Idle
       ELSE /\ flow' = IF stopping \/ child # flow.mine THEN Idle
                       ELSE [flow EXCEPT !.attempt = @ + 1]
            /\ UNCHANGED <<termed, termTimer>>
    /\ UNCHANGED <<proc, notices, foreign, app, child, external, stopping,
                   restartTimer, attempts, slow, orphans>>

-----------------------------------------------------------------------------
(* Events of a child, and the timers.                                      *)

\* Variant: whichever child it was.
AnyChild(c) == TRUE
IsMine(c) == child = c
\* Variant: the termination timer goes on.
KeepTimer == termTimer
ClearTimer == None

\* _handleChildExit, on error and on exit
HandleExit(c) ==
    /\ app = "running" /\ notices[c] > 0
    /\ notices' = [notices EXCEPT ![c] = @ - 1]
    /\ IF IsMine(c)
       THEN child' = None /\ termTimer' = ClearTimer /\ ScheduleRestart
       ELSE UNCHANGED <<child, termTimer, restartTimer, attempts>>
    /\ UNCHANGED <<proc, termed, foreign, app, external, stopping, flow, slow, orphans>>

\* A start that lost its child ends within a delay, before the timer, unless a
\* service that accepts and does not answer holds its probe up.
OutlivedChild == flow.at = "waiting" /\ child # flow.mine

\* The restart timer calls start(), which does nothing when it runs already and
\* joins a start under way.
RestartFires ==
    /\ app = "running" /\ restartTimer /\ restartTimer' = FALSE
    /\ OutlivedChild => foreign = "hung"
    /\ slow' = (slow \/ OutlivedChild)
    /\ flow' = IF ~Running /\ flow = Idle THEN [at |-> "probing"] ELSE flow
    /\ UNCHANGED <<world, child, external, stopping, termTimer, attempts, orphans>>

\* SIGKILL for a child that is still there
Kill ==
    /\ app = "running" /\ termTimer # None /\ termTimer' = None
    /\ IF child = termTimer /\ Alive(child)
       THEN proc' = [proc EXCEPT ![child] = "ended"] /\ notices' = [notices EXCEPT ![child] = 1]
       ELSE UNCHANGED <<proc, notices>>
    /\ UNCHANGED <<termed, foreign, app, child, external, stopping, restartTimer,
                   attempts, flow, slow, orphans>>

\* stop(), on before-quit
Stop ==
    /\ app = "running" /\ ~stopping
    /\ stopping' = TRUE /\ external' = FALSE /\ restartTimer' = FALSE
    /\ IF child # None THEN Terminate(child) ELSE UNCHANGED <<termed, termTimer>>
    /\ UNCHANGED <<proc, notices, foreign, app, child, attempts, flow, slow, orphans>>

-----------------------------------------------------------------------------
(* The environment.                                                        *)

ChildServes(c) ==
    /\ proc[c] = "up" /\ foreign = "none" /\ proc' = [proc EXCEPT ![c] = "serving"]
    /\ UNCHANGED <<notices, termed, foreign, app, this, slow, orphans>>

ChildHangs(c) ==
    /\ proc[c] = "serving" /\ proc' = [proc EXCEPT ![c] = "up"]
    /\ UNCHANGED <<notices, termed, foreign, app, this, slow, orphans>>

\* It exits, by itself or on SIGTERM, or could not be spawned: an exit event,
\* an error event, or both.
ChildEnds(c) ==
    /\ Alive(c) /\ proc' = [proc EXCEPT ![c] = "ended"]
    /\ \E n \in {1, 2} : notices' = [notices EXCEPT ![c] = n]
    /\ UNCHANGED <<termed, foreign, app, this, slow, orphans>>

ForeignEnds ==
    /\ foreign # "none" /\ foreign' = "none"
    /\ UNCHANGED <<proc, notices, termed, app, this, slow, orphans>>

\* Electron exits some time after stop(); no callback runs any more.
Quit ==
    /\ app = "running" /\ stopping /\ app' = "quit"
    /\ UNCHANGED <<proc, notices, termed, foreign, this, slow, orphans>>

-----------------------------------------------------------------------------
Start == (\E h \in BOOLEAN : Probed(h)) \/ Found \/ Spawn \/ SpawnThrows \/ Ready \/ NotReady

Next ==
    \/ Start \/ RestartFires \/ Kill \/ Stop \/ ForeignEnds \/ Quit
    \/ \E c \in Children : HandleExit(c) \/ ChildServes(c) \/ ChildHangs(c) \/ ChildEnds(c)

(* Timers fire, probes end by their timeout and the events of a process    *)
(* that ended are emitted.  A child need not become ready, nor obey        *)
(* SIGTERM; the user need not quit.                                        *)
Fairness ==
    /\ WF_vars(Start) /\ WF_vars(RestartFires) /\ WF_vars(Kill)
    /\ \A c \in Children : WF_vars(HandleExit(c))

Spec == Init /\ [][Next]_vars /\ Fairness

-----------------------------------------------------------------------------
(* Properties.                                                             *)

TypeOK ==
    /\ proc \in [Children -> {"unborn", "up", "serving", "ended"}]
    /\ notices \in [Children -> 0 .. 2] /\ termed \subseteq Children
    /\ foreign \in {"none", "healthy", "hung"} /\ app \in {"running", "quit"}
    /\ child \in Children \cup {None} /\ termTimer \in Children \cup {None}
    /\ {external, stopping, restartTimer, slow} \subseteq BOOLEAN
    /\ attempts \in 0 .. MaxRestarts /\ orphans \subseteq Children
    /\ flow \in [at : {"idle", "probing", "found", "absent"}]
               \cup [at : {"waiting"}, mine : Children, attempt : 1 .. ReadyAttempts]

\* Never two backends of the app's own at a time, however late the events of an
\* earlier child arrive (_handleChildExit, start).
OneBackend == \A c, d \in Children : Alive(c) /\ Alive(d) => c = d

\* A child that was told to end and has not is killed: the timer is its own, and
\* not one left over from an earlier child (_terminateChild, _handleChildExit).
KillIsDue ==
    \A c \in termed : Alive(c) /\ app = "running" => termTimer = c

\* A backend that ended is not given up before the limit: when nothing runs and
\* nobody is starting it, a restart is due or all were used.  Excepted is the
\* restart that fires while a start whose child died still waits for a probe: it
\* joins that start, which then ends (start, _scheduleRestart).
NotGivenUp ==
    app = "running" /\ ~stopping /\ ~external /\ child = None /\ flow = Idle =>
        restartTimer \/ attempts = MaxRestarts \/ slow

\* When stop() was called, every backend of the app's own has been told to end,
\* except one that a start spawned afterwards (stop, _start).
StopReachesChild ==
    stopping => \A c \in Children \ orphans : Alive(c) => c \in termed

\* Every backend of the app's own is the one it supervises or is on its way out.
Supervised == TypeOK /\ OneBackend /\ KillIsDue /\ StopReachesChild

\* A child told to end does, unless the app is gone first (the termination timer).
TerminatedEnds ==
    \A c \in Children : (c \in termed) ~> (proc[c] = "ended" \/ app = "quit")

\* README.md: on quitting, Electron terminates the backend it created.  A start
\* that is at its first probe when the app stops spawns a backend all the same.
QuitEndsBackend ==
    app = "quit" => \A c \in Children : Alive(c) => c \in termed
=============================================================================
