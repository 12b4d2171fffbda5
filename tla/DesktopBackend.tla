--------------------------- MODULE DesktopBackend ---------------------------
(***************************************************************************)
(* The supervisor of the desktop app over the backend it runs: each child  *)
(* is a process with the lifespan of an AssistantRuntime.  It listens once *)
(* that has started, SIGTERM has it close, and a crash or SIGKILL ends it  *)
(* wherever it stands.  Every step is one of the supervisor, of its world, *)
(* of the runtime, or of both at once.                                     *)
(***************************************************************************)
EXTENDS BackendSupervisor, AssistantRuntime

backendVars == <<vars, runtimeVars>>

BackendInit == Init /\ Blank

\* The process is gone and all it held with it.
Gone ==
    /\ phase' = "none" /\ built' = 0 /\ at' = 0 /\ closed' = {} /\ refused' = {}
    /\ tasks' = Dormant /\ UNCHANGED config

\* The supervisor, as far as it touches no process.
SupervisorStep ==
    /\ \/ \E h \in BOOLEAN : Probed(h)
       \/ Found \/ SpawnThrows \/ Ready \/ NotReady
       \/ RestartFires \/ Stop \/ ForeignEnds \/ Quit
       \/ \E c \in Children : HandleExit(c)
    /\ UNCHANGED runtimeVars

SpawnBackend == Spawn /\ Begin

KillBackend == Kill /\ IF proc' = proc THEN UNCHANGED runtimeVars ELSE Gone

\* The process by itself.
RuntimeStep ==
    /\ \/ Register \/ BuildRaises \/ Built \/ Unsubscribe \/ Closes \/ Refuses \/ Over
       \/ \E t \in TaskNames : StartTask(t) \/ TaskRaises(t) \/ TaskResumes(t) \/ TaskEnds(t)
    /\ UNCHANGED vars

\* It listens when it has started, unless the port is taken; it may stop
\* answering for a while.
Listens(c) == ChildServes(c) /\ IF phase = "starting" THEN Serve ELSE phase = "serving" /\ UNCHANGED runtimeVars
Hangs(c) == ChildHangs(c) /\ UNCHANGED runtimeVars

\* Starting raised or the port is taken, or SIGTERM came: it listens no more.
ShutsDown(c) ==
    /\ phase = "serving" => c \in termed
    /\ Shutdown
    /\ IF proc[c] = "serving" THEN ChildHangs(c) ELSE Alive(c) /\ UNCHANGED vars

\* It ends once its lifespan is over, or dies at any time.
Ends(c) == ChildEnds(c) /\ Gone

BackendNext ==
    \/ SupervisorStep \/ SpawnBackend \/ KillBackend \/ RuntimeStep
    \/ \E c \in Children : Listens(c) \/ Hangs(c) \/ ShutsDown(c) \/ Ends(c)

BackendSpec == BackendInit /\ [][BackendNext]_backendVars /\ Fairness
=============================================================================
