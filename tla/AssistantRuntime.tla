-------------------------- MODULE AssistantRuntime --------------------------
(***************************************************************************)
(* AssistantRuntime of backend/core/runtime.py in the lifespan of          *)
(* backend/api/app.py: one process builds what its configuration asks for, *)
(* runs its background tasks under supervise(), and gives everything back  *)
(* in the reverse order, whatever of it fails.                             *)
(***************************************************************************)
EXTENDS Naturals, Sequences, SequencesExt, FiniteSets

CONSTANTS
    Configs,      \* configurations the process may find
    MaxRefusals   \* bound on the resources whose close raises

\* mac: the platform; state, actions, report: the switches of the settings;
\* relay: the relay is configured.
ASSUME RuntimeAssumption ==
    /\ Configs \subseteq [profile : {"desktop", "cloud"}, mac : BOOLEAN, state : BOOLEAN,
                          actions : BOOLEAN, report : BOOLEAN, relay : BOOLEAN]
    /\ MaxRefusals \in Nat

VARIABLES
    config,
    phase,     \* where the lifespan stands
    built,     \* how many resources of Plan are registered in _owned_resources
    at,        \* the one a roll-back or aclose() comes to next
    closed,    \* _resource_closed
    refused,   \* those whose close raised
    tasks      \* background tasks: unborn, running, resting, cancelled, ended

runtimeVars == <<config, phase, built, at, closed, refused, tasks>>

\* Capabilities that need the state of the computer ask for it.
Valid(c) == c.state \/ ~(c.actions \/ c.report)

OwnsState(c) == c.profile = "desktop" /\ c.state /\ c.mac
OwnsReporter(c) == OwnsState(c) /\ c.report /\ c.relay

\* The resources the constructor registers, in its order.
Plan(c) ==
    (IF OwnsState(c) THEN <<"computer_state">> ELSE <<>>)
    \o (IF OwnsReporter(c) THEN <<"computer_state_reporter">> ELSE <<>>)
    \o <<"store", "tool_service", "llm", "tts", "qq_connection", "qq_channel">>

\* What the tool for the computer's state reads, of the owned resources: in the
\* cloud it reads what the endpoint was sent.
StateToolReads(c) == IF OwnsState(c) THEN {"computer_state"} ELSE {}

\* What the constructor hands to a resource, and the application to a task.
Uses(resource) ==
    CASE resource = "computer_state_reporter" -> {"computer_state"}
      [] resource = "tool_service" -> {"store"} \cup StateToolReads(config)
      [] resource = "qq_channel" -> {"store", "tool_service", "llm", "tts", "qq_connection"}
      [] OTHER -> {}

\* The scenario loop, and on a desktop the window monitor.
Tasks(c) == {"scenario-loop"} \cup (IF c.profile = "desktop" THEN {"window-monitor"} ELSE {})

TaskNames == {"scenario-loop", "window-monitor"}
Dormant == [t \in TaskNames |-> "unborn"]

Owned == ToSet(SubSeq(Plan(config), 1, built))
Given == closed \cup refused

\* No process, or one that ended.
Blank ==
    /\ config \in Configs /\ phase = "none" /\ built = 0 /\ at = 0
    /\ closed = {} /\ refused = {} /\ tasks = Dormant

-----------------------------------------------------------------------------
(* AssistantRuntime()                                                      *)

\* The process begins with the settings as they are by now.
Begin ==
    /\ config' \in Configs /\ phase' = "building" /\ built' = 0 /\ at' = 0
    /\ closed' = {} /\ refused' = {} /\ tasks' = Dormant

Register ==
    /\ phase = "building" /\ Valid(config) /\ built < Len(Plan(config))
    /\ built' = built + 1
    /\ UNCHANGED <<config, phase, at, closed, refused, tasks>>

\* Whatever raises, what is registered by then is rolled back.
BuildRaises ==
    /\ phase = "building"
    /\ phase' = "undoing" /\ at' = built
    /\ UNCHANGED <<config, built, closed, refused, tasks>>

Built ==
    /\ phase = "building" /\ Valid(config) /\ built = Len(Plan(config))
    /\ phase' = "starting"
    /\ UNCHANGED <<config, built, at, closed, refused, tasks>>

-----------------------------------------------------------------------------
(* lifespan() and supervise()                                              *)

Started == {t \in TaskNames : tasks[t] # "unborn"}

StartTask(t) ==
    /\ phase = "starting" /\ t \in Tasks(config) \ Started
    /\ t = "window-monitor" => "scenario-loop" \in Started
    /\ tasks' = [tasks EXCEPT ![t] = "running"]
    /\ UNCHANGED <<config, phase, built, at, closed, refused>>

Serve ==
    /\ phase = "starting" /\ Tasks(config) \subseteq Started
    /\ phase' = "serving"
    /\ UNCHANGED <<config, built, at, closed, refused, tasks>>

\* supervise() logs what a task raises and runs it again after five seconds.
TaskRaises(t) ==
    /\ tasks[t] = "running" /\ tasks' = [tasks EXCEPT ![t] = "resting"]
    /\ UNCHANGED <<config, phase, built, at, closed, refused>>

TaskResumes(t) ==
    /\ tasks[t] = "resting" /\ tasks' = [tasks EXCEPT ![t] = "running"]
    /\ UNCHANGED <<config, phase, built, at, closed, refused>>

\* The application is told to stop, or starting it raised: the tasks are
\* cancelled, all of them in one step.
Shutdown ==
    /\ phase \in {"starting", "serving"}
    /\ phase' = "cancelling"
    /\ tasks' = [t \in TaskNames |-> IF t \in Started THEN "cancelled" ELSE tasks[t]]
    /\ UNCHANGED <<config, built, at, closed, refused>>

TaskEnds(t) ==
    /\ tasks[t] = "cancelled" /\ tasks' = [tasks EXCEPT ![t] = "ended"]
    /\ UNCHANGED <<config, phase, built, at, closed, refused>>

\* `await task`, for each of them
AllEnded == \A t \in Started : tasks[t] = "ended"

Unsubscribe ==
    /\ phase = "cancelling" /\ AllEnded
    /\ phase' = "closing" /\ at' = built
    /\ UNCHANGED <<config, built, closed, refused, tasks>>

-----------------------------------------------------------------------------
(* aclose() and _rollback_initialization()                                 *)

\* Variant: the first resource that refuses is the last one tried.
StopsThere == 0

\* Both go on with the resource registered before the one that raised.
Onwards == at - 1

Closes ==
    /\ phase \in {"undoing", "closing"} /\ at > 0
    /\ closed' = closed \cup {Plan(config)[at]} /\ at' = at - 1
    /\ UNCHANGED <<config, phase, built, refused, tasks>>

Refuses ==
    /\ phase \in {"undoing", "closing"} /\ at > 0
    /\ Cardinality(refused) < MaxRefusals
    /\ refused' = refused \cup {Plan(config)[at]} /\ at' = Onwards
    /\ UNCHANGED <<config, phase, built, closed, tasks>>

\* The first error is raised, once everything was tried.
Over ==
    /\ phase \in {"undoing", "closing"} /\ at = 0
    /\ phase' = "over"
    /\ UNCHANGED <<config, built, at, closed, refused, tasks>>

-----------------------------------------------------------------------------
RuntimeTypeOK ==
    /\ config \in Configs
    /\ phase \in {"none", "building", "undoing", "starting", "serving", "cancelling", "closing", "over"}
    /\ built \in 0 .. Len(Plan(config)) /\ at \in 0 .. built
    /\ closed \subseteq Owned /\ refused \subseteq Owned
    /\ tasks \in [TaskNames -> {"unborn", "running", "resting", "cancelled", "ended"}]

\* Whatever the configuration and wherever building, starting or closing fails:
\* nothing is closed while a task runs or something handed it may still use it,
\* and in the end everything that was built was closed or has refused to be.
GivenBack ==
    /\ \A r \in Given :
          /\ \A t \in TaskNames : tasks[t] \in {"unborn", "ended"}
          /\ \A user \in Owned : r \in Uses(user) => user \in Given
    /\ phase = "over" => Given = Owned

\* What a process owns is what its configuration asks for, and is given back.
OwnershipHolds == RuntimeTypeOK /\ GivenBack
=============================================================================
