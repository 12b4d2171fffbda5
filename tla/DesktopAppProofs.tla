-------------------------- MODULE DesktopAppProofs --------------------------
(***************************************************************************)
(* What the desktop app keeps: its supervisor and the backend it runs, for *)
(* every number of restarts, attempts and children and every configuration,*)
(* and its queue of confirmations, for any number of cards, connections    *)
(* and decisions.  A step of the app with its backend is a step of the     *)
(* supervisor or leaves it alone, so what is proved of the supervisor by   *)
(* itself holds of both together.  The queue is a system of its own.       *)
(***************************************************************************)
EXTENDS DesktopBackend, ConfirmationQueue, FiniteSetTheorems, SequenceTheorems, NaturalsInduction,
        WellFoundedInduction, TLAPS

-----------------------------------------------------------------------------
(* Types of the supervisor.                                                *)

\* The values flow takes.
Flows ==
    [at : {"idle", "probing", "found", "absent"}]
    \cup [at : {"waiting"}, mine : Children, attempt : 1 .. ReadyAttempts]

\* What a flow that waits carries, and what an idle one is.
LEMMA FlowFacts ==
    ASSUME flow \in Flows
    PROVE  /\ flow.at \in {"idle", "probing", "found", "absent", "waiting"}
           /\ flow.at = "idle" <=> flow = Idle
           /\ flow.at = "waiting" => flow.mine \in Children /\ flow.attempt \in 1 .. ReadyAttempts
BY DEF Flows, Idle

\* At the start every variable has its type.
LEMMA InitTypeOK == Init => TypeOK
<1> SUFFICES ASSUME Init PROVE TypeOK
  OBVIOUS
<1> USE DEF None
<1>1. {external, stopping, restartTimer, slow} \subseteq BOOLEAN
  BY DEF Init
<1>2. attempts \in 0 .. MaxRestarts
  BY SupervisorAssumption DEF Init
<1>3. flow \in [at : {"idle", "probing", "found", "absent"}]
  BY DEF Init
<1>4. /\ proc \in [Children -> {"unborn", "up", "serving", "ended"}]
      /\ notices \in [Children -> 0 .. 2] /\ termed \subseteq Children
      /\ foreign \in {"none", "healthy", "hung"} /\ app \in {"running", "quit"}
      /\ child \in Children \cup {None} /\ termTimer \in Children \cup {None}
      /\ orphans \subseteq Children
  BY DEF Init
<1> QED
  BY <1>1, <1>2, <1>3, <1>4 DEF TypeOK

\* A restart is counted up to the limit.
LEMMA ScheduleTyped ==
    ASSUME attempts \in 0 .. MaxRestarts, restartTimer \in BOOLEAN, ScheduleRestart
    PROVE  attempts' \in 0 .. MaxRestarts /\ restartTimer' \in BOOLEAN
<1>1. attempts' \in 0 .. MaxRestarts
  BY SupervisorAssumption DEF ScheduleRestart, MayRestart
<1>2. restartTimer' \in BOOLEAN
  BY DEF ScheduleRestart
<1> QED
  BY <1>1, <1>2

\* A step leaves every variable its type.
LEMMA StepTypeOK == TypeOK /\ [Next]_vars => TypeOK'
<1> SUFFICES ASSUME TypeOK, [Next]_vars PROVE TypeOK'
  OBVIOUS
<1> USE DEF None
<1>1. flow \in Flows
  BY DEF TypeOK, Flows
<1>2. ({external, stopping, restartTimer, slow} \subseteq BOOLEAN)'
  <2>1. external \in BOOLEAN /\ stopping \in BOOLEAN /\ restartTimer \in BOOLEAN /\ slow \in BOOLEAN
    BY DEF TypeOK
  <2>2. external' \in BOOLEAN
    BY <2>1 DEF Next, Start, Probed, Found, Spawn, SpawnThrows, Ready, NotReady, RestartFires, Kill, Stop,
       ForeignEnds, Quit, HandleExit, ChildServes, ChildHangs, ChildEnds, vars, this
  <2>3. stopping' \in BOOLEAN
    BY <2>1 DEF Next, Start, Probed, Found, Spawn, SpawnThrows, Ready, NotReady, RestartFires, Kill, Stop,
       ForeignEnds, Quit, HandleExit, ChildServes, ChildHangs, ChildEnds, vars, this
  <2>4. restartTimer' \in BOOLEAN
    BY <2>1 DEF Next, Start, Probed, Found, Spawn, SpawnThrows, Ready, NotReady, RestartFires, Kill, Stop,
       ForeignEnds, Quit, HandleExit, ChildServes, ChildHangs, ChildEnds, vars, this, ScheduleRestart
  <2>5. slow' \in BOOLEAN
    BY <2>1 DEF Next, Start, Probed, Found, Spawn, SpawnThrows, Ready, NotReady, RestartFires, Kill, Stop,
       ForeignEnds, Quit, HandleExit, ChildServes, ChildHangs, ChildEnds, vars
  <2> QED
    BY <2>2, <2>3, <2>4, <2>5
<1>3. (attempts \in 0 .. MaxRestarts)'
  <2>1. CASE attempts' = attempts
    BY <2>1 DEF TypeOK
  <2>2. CASE ScheduleRestart
    BY <2>2, ScheduleTyped DEF TypeOK
  <2> QED
    BY <2>1, <2>2 DEF Next, Start, Probed, Found, Spawn, SpawnThrows, Ready, NotReady, RestartFires, Kill, Stop,
       ForeignEnds, Quit, HandleExit, ChildServes, ChildHangs, ChildEnds, vars, this
<1>4. (flow \in Flows)'
  <2>1. Idle \in Flows /\ \A p \in {"probing", "found", "absent"} : [at |-> p] \in Flows
    BY DEF Idle, Flows
  <2>2. CASE Spawn
    <3>1. 1 \in 1 .. ReadyAttempts
      BY SupervisorAssumption
    <3>2. \A c \in Children : [at |-> "waiting", mine |-> c, attempt |-> 1] \in Flows
      BY <3>1 DEF Flows
    <3> QED
      BY <2>1, <2>2, <3>2 DEF Spawn
  <2>3. CASE NotReady
    <3>1. CASE flow.attempt >= ReadyAttempts
      BY <2>1, <2>3, <3>1 DEF NotReady
    <3>2. CASE ~(flow.attempt >= ReadyAttempts)
      <4>1. flow \in [at : {"waiting"}, mine : Children, attempt : 1 .. ReadyAttempts]
        BY <1>1, <2>3 DEF NotReady, Flows
      <4>2. flow.attempt + 1 \in 1 .. ReadyAttempts
        BY <4>1, <3>2, SupervisorAssumption
      <4>3. [flow EXCEPT !.attempt = @ + 1] \in Flows
        BY <4>1, <4>2 DEF Flows
      <4> QED
        BY <2>1, <2>3, <3>2, <4>3 DEF NotReady
    <3> QED
      BY <3>1, <3>2
  <2>4. CASE flow' = flow \/ flow' = Idle \/ \E p \in {"probing", "found", "absent"} : flow' = [at |-> p]
    BY <2>4, <2>1, <1>1
  <2> QED
    BY <2>2, <2>3, <2>4 DEF Next, Start, Probed, Found, SpawnThrows, Ready, RestartFires, Kill, Stop,
       ForeignEnds, Quit, HandleExit, ChildServes, ChildHangs, ChildEnds, vars, this
<1>5. (/\ proc \in [Children -> {"unborn", "up", "serving", "ended"}]
       /\ notices \in [Children -> 0 .. 2])'
  <2>1. CASE Spawn \/ Kill
    BY <2>1 DEF Spawn, Kill, TypeOK
  <2>2. CASE \E c \in Children : HandleExit(c) \/ ChildServes(c) \/ ChildHangs(c) \/ ChildEnds(c)
    BY <2>2 DEF HandleExit, ChildServes, ChildHangs, ChildEnds, TypeOK
  <2>3. CASE UNCHANGED <<proc, notices>>
    BY <2>3 DEF TypeOK
  <2> QED
    BY <2>1, <2>2, <2>3 DEF Next, Start, Probed, Found, SpawnThrows, Ready, NotReady, RestartFires, Stop,
       ForeignEnds, Quit, vars, world
<1>6. (/\ termed \subseteq Children /\ termTimer \in Children \cup {None})'
  <2>1. ASSUME NEW c \in Children, Terminate(c)
        PROVE  termed' \subseteq Children /\ termTimer' \in Children \cup {None}
    BY <2>1 DEF Terminate, TypeOK
  <2>2. CASE NotReady
    BY <2>1, <2>2, <1>1, FlowFacts DEF NotReady, TypeOK
  <2>3. CASE Stop
    BY <2>1, <2>3 DEF Stop, TypeOK
  <2>4. CASE termed' = termed /\ termTimer' \in {termTimer, None}
    BY <2>4 DEF TypeOK
  <2> QED
    BY <2>2, <2>3, <2>4 DEF Next, Start, Probed, Found, Spawn, SpawnThrows, Ready, RestartFires, Kill,
       ForeignEnds, Quit, HandleExit, ClearTimer, ChildServes, ChildHangs, ChildEnds, vars, world, this
<1>7. (/\ foreign \in {"none", "healthy", "hung"} /\ app \in {"running", "quit"})'
  BY DEF TypeOK, Next, Start, Probed, Found, Spawn, SpawnThrows, Ready, NotReady, RestartFires, Kill, Stop,
     ForeignEnds, Quit, HandleExit, ChildServes, ChildHangs, ChildEnds, vars, world
<1>8. (/\ child \in Children \cup {None} /\ orphans \subseteq Children)'
  BY DEF TypeOK, Next, Start, Probed, Found, Spawn, SpawnThrows, Ready, NotReady, RestartFires, Kill, Stop,
     ForeignEnds, Quit, HandleExit, ChildServes, ChildHangs, ChildEnds, vars, this
<1> QED
  BY <1>2, <1>3, <1>4, <1>5, <1>6, <1>7, <1>8 DEF TypeOK, Flows

-----------------------------------------------------------------------------
(* The supervisor and its children.                                        *)

\* The one that may be alive is the one it holds, and the timer is its own.
Held ==
    /\ \A c \in Children : notices[c] > 0 => proc[c] = "ended"
    /\ \A c \in Children : Alive(c) => child = c
    /\ termTimer \in {None, child}

\* A child is told to end once there is one.
ToldWasBorn == \A c \in Children : c \in termed => proc[c] # "unborn"

\* Where a start may stand while there is a child.
Starting ==
    /\ flow.at \in {"probing", "found", "absent"} => child = None
    /\ flow.at = "waiting" => child \in {None, flow.mine}

\* When nothing runs, or a start waits in vain, a restart is due.
Due ==
    /\ restartTimer => ~stopping
    /\ ~stopping /\ ~external /\ child = None /\ flow.at \in {"idle", "waiting"} =>
          restartTimer \/ attempts = MaxRestarts \/ slow

\* The inductive invariant of the supervisor.
SupervisorInv == Held /\ ToldWasBorn /\ Starting /\ Due /\ KillIsDue /\ StopReachesChild

\* Telling a child to end starts its timer, unless that runs.
LEMMA TerminateTells ==
    ASSUME TypeOK, Held, KillIsDue, NEW c \in Children, Terminate(c)
    PROVE  /\ termed \subseteq termed'
           /\ termTimer' \in {None, child}
           /\ child = c /\ Alive(c) => c \in termed' /\ termTimer' = c
           /\ \A d \in Children : d \in termed' => d \in termed \/ (d = c /\ child = c /\ Alive(c))
           /\ \A d \in Children : d \in termed /\ Alive(d) /\ app = "running" => termTimer' = d
<1>1. CASE child = c /\ Alive(c)
  <2>1. termed' = termed \cup {c} /\ termTimer' = IF termTimer = None THEN c ELSE termTimer
    BY <1>1 DEF Terminate
  <2>2. termTimer' = c
    BY <2>1, <1>1 DEF Held
  <2>3. \A d \in Children : Alive(d) => d = c
    BY <1>1 DEF Held
  <2> QED
    BY <1>1, <2>1, <2>2, <2>3
<1>2. CASE ~(child = c /\ Alive(c))
  <2>1. termed' = termed /\ termTimer' = termTimer
    BY <1>2 DEF Terminate
  <2> QED
    BY <1>2, <2>1 DEF Held, KillIsDue
<1> QED
  BY <1>1, <1>2

\* After a restart was scheduled it is due, unless all were used.
LEMMA ScheduleIsDue ==
    ASSUME TypeOK, Due, ScheduleRestart
    PROVE  /\ ~stopping => restartTimer' \/ attempts' = MaxRestarts
           /\ restartTimer' => ~stopping
<1>1. attempts \in 0 .. MaxRestarts
  BY DEF TypeOK
<1>2. restartTimer \/ ~restartTimer
  OBVIOUS
<1>3. CASE ~stopping /\ ~restartTimer /\ MayRestart
  BY <1>3 DEF ScheduleRestart
<1>4. CASE ~(~stopping /\ ~restartTimer /\ MayRestart)
  <2>1. restartTimer' = restartTimer /\ attempts' = attempts
    BY <1>4 DEF ScheduleRestart
  <2>2. ~MayRestart => attempts = MaxRestarts
    BY <1>1, SupervisorAssumption DEF MayRestart
  <2> QED
    BY <1>4, <2>1, <2>2 DEF Due
<1> QED
  BY <1>3, <1>4

\* The invariant holds at the start.
LEMMA InitSupervisorInv == Init => SupervisorInv
BY DEF Init, SupervisorInv, Held, ToldWasBorn, Starting, Due, KillIsDue, StopReachesChild, Alive, None, Children

\* What is alive is the child in hand, before and after.
LEMMA StepHeld == TypeOK /\ SupervisorInv /\ [Next]_vars => Held'
<1> SUFFICES ASSUME TypeOK, SupervisorInv, [Next]_vars PROVE Held'
  OBVIOUS
<1> USE DEF SupervisorInv, None, Children
<1>0. flow \in Flows /\ Held /\ Starting /\ KillIsDue
  BY DEF TypeOK, Flows
<1>1. CASE Spawn
  <2>1. PICK c \in Children : proc[c] = "unborn" /\ proc' = [proc EXCEPT ![c] = "up"] /\ child' = c
    BY <1>1 DEF Spawn
  <2>2. child = None /\ termTimer = None
    BY <1>1, <1>0 DEF Spawn, Starting, Held
  <2>3. \A d \in Children : d # c => ~Alive(d)' /\ proc'[d] = proc[d]
    BY <2>1, <2>2, <1>0 DEF Held, Alive, TypeOK
  <2>4. notices' = notices /\ termTimer' = None
    BY <1>1, <2>2 DEF Spawn
  <2>5. ~(notices[c] > 0)
    BY <2>1, <1>0 DEF Held
  <2> QED
    BY <2>1, <2>3, <2>4, <2>5, <1>0 DEF Held
<1>2. CASE NotReady
  <2>1. proc' = proc /\ notices' = notices /\ child' = child
    BY <1>2 DEF NotReady
  <2>2. termTimer' \in {None, child}
    <3>1. CASE flow.attempt >= ReadyAttempts
      BY <1>2, <3>1, <1>0, FlowFacts, TerminateTells DEF NotReady
    <3>2. CASE ~(flow.attempt >= ReadyAttempts)
      BY <1>2, <3>2, <1>0 DEF NotReady, Held
    <3> QED
      BY <3>1, <3>2
  <2> QED
    BY <2>1, <2>2, <1>0 DEF Held, Alive
<1>3. CASE \E c \in Children : HandleExit(c)
  <2>1. PICK c \in Children : HandleExit(c)
    BY <1>3
  <2>2. proc' = proc /\ proc[c] = "ended" /\ \A d \in Children : notices'[d] > 0 => notices[d] > 0
    BY <2>1, <1>0 DEF HandleExit, Held, TypeOK
  <2>3. CASE child = c
    <3>1. child' = None /\ termTimer' = None
      BY <2>1, <2>3 DEF HandleExit, IsMine, ClearTimer
    <3>2. \A d \in Children : ~Alive(d)'
      BY <2>2, <2>3, <1>0 DEF Held, Alive
    <3> QED
      BY <2>2, <3>1, <3>2, <1>0 DEF Held
  <2>4. CASE child # c
    <3>1. child' = child /\ termTimer' = termTimer
      BY <2>1, <2>4 DEF HandleExit, IsMine
    <3> QED
      BY <2>2, <3>1, <1>0 DEF Held, Alive
  <2> QED
    BY <2>3, <2>4
<1>4. CASE Kill
  <2>1. child' = child /\ termTimer' = None
    BY <1>4 DEF Kill
  <2>2. \A d \in Children : /\ Alive(d)' => Alive(d)
                            /\ notices'[d] > 0 => proc'[d] = "ended"
    BY <1>4, <1>0 DEF Kill, Held, Alive, TypeOK
  <2> QED
    BY <2>1, <2>2, <1>0 DEF Held
<1>5. CASE Stop
  <2>1. proc' = proc /\ notices' = notices /\ child' = child
    BY <1>5 DEF Stop
  <2>2. termTimer' \in {None, child}
    <3>1. CASE child # None
      BY <1>5, <3>1, <1>0, TerminateTells DEF Stop, TypeOK
    <3>2. CASE child = None
      BY <1>5, <3>2, <1>0 DEF Stop, Held
    <3> QED
      BY <3>1, <3>2
  <2> QED
    BY <2>1, <2>2, <1>0 DEF Held, Alive
<1>6. CASE \E c \in Children : ChildServes(c) \/ ChildHangs(c) \/ ChildEnds(c)
  <2>1. PICK c \in Children : ChildServes(c) \/ ChildHangs(c) \/ ChildEnds(c)
    BY <1>6
  <2>2. child' = child /\ termTimer' = termTimer /\ Alive(c)
    BY <2>1 DEF ChildServes, ChildHangs, ChildEnds, this, Alive
  <2>3. \A d \in Children : Alive(d)' => Alive(d)
    BY <2>1, <2>2 DEF ChildServes, ChildHangs, ChildEnds, Alive, TypeOK
  <2>4. \A d \in Children : notices'[d] > 0 => proc'[d] = "ended"
    <3>1. CASE ChildEnds(c)
      BY <3>1, <1>0 DEF ChildEnds, Held, TypeOK
    <3>2. CASE ChildServes(c) \/ ChildHangs(c)
      <4>1. notices' = notices /\ \A d \in Children : proc[d] = "ended" => proc'[d] = "ended"
        BY <3>2 DEF ChildServes, ChildHangs, TypeOK
      <4> QED
        BY <4>1, <1>0 DEF Held
    <3> QED
      BY <2>1, <3>1, <3>2
  <2> QED
    BY <2>2, <2>3, <2>4, <1>0 DEF Held
<1>7. CASE UNCHANGED <<proc, notices, child, termTimer>>
  BY <1>7, <1>0 DEF Held, Alive
<1> QED
  BY <1>1, <1>2, <1>3, <1>4, <1>5, <1>6, <1>7 DEF Next, Start, Probed, Found, SpawnThrows, Ready,
     RestartFires, ForeignEnds, Quit, vars, world, this

\* A start under way has no child, or its own.
LEMMA StepStarting == TypeOK /\ SupervisorInv /\ [Next]_vars => Starting'
<1> SUFFICES ASSUME TypeOK, SupervisorInv, [Next]_vars PROVE Starting'
  OBVIOUS
<1> USE DEF SupervisorInv, None
<1>0. flow \in Flows /\ Held /\ Starting /\ Due
  BY DEF TypeOK, Flows
<1>1. CASE Spawn
  BY <1>1 DEF Spawn, Starting, Idle
<1>2. CASE NotReady
  <2>1. child' = child /\ (flow' = Idle \/ (flow'.at = "waiting" /\ flow'.mine = flow.mine /\ flow.at = "waiting"))
    <3>1. CASE flow.attempt >= ReadyAttempts
      BY <1>2, <3>1 DEF NotReady
    <3>2. CASE ~(flow.attempt >= ReadyAttempts)
      <4>1. flow \in [at : {"waiting"}, mine : Children, attempt : 1 .. ReadyAttempts]
        BY <1>0, <1>2 DEF NotReady, Flows
      <4> QED
        BY <1>2, <3>2, <4>1 DEF NotReady
    <3> QED
      BY <3>1, <3>2
  <2> QED
    BY <2>1, <1>0 DEF Starting, Idle
<1>3. CASE RestartFires
  <2>1. child' = child /\ ~stopping
    BY <1>3, <1>0 DEF RestartFires, Due
  <2>2. CASE ~Running /\ flow = Idle
    BY <1>3, <2>1, <2>2 DEF RestartFires, Running, Starting
  <2>3. CASE ~(~Running /\ flow = Idle)
    BY <1>3, <2>1, <2>3, <1>0 DEF RestartFires, Starting
  <2> QED
    BY <2>2, <2>3
<1>4. CASE \E c \in Children : HandleExit(c)
  BY <1>4, <1>0 DEF HandleExit, Starting
<1>5. CASE child' = child /\ flow' \in {flow, Idle, [at |-> "found"], [at |-> "absent"]} /\ (flow' # flow => flow' = Idle \/ flow.at = "probing")
  BY <1>5, <1>0 DEF Starting, Idle
<1> QED
  BY <1>1, <1>2, <1>3, <1>4, <1>5 DEF Next, Start, Probed, Found, SpawnThrows, Ready, Kill, Stop,
     ForeignEnds, Quit, ChildServes, ChildHangs, ChildEnds, vars, this

\* A restart stays due until it fires.
LEMMA StepDue == TypeOK /\ SupervisorInv /\ [Next]_vars => Due'
<1> SUFFICES ASSUME TypeOK, SupervisorInv, [Next]_vars PROVE Due'
  OBVIOUS
<1> USE DEF SupervisorInv
<1>0. flow \in Flows /\ Held /\ Starting /\ Due
  BY DEF TypeOK, Flows
<1>1. CASE Spawn
  <2>1. child' # None /\ UNCHANGED <<stopping, restartTimer>>
    BY <1>1 DEF Spawn, None, Children
  <2> QED
    BY <2>1, <1>0 DEF Due
<1>2. CASE SpawnThrows
  <2>1. ScheduleRestart /\ UNCHANGED <<stopping, external, child>>
    BY <1>2 DEF SpawnThrows
  <2> QED
    BY <2>1, <1>0, ScheduleIsDue DEF Due
<1>3. CASE \E c \in Children : HandleExit(c)
  <2>1. PICK c \in Children : HandleExit(c)
    BY <1>3
  <2>2. CASE child = c
    <3>1. ScheduleRestart /\ UNCHANGED <<stopping, external, flow>>
      BY <2>1, <2>2 DEF HandleExit, IsMine
    <3> QED
      BY <3>1, <1>0, ScheduleIsDue DEF Due
  <2>3. CASE child # c
    BY <2>1, <2>3, <1>0 DEF HandleExit, IsMine, Due
  <2> QED
    BY <2>2, <2>3
<1>4. CASE RestartFires
  <2>1. UNCHANGED <<child, external, stopping, attempts>> /\ ~restartTimer' /\ ~stopping
        /\ slow' = (slow \/ OutlivedChild)
        /\ flow' = IF ~Running /\ flow = Idle THEN [at |-> "probing"] ELSE flow
    BY <1>4, <1>0 DEF RestartFires, Due
  <2>2. ASSUME ~external', child' = None, flow'.at \in {"idle", "waiting"} PROVE slow'
    <3>1. flow' = flow /\ flow # Idle
      BY <2>1, <2>2 DEF Running
    <3>2. flow.at = "waiting" /\ flow.mine \in Children
      BY <3>1, <2>2, <1>0, FlowFacts
    <3>3. OutlivedChild
      BY <3>2, <2>1, <2>2 DEF OutlivedChild, None, Children
    <3> QED
      BY <3>3, <2>1
  <2> QED
    BY <2>1, <2>2 DEF Due
<1>5. CASE Stop
  BY <1>5 DEF Stop, Due
<1>6. CASE Found
  BY <1>6, <1>0 DEF Found, Due
<1>7. CASE Ready \/ NotReady
  <2>1. flow.at = "waiting" /\ UNCHANGED <<child, external, stopping, restartTimer, attempts, slow>>
    BY <1>7 DEF Ready, NotReady
  <2> QED
    BY <2>1, <1>0 DEF Due
<1>8. CASE \E h \in BOOLEAN : Probed(h)
  <2>1. flow'.at \in {"found", "absent"} /\ UNCHANGED <<stopping, restartTimer>>
    BY <1>8 DEF Probed
  <2> QED
    BY <2>1, <1>0 DEF Due
<1>9. CASE UNCHANGED <<child, external, stopping, restartTimer, attempts, slow, flow>>
  BY <1>9, <1>0 DEF Due
<1> QED
  BY <1>1, <1>2, <1>3, <1>4, <1>5, <1>6, <1>7, <1>8, <1>9 DEF Next, Start, Kill,
     ForeignEnds, Quit, ChildServes, ChildHangs, ChildEnds, vars, this

\* Children that were told to end are timed, and after stop() all were told.
LEMMA StepTold == TypeOK /\ SupervisorInv /\ [Next]_vars => (KillIsDue /\ StopReachesChild)'
<1> SUFFICES ASSUME TypeOK, SupervisorInv, [Next]_vars PROVE (KillIsDue /\ StopReachesChild)'
  OBVIOUS
<1> USE DEF SupervisorInv, None
<1>0. flow \in Flows /\ Held /\ Starting /\ Due /\ KillIsDue /\ StopReachesChild /\ termed \subseteq Children
  BY DEF TypeOK, Flows
<1>a. termed' \subseteq Children
  BY StepTypeOK DEF TypeOK
<1>1. CASE Spawn
  <2>1. PICK c \in Children : /\ proc[c] = "unborn" /\ proc' = [proc EXCEPT ![c] = "up"] /\ child' = c
                              /\ orphans' = IF stopping THEN orphans \cup {c} ELSE orphans
    BY <1>1 DEF Spawn
  <2>2. \A d \in Children : d # c => ~Alive(d)'
    <3>1. child = None
      BY <1>1, <1>0 DEF Spawn, Starting
    <3> QED
      BY <2>1, <3>1, <1>0 DEF Held, Alive, TypeOK, Children
  <2>3. UNCHANGED <<termed, termTimer, stopping>>
    BY <1>1 DEF Spawn
  <2>4. c \notin termed
    BY <2>1 DEF ToldWasBorn
  <2>5. stopping => c \in orphans'
    BY <2>1
  <2> QED
    BY <2>2, <2>3, <2>4, <2>5, <1>a DEF KillIsDue, StopReachesChild
<1>2. CASE NotReady
  <2>1. UNCHANGED <<proc, app, stopping, orphans>>
    BY <1>2 DEF NotReady
  <2>2. termed \subseteq termed' /\ \A d \in Children : d \in termed' /\ Alive(d) /\ app = "running" => termTimer' = d
    <3>1. CASE flow.attempt >= ReadyAttempts
      BY <1>2, <3>1, <1>0, FlowFacts, TerminateTells DEF NotReady
    <3>2. CASE ~(flow.attempt >= ReadyAttempts)
      BY <1>2, <3>2, <1>0 DEF NotReady, KillIsDue
    <3> QED
      BY <3>1, <3>2
  <2> QED
    BY <2>1, <2>2, <1>0, <1>a DEF KillIsDue, StopReachesChild, Alive
<1>3. CASE Stop
  <2>1. UNCHANGED <<proc, app, orphans>>
    BY <1>3 DEF Stop
  <2>2. CASE child # None
    <3>1. Terminate(child) /\ child \in Children
      BY <1>3, <2>2 DEF Stop, TypeOK
    <3>2. /\ \A d \in Children : Alive(d) => d \in termed'
          /\ \A d \in Children : d \in termed' /\ Alive(d) /\ app = "running" => termTimer' = d
      BY <3>1, <1>0, TerminateTells DEF Held
    <3> QED
      BY <2>1, <3>2, <1>a DEF KillIsDue, StopReachesChild, Alive
  <2>3. CASE child = None
    <3>1. \A d \in Children : ~Alive(d)
      BY <2>3, <1>0 DEF Held, Children
    <3> QED
      BY <2>1, <3>1, <1>a DEF KillIsDue, StopReachesChild, Alive
  <2> QED
    BY <2>2, <2>3
<1>4. CASE \E c \in Children : HandleExit(c)
  <2>1. PICK c \in Children : HandleExit(c)
    BY <1>4
  <2>2. UNCHANGED <<proc, app, stopping, orphans, termed>> /\ proc[c] = "ended"
    BY <2>1, <1>0 DEF HandleExit, Held
  <2>3. CASE child = c
    <3>1. \A d \in Children : ~Alive(d)
      BY <2>2, <2>3, <1>0 DEF Held, Alive
    <3> QED
      BY <2>2, <3>1, <1>a DEF KillIsDue, StopReachesChild, Alive
  <2>4. CASE child # c
    <3>1. termTimer' = termTimer
      BY <2>1, <2>4 DEF HandleExit, IsMine
    <3> QED
      BY <2>2, <3>1, <1>0 DEF KillIsDue, StopReachesChild, Alive
  <2> QED
    BY <2>3, <2>4
<1>5. CASE Kill
  <2>1. UNCHANGED <<termed, stopping, orphans, app>>
    BY <1>5 DEF Kill
  <2>2. \A d \in Children : Alive(d)' => Alive(d)
    BY <1>5 DEF Kill, Alive, TypeOK
  <2>3. \A d \in Children : d \in termed /\ Alive(d)' /\ app = "running" => FALSE
    <3> SUFFICES ASSUME NEW d \in Children, d \in termed, Alive(d)', app = "running" PROVE FALSE
      OBVIOUS
    <3>1. termTimer = d /\ child = d /\ Alive(d)
      BY <2>2, <1>0 DEF KillIsDue, Held
    <3> QED
      BY <1>5, <3>1 DEF Kill, Alive, TypeOK
  <2> QED
    BY <2>1, <2>2, <2>3, <1>0 DEF KillIsDue, StopReachesChild
<1>6. CASE \E c \in Children : ChildServes(c) \/ ChildHangs(c) \/ ChildEnds(c)
  <2>1. PICK c \in Children : ChildServes(c) \/ ChildHangs(c) \/ ChildEnds(c)
    BY <1>6
  <2>2. UNCHANGED <<termed, stopping, orphans, app, termTimer>> /\ Alive(c)
    BY <2>1 DEF ChildServes, ChildHangs, ChildEnds, this, Alive
  <2>3. \A d \in Children : Alive(d)' => Alive(d)
    BY <2>1, <2>2 DEF ChildServes, ChildHangs, ChildEnds, Alive, TypeOK
  <2> QED
    BY <2>2, <2>3, <1>0 DEF KillIsDue, StopReachesChild
<1>7. CASE Quit
  BY <1>7, <1>0 DEF Quit, this, KillIsDue, StopReachesChild, Alive
<1>8. CASE UNCHANGED <<proc, termed, stopping, orphans, app, termTimer>>
  BY <1>8, <1>0 DEF KillIsDue, StopReachesChild, Alive
<1> QED
  BY <1>1, <1>2, <1>3, <1>4, <1>5, <1>6, <1>7, <1>8 DEF Next, Start, Probed, Found, SpawnThrows, Ready,
     RestartFires, ForeignEnds, vars, world, this

\* No child is told before there is one.
LEMMA StepToldWasBorn == TypeOK /\ SupervisorInv /\ [Next]_vars => ToldWasBorn'
<1> SUFFICES ASSUME TypeOK, SupervisorInv, [Next]_vars PROVE ToldWasBorn'
  OBVIOUS
<1>0. flow \in Flows /\ Held /\ ToldWasBorn /\ KillIsDue
  BY DEF TypeOK, Flows, SupervisorInv
<1>1. \A c \in Children : proc[c] # "unborn" => proc'[c] # "unborn"
  <2>1. CASE Spawn \/ Kill
    BY <2>1 DEF Spawn, Kill, TypeOK
  <2>2. CASE \E c \in Children : ChildServes(c) \/ ChildHangs(c) \/ ChildEnds(c)
    BY <2>2 DEF ChildServes, ChildHangs, ChildEnds, TypeOK
  <2>3. CASE proc' = proc
    BY <2>3
  <2> QED
    BY <2>1, <2>2, <2>3 DEF Next, Start, Probed, Found, SpawnThrows, Ready, NotReady, RestartFires, Stop,
       ForeignEnds, Quit, HandleExit, vars, world
<1>2. \A c \in Children : c \in termed' => c \in termed \/ proc[c] # "unborn"
  <2>1. ASSUME NEW c \in Children, Terminate(c)
        PROVE  \A d \in Children : d \in termed' => d \in termed \/ proc[d] # "unborn"
    BY <2>1, <1>0, TerminateTells DEF Alive
  <2>2. CASE NotReady
    BY <2>1, <2>2, <1>0, FlowFacts DEF NotReady
  <2>3. CASE Stop
    BY <2>1, <2>3 DEF Stop, TypeOK
  <2>4. CASE termed' = termed
    BY <2>4
  <2> QED
    BY <2>2, <2>3, <2>4 DEF Next, Start, Probed, Found, Spawn, SpawnThrows, Ready, RestartFires, Kill,
       ForeignEnds, Quit, HandleExit, ChildServes, ChildHangs, ChildEnds, vars, world
<1> QED
  BY <1>0, <1>1, <1>2 DEF ToldWasBorn

\* The invariant says what is stated of the supervisor.
LEMMA SupervisorInvImplies == TypeOK /\ SupervisorInv => Supervised /\ NotGivenUp
<1> SUFFICES ASSUME TypeOK, SupervisorInv PROVE Supervised /\ NotGivenUp
  OBVIOUS
<1>1. OneBackend
  BY DEF SupervisorInv, Held, OneBackend
<1>2. NotGivenUp
  <2>1. flow = Idle => flow.at = "idle"
    BY DEF Idle
  <2> QED
    BY <2>1 DEF SupervisorInv, Due, NotGivenUp
<1> QED
  BY <1>1, <1>2 DEF SupervisorInv, Supervised

\* A step of the app with its backend is one of the supervisor's, or none.
LEMMA BackendSteps == [BackendNext]_backendVars => [Next]_vars
<1>1. SupervisorStep => [Next]_vars
  BY DEF SupervisorStep, Next, Start
<1>2. SpawnBackend \/ KillBackend => Next
  BY DEF SpawnBackend, KillBackend, Next, Start
<1>3. RuntimeStep => UNCHANGED vars
  BY DEF RuntimeStep
<1>4. ASSUME NEW c \in Children, Listens(c) \/ Hangs(c) \/ ShutsDown(c) \/ Ends(c) PROVE [Next]_vars
  <2>1. ChildServes(c) \/ ChildHangs(c) \/ ChildEnds(c) \/ UNCHANGED vars
    BY <1>4 DEF Listens, Hangs, ShutsDown, Ends
  <2> QED
    BY <2>1 DEF Next
<1>5. UNCHANGED backendVars => UNCHANGED vars
  BY DEF backendVars
<1> QED
  BY <1>1, <1>2, <1>3, <1>4, <1>5 DEF BackendNext

\* Every variable of the supervisor keeps its type.
LEMMA BackendTypeCorrect == BackendSpec => []TypeOK
<1>1. BackendInit => Init
  BY DEF BackendInit
<1> QED
  BY <1>1, InitTypeOK, StepTypeOK, BackendSteps, PTL DEF BackendSpec

\* The inductive invariant holds throughout, for any backend.
LEMMA SupervisorInvariant == BackendSpec => [](TypeOK /\ SupervisorInv)
<1>1. BackendInit => Init
  BY DEF BackendInit
<1>2. TypeOK /\ SupervisorInv /\ [BackendNext]_backendVars => SupervisorInv'
  BY BackendSteps, StepHeld, StepStarting, StepDue, StepTold, StepToldWasBorn DEF SupervisorInv
<1> QED
  BY <1>1, <1>2, InitSupervisorInv, BackendTypeCorrect, PTL DEF BackendSpec

\* However late events and timers come and however often the backend ends, there
\* is one backend at a time, it is the one the supervisor holds, what was told to
\* end is timed, and stop() reaches it (start, stop, _terminateChild,
\* _handleChildExit).
THEOREM SupervisedTheorem == BackendSpec => []Supervised
BY SupervisorInvariant, SupervisorInvImplies, PTL

\* No backend is given up before the restarts are used up (_scheduleRestart, start).
THEOREM NotGivenUpTheorem == BackendSpec => []NotGivenUp
BY SupervisorInvariant, SupervisorInvImplies, PTL

-----------------------------------------------------------------------------
(* The runtime: what it owns, in the order it was built.                   *)

\* The places of the resources: each is built before what comes after it here.
Rank(resource) ==
    CASE resource = "computer_state" -> 1
      [] resource = "computer_state_reporter" -> 2
      [] resource = "store" -> 3
      [] resource = "tool_service" -> 4
      [] resource = "llm" -> 5
      [] resource = "tts" -> 6
      [] resource = "qq_connection" -> 7
      [] resource = "qq_channel" -> 8

\* The resources a runtime may own.
Resources ==
    {"computer_state", "computer_state_reporter", "store", "tool_service", "llm", "tts",
     "qq_connection", "qq_channel"}

\* The plan lists known resources, in the order of their ranks.
LEMMA PlanInOrder ==
    ASSUME NEW c
    PROVE  /\ Plan(c) \in Seq(Resources) /\ Len(Plan(c)) \in Nat
           /\ \A i, j \in 1 .. Len(Plan(c)) : i < j => Rank(Plan(c)[i]) < Rank(Plan(c)[j])
           /\ \A i \in 1 .. Len(Plan(c)) : Plan(c)[i] \in Resources
<1> DEFINE Core == <<"store", "tool_service", "llm", "tts", "qq_connection", "qq_channel">>
           A == IF OwnsState(c) THEN <<"computer_state">> ELSE <<>>
           B == IF OwnsReporter(c) THEN <<"computer_state_reporter">> ELSE <<>>
<1>1. Plan(c) = (A \o B) \o Core
  BY DEF Plan
<1>2. /\ A \in Seq(Resources) /\ Len(A) \in 0 .. 1 /\ (Len(A) = 1 => A[1] = "computer_state")
      /\ B \in Seq(Resources) /\ Len(B) \in 0 .. 1 /\ (Len(B) = 1 => B[1] = "computer_state_reporter")
  <2>1. "computer_state" \in Resources /\ "computer_state_reporter" \in Resources
    BY DEF Resources
  <2>2. A \in Seq(Resources) /\ Len(A) \in 0 .. 1 /\ (Len(A) = 1 => A[1] = "computer_state")
    <3>1. CASE OwnsState(c)
      BY <2>1, <3>1
    <3>2. CASE ~OwnsState(c)
      BY <3>2
    <3> QED
      BY <3>1, <3>2
  <2>3. B \in Seq(Resources) /\ Len(B) \in 0 .. 1 /\ (Len(B) = 1 => B[1] = "computer_state_reporter")
    <3>1. CASE OwnsReporter(c)
      BY <2>1, <3>1
    <3>2. CASE ~OwnsReporter(c)
      BY <3>2
    <3> QED
      BY <3>1, <3>2
  <2> QED
    BY <2>2, <2>3
<1>b. Len(A) = 0 => Len(B) = 0
  BY DEF OwnsReporter
<1>3. Core \in Seq(Resources) /\ Len(Core) = 6 /\ \A i \in 1 .. 6 : Rank(Core[i]) = i + 2 /\ Core[i] \in Resources
  <2>1. Core \in Seq(Resources) /\ Len(Core) = 6
    BY DEF Resources
  <2>2. /\ Core[1] = "store" /\ Core[2] = "tool_service" /\ Core[3] = "llm" /\ Core[4] = "tts"
        /\ Core[5] = "qq_connection" /\ Core[6] = "qq_channel"
    OBVIOUS
  <2>3. \A i \in 1 .. 6 : Rank(Core[i]) = i + 2
    <3> SUFFICES ASSUME NEW i \in 1 .. 6 PROVE Rank(Core[i]) = i + 2
      OBVIOUS
    <3> HIDE DEF Core
    <3>1. i = 1 \/ i = 2 \/ i = 3 \/ i = 4 \/ i = 5 \/ i = 6
      OBVIOUS
    <3> QED
      BY <2>2, <3>1 DEF Rank
  <2> QED
    BY <2>1, <2>3
<1> HIDE DEF A, B, Core
<1> DEFINE AB == A \o B
<1>4. /\ AB \in Seq(Resources) /\ Len(AB) = Len(A) + Len(B)
      /\ \A i \in 1 .. Len(AB) : AB[i] = IF i <= Len(A) THEN A[i] ELSE B[i - Len(A)]
  BY <1>2, ConcatProperties
<1>5. \A i \in 1 .. Len(AB) : Rank(AB[i]) = i
  BY <1>2, <1>b, <1>4 DEF Rank
<1> HIDE DEF AB
<1>6. /\ Plan(c) \in Seq(Resources) /\ Len(Plan(c)) = Len(AB) + Len(Core)
      /\ \A i \in 1 .. Len(Plan(c)) : Plan(c)[i] = IF i <= Len(AB) THEN AB[i] ELSE Core[i - Len(AB)]
  <2>1. Plan(c) = AB \o Core
    BY <1>1 DEF AB
  <2>2. Core \in Seq(Resources) /\ AB \in Seq(Resources)
    BY <1>3, <1>4
  <2> QED
    BY <2>1, <2>2, ConcatProperties
<1>7. Len(AB) \in 0 .. 2
  BY <1>2, <1>4
<1>8. \A i \in 1 .. Len(Plan(c)) :
         Rank(Plan(c)[i]) = IF i <= Len(AB) THEN i ELSE i - Len(AB) + 2
  <2> SUFFICES ASSUME NEW i \in 1 .. Len(Plan(c))
               PROVE  Rank(Plan(c)[i]) = IF i <= Len(AB) THEN i ELSE i - Len(AB) + 2
    OBVIOUS
  <2>1. CASE i <= Len(AB)
    BY <2>1, <1>5, <1>6, <1>7
  <2>2. CASE ~(i <= Len(AB))
    <3>1. i - Len(AB) \in 1 .. 6
      BY <2>2, <1>3, <1>6, <1>7
    <3> QED
      BY <2>2, <3>1, <1>3, <1>6
  <2> QED
    BY <2>1, <2>2
<1>9. \A i, j \in 1 .. Len(Plan(c)) : i < j => Rank(Plan(c)[i]) < Rank(Plan(c)[j])
  BY <1>6, <1>7, <1>8, <1>3
<1> QED
  BY <1>6, <1>7, <1>9, <1>3

\* What uses another comes after it.
LEMMA UsersComeLater ==
    ASSUME NEW user \in Resources, NEW r \in Uses(user)
    PROVE  r \in Resources /\ Rank(r) < Rank(user)
BY DEF Uses, StateToolReads, Rank, Resources

\* The resources between two places of the plan.
Between(c, i, j) == {Plan(c)[k] : k \in i .. j}

\* What is owned is what was built by now.
LEMMA OwnedIsBuilt ==
    ASSUME built \in 0 .. Len(Plan(config))
    PROVE  Owned = Between(config, 1, built)
<1> DEFINE P == Plan(config)
<1>1. P \in Seq(Resources) /\ Len(P) \in Nat
  BY PlanInOrder
<1> HIDE DEF P
<1>2. /\ SubSeq(P, 1, built) \in Seq(Resources) /\ Len(SubSeq(P, 1, built)) = built
      /\ \A i \in 1 .. built : SubSeq(P, 1, built)[i] = P[i]
  BY <1>1 DEF P
<1>3. DOMAIN SubSeq(P, 1, built) = 1 .. built
  BY <1>2
<1>4. ToSet(SubSeq(P, 1, built)) = {P[i] : i \in 1 .. built}
  BY <1>2, <1>3 DEF ToSet
<1> QED
  BY <1>4 DEF Owned, Between, P

\* Where a roll-back or a close stands: what comes after was given back, and no
\* task is left by then.
RuntimeInv ==
    /\ config \in Configs
    /\ phase \in {"none", "building", "undoing", "starting", "serving", "cancelling", "closing", "over"}
    /\ built \in 0 .. Len(Plan(config)) /\ at \in 0 .. built
    /\ Given = IF phase \in {"undoing", "closing", "over"} THEN Between(config, at + 1, built) ELSE {}
    /\ phase = "over" => at = 0
    /\ tasks \in [TaskNames -> {"unborn", "running", "resting", "cancelled", "ended"}]
    /\ phase \in {"none", "building", "undoing"} => \A t \in TaskNames : tasks[t] = "unborn"
    /\ phase = "cancelling" => \A t \in TaskNames : tasks[t] \in {"unborn", "cancelled", "ended"}
    /\ phase \in {"closing", "over"} => \A t \in TaskNames : tasks[t] \in {"unborn", "ended"}

\* The runtime's own steps, those that come with a step of its process included.
RuntimeSteps ==
    \/ Begin \/ Gone \/ Register \/ BuildRaises \/ Built \/ Serve \/ Shutdown \/ Unsubscribe
    \/ Closes \/ Refuses \/ Over
    \/ \E t \in TaskNames : StartTask(t) \/ TaskRaises(t) \/ TaskResumes(t) \/ TaskEnds(t)

\* A step of the whole is one of the runtime's, or leaves it alone.
LEMMA BackendRuntimeSteps == [BackendNext]_backendVars => RuntimeSteps \/ UNCHANGED runtimeVars
<1>1. SupervisorStep => UNCHANGED runtimeVars
  BY DEF SupervisorStep
<1>2. SpawnBackend => RuntimeSteps
  BY DEF SpawnBackend, RuntimeSteps
<1>3. KillBackend => RuntimeSteps \/ UNCHANGED runtimeVars
  BY DEF KillBackend, RuntimeSteps
<1>4. RuntimeStep => RuntimeSteps
  BY DEF RuntimeStep, RuntimeSteps
<1>5. ASSUME NEW c \in Children, Listens(c) \/ Hangs(c) \/ ShutsDown(c) \/ Ends(c)
      PROVE  RuntimeSteps \/ UNCHANGED runtimeVars
  BY <1>5 DEF Listens, Hangs, ShutsDown, Ends, RuntimeSteps
<1>6. UNCHANGED backendVars => UNCHANGED runtimeVars
  BY DEF backendVars
<1> QED
  BY <1>1, <1>2, <1>3, <1>4, <1>5, <1>6 DEF BackendNext

\* A process that has just begun, or is gone, owns nothing.
LEMMA BlankRuntimeInv ==
    ASSUME NEW c \in Configs, config = c, phase \in {"none", "building"}, built = 0, at = 0,
           closed = {}, refused = {}, tasks = Dormant
    PROVE  RuntimeInv
<1>1. 0 \in 0 .. Len(Plan(config))
  BY PlanInOrder
<1>2. tasks \in [TaskNames -> {"unborn", "running", "resting", "cancelled", "ended"}]
      /\ \A t \in TaskNames : tasks[t] = "unborn"
  BY DEF Dormant
<1> QED
  BY <1>1, <1>2 DEF RuntimeInv, Given

\* A task's own step.
LEMMA TaskStepInv ==
    ASSUME RuntimeInv, NEW t \in TaskNames,
           StartTask(t) \/ TaskRaises(t) \/ TaskResumes(t) \/ TaskEnds(t)
    PROVE  RuntimeInv'
<1>1. UNCHANGED <<config, phase, built, at, closed, refused>>
  BY DEF StartTask, TaskRaises, TaskResumes, TaskEnds
<1>2. PICK state \in {"running", "resting", "ended"} :
        /\ tasks' = [tasks EXCEPT ![t] = state]
        /\ state = "ended" => tasks[t] = "cancelled"
        /\ state # "ended" => phase = "starting" \/ tasks[t] \in {"running", "resting"}
  BY DEF StartTask, TaskRaises, TaskResumes, TaskEnds
<1>3. tasks' \in [TaskNames -> {"unborn", "running", "resting", "cancelled", "ended"}]
  BY <1>2 DEF RuntimeInv
<1>4. \A u \in TaskNames : tasks'[u] = IF u = t THEN state ELSE tasks[u]
  BY <1>2 DEF RuntimeInv
<1>5. phase \in {"none", "building", "undoing", "closing", "over"} => FALSE
  BY <1>2 DEF RuntimeInv
<1>6. phase = "cancelling" => \A u \in TaskNames : tasks'[u] \in {"unborn", "cancelled", "ended"}
  BY <1>2, <1>4 DEF RuntimeInv
<1> QED
  BY <1>1, <1>3, <1>5, <1>6 DEF RuntimeInv, Given

\* One more resource is given back, closed or not.
LEMMA GiveBackInv ==
    ASSUME RuntimeInv, Closes \/ Refuses
    PROVE  RuntimeInv'
<1>1. /\ phase \in {"undoing", "closing"} /\ at \in 1 .. built /\ at' = at - 1
      /\ UNCHANGED <<config, phase, built, tasks>> /\ built \in Nat
  BY PlanInOrder DEF RuntimeInv, Closes, Refuses, Onwards
<1>2. Given' = Given \cup {Plan(config)[at]}
  BY DEF Closes, Refuses, Given
<1>3. Given = Between(config, at + 1, built)
  BY <1>1 DEF RuntimeInv
<1>4. at .. built = {at} \cup at + 1 .. built
  BY <1>1
<1>5. Given' = Between(config, at, built)
  BY <1>2, <1>3, <1>4 DEF Between
<1>6. Given' = Between(config', at' + 1, built')
  BY <1>1, <1>5
<1> QED
  BY <1>1, <1>6 DEF RuntimeInv

\* Where a runtime stands agrees with what it gave back, after every step.
LEMMA StepRuntimeInv == RuntimeInv /\ [BackendNext]_backendVars => RuntimeInv'
<1> SUFFICES ASSUME RuntimeInv, RuntimeSteps \/ UNCHANGED runtimeVars PROVE RuntimeInv'
  BY BackendRuntimeSteps
<1>1. CASE Begin
  BY <1>1, PlanInOrder DEF Begin, RuntimeInv, Given, Dormant
<1>2. CASE Gone
  BY <1>2, PlanInOrder DEF Gone, RuntimeInv, Given, Dormant
<1>3. CASE Register
  BY <1>3 DEF Register, RuntimeInv, Given
<1>4. CASE BuildRaises
  BY <1>4 DEF BuildRaises, RuntimeInv, Given, Between
<1>5. CASE Built
  BY <1>5 DEF Built, RuntimeInv, Given
<1>6. CASE Serve
  BY <1>6 DEF Serve, RuntimeInv, Given
<1>7. CASE Shutdown
  BY <1>7 DEF Shutdown, RuntimeInv, Given, Started
<1>8. CASE Unsubscribe
  BY <1>8 DEF Unsubscribe, RuntimeInv, Given, Between, AllEnded, Started
<1>9. CASE Closes \/ Refuses
  BY <1>9, GiveBackInv
<1>10. CASE Over
  BY <1>10 DEF Over, RuntimeInv, Given
<1>11. CASE \E t \in TaskNames : StartTask(t) \/ TaskRaises(t) \/ TaskResumes(t) \/ TaskEnds(t)
  BY <1>11, TaskStepInv
<1>12. CASE UNCHANGED runtimeVars
  BY <1>12 DEF runtimeVars, RuntimeInv, Given
<1> QED
  BY <1>1, <1>2, <1>3, <1>4, <1>5, <1>6, <1>7, <1>8, <1>9, <1>10, <1>11, <1>12 DEF RuntimeSteps

\* What comes after in the plan is given back before what it uses.
LEMMA RuntimeInvImplies == RuntimeInv => OwnershipHolds
<1> SUFFICES ASSUME RuntimeInv PROVE OwnershipHolds
  OBVIOUS
<1>1. built \in 0 .. Len(Plan(config)) /\ at \in 0 .. built /\ Len(Plan(config)) \in Nat
  BY PlanInOrder DEF RuntimeInv
<1>2. Owned = Between(config, 1, built)
  BY <1>1, OwnedIsBuilt
<1>3. Given \subseteq Between(config, at + 1, built)
  BY DEF RuntimeInv
<1>4. Given \subseteq Owned
  BY <1>1, <1>2, <1>3 DEF Between
<1>5. RuntimeTypeOK
  BY <1>4 DEF RuntimeTypeOK, RuntimeInv, Given
<1>6. ASSUME NEW r \in Given
      PROVE  /\ \A t \in TaskNames : tasks[t] \in {"unborn", "ended"}
             /\ \A user \in Owned : r \in Uses(user) => user \in Given
  <2>1. phase \in {"undoing", "closing", "over"} /\ Given = Between(config, at + 1, built)
    BY <1>6 DEF RuntimeInv
  <2>2. \A t \in TaskNames : tasks[t] \in {"unborn", "ended"}
    BY <2>1 DEF RuntimeInv
  <2>3. ASSUME NEW user \in Owned, r \in Uses(user) PROVE user \in Given
    <3>1. PICK i \in at + 1 .. built : r = Plan(config)[i]
      BY <2>1 DEF Between
    <3>2. PICK j \in 1 .. built : user = Plan(config)[j]
      BY <1>2 DEF Between
    <3>3. user \in Resources
      BY <3>2, <1>1, PlanInOrder
    <3>4. Rank(r) < Rank(user) /\ r \in Resources
      BY <3>3, <2>3, UsersComeLater
    <3>5. \A q \in Resources : Rank(q) \in 1 .. 8
      BY DEF Rank, Resources
    <3>6. ~(j < i)
      BY <3>1, <3>2, <3>3, <3>4, <3>5, <1>1, PlanInOrder
    <3>7. j # i
      BY <3>1, <3>2, <3>3, <3>4, <3>5
    <3>8. j \in at + 1 .. built
      BY <3>1, <3>2, <3>6, <3>7, <1>1
    <3> QED
      BY <3>2, <3>8, <2>1 DEF Between
  <2> QED
    BY <2>2, <2>3
<1>7. phase = "over" => Given = Owned
  BY <1>1, <1>2 DEF RuntimeInv
<1> QED
  BY <1>5, <1>6, <1>7 DEF OwnershipHolds, GivenBack

\* Whatever the configuration and wherever building, starting or closing fails,
\* nothing is closed that is still in use, and all of it in the end (__init__,
\* _rollback_initialization, aclose, lifespan).
THEOREM OwnershipTheorem == BackendSpec => []OwnershipHolds
<1>1. BackendInit => RuntimeInv
  BY BlankRuntimeInv DEF BackendInit, Blank
<1> QED
  BY <1>1, StepRuntimeInv, RuntimeInvImplies, PTL DEF BackendSpec

-----------------------------------------------------------------------------
(* The confirmation queue.                                                 *)

On(s, x) == \E i \in 1 .. Len(s) : s[i] = x
Request(c) == [is |-> "required", card |-> c]
Listed(l) == lists[l].at = "answered"

\* What is announced, on its way or on a card was stored; an update and a
\* decision that went through speak of what is closed.
Stored ==
    /\ \A m \in Messages : m \in unsent \/ On(wire, m) =>
         conf[m.card] # "none" /\ (m.is = "updated" => conf[m.card] = "closed")
    /\ \A c \in Cards : On(queue, c) => conf[c] # "none"
    /\ \A l \in Lists, c \in Cards : Listed(l) /\ On(lists[l].cards, c) => conf[c] # "none"
    /\ submitting # NoCard => conf[submitting] # "none"
    /\ reply # "none" => submitting # NoCard
    /\ reply = "done" => conf[submitting] = "closed"

\* A pending confirmation has its card, is about to be announced or listed, or
\* was lost with the socket.
Coming(c) ==
    \/ On(queue, c) \/ Request(c) \in unsent \/ On(wire, Request(c))
    \/ \E l \in Lists : lists[l].at = "asked" \/ (Listed(l) /\ On(lists[l].cards, c))

\* What the view shows is the first card.
Shows == queue # <<>> => shown = queue[1]

QueueInv ==
    /\ QueueTypeOK /\ IsFiniteSet(Pending) /\ Stored /\ Shows
    /\ online /\ ~blind => \A c \in Pending : Coming(c)

\* Every nonempty set of numbers has a least one.
LEMMA LeastNumber ==
    ASSUME NEW S \in SUBSET Nat, S # {}
    PROVE  \E m \in S : \A n \in S : m <= n
<1> DEFINE Less == {ss \in Nat \X Nat : ss[1] < ss[2]}
<1>1. IsWellFoundedOn(Less, Nat)
    BY NatLessThanWellFounded, Zenon DEF OpToRel
<1>2. PICK m \in S : \A n \in S : <<n, m>> \notin Less
    <2> HIDE DEF Less
    <2> QED
        BY <1>1, WFMin
<1>3. ASSUME NEW n \in S PROVE m <= n
    <2>1. <<n, m>> \notin Less /\ <<n, m>> \in Nat \X Nat
        BY <1>2
    <2> QED
        BY <2>1
<1> QED
    BY <1>3

\* A queue is what it was before, but for a card that came behind the others.
Grown(q, r, S) ==
    /\ r \in Seq(Cards) /\ IsInjective(r)
    /\ \A x : On(r, x) <=> On(q, x) \/ x \in S
    /\ q # <<>> => r # <<>> /\ r[1] = q[1]

\* enqueueConfirmation adds a card it does not have at the end.
LEMMA AddIs ==
    ASSUME NEW q \in Seq(Cards), IsInjective(q), NEW c \in Cards
    PROVE  Grown(q, Add(q, c), {c})
<1>1. DOMAIN q = 1 .. Len(q) /\ Len(q) \in Nat
    OBVIOUS
<1>2. CASE \E i \in DOMAIN q : q[i] = c
    BY <1>1, <1>2 DEF Add, Grown, On
<1>3. CASE ~ \E i \in DOMAIN q : q[i] = c
    <2> DEFINE r == Append(q, c)
    <2>1. /\ r \in Seq(Cards) /\ Len(r) = Len(q) + 1 /\ r[Len(q) + 1] = c
          /\ \A i \in 1 .. Len(q) : r[i] = q[i]
        BY AppendProperties
    <2>2. DOMAIN r = 1 .. Len(q) + 1
        BY <2>1
    <2>3. Add(q, c) = r
        BY <1>3 DEF Add
    <2> HIDE DEF r
    <2>4. IsInjective(r)
        BY <1>1, <1>3, <2>1, <2>2 DEF IsInjective
    <2>5. \A x : On(r, x) <=> On(q, x) \/ x = c
        BY <1>1, <2>1 DEF On
    <2>6. q # <<>> => r # <<>> /\ r[1] = q[1]
        BY <1>1, <2>1
    <2> QED
        BY <2>1, <2>3, <2>4, <2>5, <2>6 DEF Grown
<1> QED
    BY <1>2, <1>3

\* Adding a list's cards one by one: a function with that equation exists, by
\* induction on the number of cards.
LEMMA JoinedExists ==
    ASSUME NEW q, NEW cards \in Seq(Cards)
    PROVE  \E g : g = [i \in 0 .. Len(cards) |->
                          IF i = 0 THEN q ELSE Add(g[i - 1], cards[i])]
<1> DEFINE Joins(n, g) == g = [i \in 0 .. n |-> IF i = 0 THEN q ELSE Add(g[i - 1], cards[i])]
           Bad == {n \in Nat : \A g : ~Joins(n, g)}
<1>1. SUFFICES Bad = {}
    BY DEF Bad
<1>2. SUFFICES ASSUME Bad # {} PROVE FALSE
    OBVIOUS
<1>3. PICK n \in Bad : \A k \in Bad : n <= k
    BY <1>2, LeastNumber
<1>4. n # 0
    <2>1. Joins(0, [i \in 0 .. 0 |-> q])
        OBVIOUS
    <2> QED
        BY <1>3, <2>1
<1>5. n - 1 \in Nat /\ n \in Nat /\ n - 1 \notin Bad
    BY <1>3, <1>4
<1>6. PICK f : Joins(n - 1, f)
    BY <1>5
<1> DEFINE g == [i \in 0 .. n |-> IF i < n THEN f[i] ELSE Add(f[n - 1], cards[n])]
<1>7. ASSUME NEW i \in 0 .. n
      PROVE  g[i] = IF i = 0 THEN q ELSE Add(g[i - 1], cards[i])
    <2>1. CASE i = 0
        BY <1>5, <1>6, <2>1
    <2>2. CASE i # 0 /\ i < n
        <3>1. i \in 0 .. n - 1 /\ i - 1 \in 0 .. n /\ i - 1 < n
            BY <1>5, <2>2
        <3>2. f[i] = Add(f[i - 1], cards[i])
            BY <1>6, <2>2, <3>1
        <3> QED
            BY <2>2, <3>1, <3>2
    <2>3. CASE i = n
        BY <1>4, <1>5, <2>3
    <2> QED
        BY <1>5, <2>1, <2>2, <2>3
<1>8. Joins(n, g)
    BY <1>7
<1> QED
    BY <1>3, <1>8

\* The cards of a list join the queue behind those it has, once each.
LEMMA AddAllIs ==
    ASSUME NEW q \in Seq(Cards), IsInjective(q), NEW cards \in Seq(Cards)
    PROVE  Grown(q, AddAll(q, cards), {cards[i] : i \in 1 .. Len(cards)})
<1> DEFINE f == CHOOSE g : g = [i \in 0 .. Len(cards) |->
                                   IF i = 0 THEN q ELSE Add(g[i - 1], cards[i])]
<1>1. AddAll(q, cards) = f[Len(cards)]
    BY DEF AddAll
<1>2. f = [i \in 0 .. Len(cards) |-> IF i = 0 THEN q ELSE Add(f[i - 1], cards[i])]
    BY JoinedExists
<1> HIDE DEF f
<1> DEFINE Before(n) == {cards[i] : i \in 1 .. n}
           Bad == {n \in 0 .. Len(cards) : ~Grown(q, f[n], Before(n))}
<1>3. Len(cards) \in Nat
    OBVIOUS
<1>4. SUFFICES Bad = {}
    <2>1. Len(cards) \notin Bad => Grown(q, f[Len(cards)], Before(Len(cards)))
        BY <1>3
    <2> QED
        BY <1>1, <2>1
<1>5. SUFFICES ASSUME Bad # {} PROVE FALSE
    OBVIOUS
<1>6. PICK n \in Bad : \A k \in Bad : n <= k
    <2>1. Bad \in SUBSET Nat
        BY <1>3
    <2> QED
        BY <1>5, <2>1, LeastNumber, Zenon
<1>7. n \in 0 .. Len(cards) /\ ~Grown(q, f[n], Before(n))
    BY <1>6
<1>8. n # 0
    <2>1. f[0] = q /\ Before(0) = {}
        BY <1>2, <1>3
    <2> QED
        BY <1>7, <2>1 DEF Grown
<1>9. n - 1 \in 0 .. Len(cards) /\ n \in 1 .. Len(cards) /\ n - 1 \notin Bad
    <2>1. n - 1 \in 0 .. Len(cards) /\ n \in 1 .. Len(cards) /\ ~ (n <= n - 1)
        BY <1>3, <1>7, <1>8
    <2> HIDE DEF Bad
    <2> QED
        BY <1>6, <2>1
<1> DEFINE p == f[n - 1]
<1>10. Grown(q, p, Before(n - 1))
    BY <1>9
<1>11. f[n] = Add(p, cards[n]) /\ cards[n] \in Cards
    BY <1>2, <1>9
<1> HIDE DEF p
<1>12. Grown(p, Add(p, cards[n]), {cards[n]})
    BY <1>10, <1>11, AddIs DEF Grown
<1>13. Before(n) = Before(n - 1) \cup {cards[n]}
    <2>1. 1 .. n = (1 .. n - 1) \cup {n}
        BY <1>9
    <2> QED
        BY <2>1
<1>14. Grown(q, f[n], Before(n))
    <2> HIDE DEF Before
    <2> QED
        BY <1>10, <1>11, <1>12, <1>13 DEF Grown
<1> QED
    BY <1>7, <1>14

\* removeConfirmation takes one card out and leaves the others in their order.
LEMMA DropIs ==
    ASSUME NEW q \in Seq(Cards), IsInjective(q), NEW c
    PROVE  /\ Drop(q, c) \in Seq(Cards) /\ IsInjective(Drop(q, c)) /\ ~On(Drop(q, c), c)
           /\ \A x : x # c => (On(Drop(q, c), x) <=> On(q, x))
           /\ q # <<>> /\ q[1] # c => Drop(q, c) # <<>> /\ Drop(q, c)[1] = q[1]
<1>0. DOMAIN q = 1 .. Len(q) /\ Len(q) \in Nat
    OBVIOUS
<1>1. CASE ~On(q, c)
    <2>1. Drop(q, c) = q
        BY <1>1 DEF Drop, RemoveFirst, On
    <2> QED
        BY <1>1, <2>1
<1>2. CASE On(q, c)
    <2> DEFINE I == {i \in 1 .. Len(q) : q[i] = c}
               k == Min(I)
               r == Drop(q, c)
    <2>1. \E m \in I : \A n \in I : m <= n
        <3>1. I \in SUBSET Nat /\ I # {}
            BY <1>2 DEF On
        <3> QED
            BY <3>1, LeastNumber, Zenon
    <2>2. k \in I
        BY <2>1 DEF Min
    <2>3. r = SubSeq(q, 1, k - 1) \o SubSeq(q, k + 1, Len(q))
        BY <1>2 DEF Drop, RemoveFirst, RemoveAt, SelectInSeq, On
    <2>4. k \in 1 .. Len(q) /\ q[k] = c
        BY <2>2
    <2> HIDE DEF k, r, I
    <2> DEFINE a == SubSeq(q, 1, k - 1)
               b == SubSeq(q, k + 1, Len(q))
    <2>5. /\ a \in Seq(Cards) /\ Len(a) = k - 1 /\ \A i \in 1 .. k - 1 : a[i] = q[i]
          /\ b \in Seq(Cards) /\ Len(b) = Len(q) - k
          /\ \A i \in 1 .. Len(q) - k : b[i] = q[k + i]
        <3>1. a \in Seq(Cards) /\ Len(a) = k - 1 /\ \A i \in 1 .. k - 1 : a[i] = q[i]
            BY <1>0, <2>4, SubSeqProperties
        <3>2. /\ b \in Seq(Cards) /\ Len(b) = Len(q) - k
              /\ \A i \in 1 .. Len(q) - k : b[i] = q[k + i]
            <4>1. /\ k + 1 \in Int /\ Len(q) \in Int /\ k + 1 <= Len(q) + 1
                  /\ \A i \in k + 1 .. Len(q) : q[i] \in Cards
                BY <1>0, <2>4
            <4>2. /\ b \in Seq(Cards) /\ Len(b) = Len(q) - (k + 1) + 1
                  /\ \A i \in 1 .. Len(q) - (k + 1) + 1 : b[i] = q[(k + 1) + i - 1]
                BY <4>1, SubSeqProperties
            <4>3. Len(q) - (k + 1) + 1 = Len(q) - k /\ \A i \in Nat : (k + 1) + i - 1 = k + i
                BY <1>0, <2>4
            <4> HIDE DEF b
            <4> QED
                BY <4>2, <4>3
        <3> QED
            BY <3>1, <3>2
    <2>6. r = a \o b
        BY <2>3
    <2> HIDE DEF a, b
    <2>7. /\ r \in Seq(Cards) /\ Len(r) = Len(a) + Len(b)
          /\ \A i \in 1 .. Len(a) + Len(b) : r[i] = IF i <= Len(a) THEN a[i] ELSE b[i - Len(a)]
        BY <2>5, <2>6, ConcatProperties
    <2>8. Len(r) = Len(q) - 1 /\ DOMAIN r = 1 .. Len(q) - 1
        BY <1>0, <2>4, <2>5, <2>7
    <2>9. ASSUME NEW i \in 1 .. Len(q) - 1
          PROVE  r[i] = IF i < k THEN q[i] ELSE q[i + 1]
        <3>1. CASE i < k
            <4>1. i \in 1 .. k - 1 /\ i \in 1 .. Len(a) + Len(b) /\ i <= Len(a)
                BY <1>0, <2>4, <2>5, <3>1
            <4>2. r[i] = a[i] /\ a[i] = q[i]
                BY <2>5, <2>7, <4>1
            <4> QED
                BY <3>1, <4>2
        <3>2. CASE i >= k
            <4>1. i - (k - 1) \in 1 .. Len(q) - k
                BY <1>0, <2>4, <3>2
            <4>2. b[i - (k - 1)] = q[k + (i - (k - 1))] /\ k + (i - (k - 1)) = i + 1
                BY <1>0, <2>4, <2>5, <4>1
            <4>3. r[i] = b[i - (k - 1)]
                BY <1>0, <2>4, <2>5, <2>7, <3>2
            <4> QED
                BY <1>0, <2>4, <3>2, <4>2, <4>3
        <3> QED
            BY <1>0, <2>4, <3>1, <3>2
    <2>10. IsInjective(r) /\ ~On(r, c)
        <3> DEFINE from(i) == IF i < k THEN i ELSE i + 1
        <3>1. ASSUME NEW i \in 1 .. Len(q) - 1
              PROVE  from(i) \in DOMAIN q /\ from(i) # k /\ r[i] = q[from(i)]
            BY <1>0, <2>4, <2>9
        <3>2. ASSUME NEW i \in 1 .. Len(q) - 1, NEW j \in 1 .. Len(q) - 1, from(i) = from(j)
              PROVE  i = j
            BY <1>0, <2>4, <3>2
        <3> HIDE DEF from
        <3>3. IsInjective(r)
            BY <2>8, <3>1, <3>2 DEF IsInjective
        <3>4. ~On(r, c)
            BY <1>0, <2>4, <2>8, <3>1 DEF IsInjective, On
        <3> QED
            BY <3>3, <3>4
    <2>11. ASSUME NEW x, x # c, On(q, x) PROVE On(r, x)
        <3> PICK i \in 1 .. Len(q) : q[i] = x
            BY <2>11 DEF On
        <3>1. CASE i < k
            BY <1>0, <2>4, <2>8, <2>9, <3>1 DEF On
        <3>2. CASE i > k
            <4>1. i - 1 \in 1 .. Len(q) - 1 /\ r[i - 1] = x
                BY <1>0, <2>4, <2>9, <3>2
            <4> QED
                BY <2>8, <4>1 DEF On
        <3> QED
            BY <1>0, <2>4, <2>11, <3>1, <3>2
    <2>12. ASSUME NEW x, On(r, x) PROVE On(q, x)
        <3> PICK i \in 1 .. Len(r) : r[i] = x
            BY <2>12 DEF On
        <3>1. i \in 1 .. Len(q) /\ i + 1 \in 1 .. Len(q)
            BY <1>0, <2>8
        <3> QED
            BY <2>8, <2>9, <3>1 DEF On
    <2>13. q[1] # c => r # <<>> /\ r[1] = q[1]
        BY <1>0, <2>4, <2>8, <2>9
    <2> QED
        BY <2>7, <2>10, <2>11, <2>12, <2>13 DEF r
<1> QED
    BY <1>1, <1>2

\* What is in a sequence that has grown, and in one whose first element is read.
LEMMA AppendOn ==
    ASSUME NEW S, NEW s \in Seq(S), NEW e \in S
    PROVE  Append(s, e) \in Seq(S) /\ \A x : On(Append(s, e), x) <=> On(s, x) \/ x = e
<1> DEFINE r == Append(s, e)
<1>1. /\ r \in Seq(S) /\ Len(r) = Len(s) + 1 /\ r[Len(s) + 1] = e
      /\ \A i \in 1 .. Len(s) : r[i] = s[i]
    BY AppendProperties
<1>2. Len(s) \in Nat
    OBVIOUS
<1> HIDE DEF r
<1>3. \A x : On(r, x) <=> On(s, x) \/ x = e
    BY <1>1, <1>2 DEF On
<1> QED
    BY <1>1, <1>3 DEF r

\* The first element, and the others.
LEMMA TailOn ==
    ASSUME NEW S, NEW s \in Seq(S), s # <<>>
    PROVE  /\ Head(s) = s[1] /\ s[1] \in S /\ On(s, s[1]) /\ Tail(s) \in Seq(S)
           /\ \A x : On(s, x) <=> x = s[1] \/ On(Tail(s), x)
<1> DEFINE r == Tail(s)
<1>1. /\ r \in Seq(S) /\ Len(r) = Len(s) - 1 /\ Head(s) = s[1]
      /\ \A i \in 1 .. Len(s) - 1 : r[i] = s[i + 1]
    BY HeadTailProperties
<1>2. Len(s) \in Nat \ {0} /\ s[1] \in S
    BY EmptySeq
<1> HIDE DEF r
<1>3. ASSUME NEW x, On(s, x) PROVE x = s[1] \/ On(r, x)
    <2> PICK i \in 1 .. Len(s) : s[i] = x
        BY <1>3 DEF On
    <2>1. CASE i # 1
        <3>1. i - 1 \in 1 .. Len(s) - 1 /\ r[i - 1] = x
            BY <1>1, <1>2, <2>1
        <3> QED
            BY <1>1, <3>1 DEF On
    <2> QED
        BY <2>1
<1>4. ASSUME NEW x, On(r, x) PROVE On(s, x)
    <2> PICK i \in 1 .. Len(r) : r[i] = x
        BY <1>4 DEF On
    <2>1. i + 1 \in 1 .. Len(s) /\ s[i + 1] = x
        BY <1>1, <1>2
    <2> QED
        BY <2>1 DEF On
<1>5. On(s, s[1])
    BY <1>2 DEF On
<1> QED
    BY <1>1, <1>2, <1>3, <1>4, <1>5 DEF r

\* The values a list takes.
LEMMA ListFacts ==
    ASSUME QueueTypeOK, NEW l \in Lists
    PROVE  /\ lists[l].at \in {"new", "asked", "answered", "read"}
           /\ Listed(l) => lists[l].cards \in Seq(Cards)
BY DEF QueueTypeOK, Listed

\* At the start nothing is stored, sent or shown.
LEMMA QueueInvInit == QueueInit => QueueInv
<1> SUFFICES ASSUME QueueInit PROVE QueueInv
    OBVIOUS
<1>1. <<>> \in Seq(Cards) /\ <<>> \in Seq(Messages) /\ DOMAIN <<>> = 1 .. Len(<<>>)
      /\ Len(<<>>) = 0
    BY EmptySeq
<1>2. IsInjective(<<>>) /\ \A x : ~On(<<>>, x)
    BY <1>1 DEF IsInjective, On
<1>3. QueueTypeOK
    <2>1. NotAsked \in [at : {"new", "asked", "read"}]
        BY DEF NotAsked
    <2>2. lists \in [Lists -> [at : {"new", "asked", "read"}]
                             \cup [at : {"answered"}, cards : Seq(Cards)]]
        BY <2>1, Zenon DEF QueueInit
    <2>3. conf \in [Cards -> {"none", "pending", "closed"}] /\ clicks \in 0 .. MaxClicks
        BY QueueAssumption DEF QueueInit
    <2>4. wire \in Seq(Messages) /\ queue \in Seq(Cards) /\ IsInjective(queue)
        BY <1>1, <1>2, Zenon DEF QueueInit
    <2> QED
        BY <2>2, <2>3, <2>4 DEF QueueInit, QueueTypeOK
<1>4. Stored /\ Shows /\ Pending = {}
    BY <1>2 DEF QueueInit, Stored, Shows, Pending, NotAsked, Listed
<1> QED
    BY <1>3, <1>4, FS_EmptySet DEF QueueInv

\* What the backend stores it is about to announce.
LEMMA RequireKeeps == ASSUME QueueInv, NEW c \in Cards, Require(c) PROVE QueueInv'
<1> USE DEF QueueInv, Require, socket, view
<1>1. QueueTypeOK'
    BY DEF QueueTypeOK, Messages
<1>2. Stored'
    BY DEF Stored, QueueTypeOK, Messages, Listed
<1>3. (online /\ ~blind => \A d \in Pending : Coming(d))'
    BY DEF Coming, Pending, Listed, Request, QueueTypeOK
<1>4. IsFiniteSet(Pending')
    <2>1. Pending' = Pending \cup {c}
        BY DEF Pending, QueueTypeOK
    <2> QED
        BY <2>1, FS_AddElement
<1> QED
    BY <1>1, <1>2, <1>3, <1>4 DEF Shows

\* What it closes needs no card any more.
LEMMA CloseKeeps == ASSUME QueueInv, NEW c \in Cards, Close(c) PROVE QueueInv'
<1> USE DEF QueueInv, Close, socket, view
<1>1. QueueTypeOK'
    BY DEF QueueTypeOK, Messages
<1>2. Stored'
    BY DEF Stored, QueueTypeOK, Messages, Listed
<1>3. (online /\ ~blind => \A d \in Pending : Coming(d))'
    BY DEF Coming, Pending, Listed, Request, QueueTypeOK
<1>4. IsFiniteSet(Pending')
    <2>1. Pending' \subseteq Pending
        BY DEF Pending, QueueTypeOK
    <2> QED
        BY <2>1, FS_Subset
<1> QED
    BY <1>1, <1>2, <1>3, <1>4 DEF Shows

\* What it announces is on the wire, if there is one.
LEMMA BroadcastKeeps == ASSUME QueueInv, NEW m \in unsent, Broadcast(m) PROVE QueueInv'
<1> USE DEF QueueInv, Broadcast, view
<1>1. m \in Messages /\ wire \in Seq(Messages)
    BY DEF QueueTypeOK
<1>2. /\ Append(wire, m) \in Seq(Messages)
      /\ \A x : On(Append(wire, m), x) <=> On(wire, x) \/ x = m
    BY <1>1, AppendOn
<1>3. /\ wire' \in Seq(Messages) /\ \A x : On(wire', x) => On(wire, x) \/ x = m
      /\ online => \A x : On(wire, x) \/ x = m => On(wire', x)
    BY <1>1, <1>2
<1>4. QueueTypeOK'
    BY <1>3 DEF QueueTypeOK
<1>5. Stored'
    BY <1>3 DEF Stored, Listed
<1>6. (online /\ ~blind => \A d \in Pending : Coming(d))'
    BY <1>3 DEF Coming, Pending, Listed, Request
<1> QED
    BY <1>4, <1>5, <1>6 DEF Shows, Pending

\* A list of pending confirmations has all that are still pending.
LEMMA ListKeeps == ASSUME QueueInv, NEW l \in Lists, List(l) PROVE QueueInv'
<1> USE DEF QueueInv, view
<1>1. PICK overdue \in SUBSET Pending :
          /\ conf' = [c \in Cards |-> IF c \in overdue THEN "closed" ELSE conf[c]]
          /\ \E cards \in Orders(Pending \ overdue) :
                lists' = [lists EXCEPT ![l] = [at |-> "answered", cards |-> cards]]
    BY DEF List
<1>2. PICK cards \in Orders(Pending \ overdue) :
          lists' = [lists EXCEPT ![l] = [at |-> "answered", cards |-> cards]]
    BY <1>1
<1>3. UNCHANGED <<unsent, online, wire, queue, shown, submitting, reply, clicks, blind>>
    BY DEF List
<1>4. cards \in Seq(Cards) /\ \A x : On(cards, x) <=> x \in Pending \ overdue
    <2> DEFINE n == Cardinality(Pending \ overdue)
    <2>1. /\ cards \in [1 .. n -> Pending \ overdue]
          /\ \A x \in Pending \ overdue : \E i \in 1 .. n : cards[i] = x
        BY <1>2 DEF Orders, Bijection, Injection, Surjection
    <2>2. n \in Nat
        BY FS_Subset, FS_CardinalityType
    <2> HIDE DEF n
    <2>3. cards \in Seq(Pending \ overdue) /\ Len(cards) = n
        BY <2>1, <2>2
    <2> QED
        BY <2>1, <2>3 DEF On, Pending
<1>5. /\ \A k \in Lists : k # l => lists'[k] = lists[k]
      /\ lists'[l] = [at |-> "answered", cards |-> cards]
    BY <1>2 DEF QueueTypeOK
<1>6. QueueTypeOK'
    <2>1. lists' \in [Lists -> [at : {"new", "asked", "read"}]
                             \cup [at : {"answered"}, cards : Seq(Cards)]]
        BY <1>2, <1>4 DEF QueueTypeOK
    <2> QED
        BY <1>1, <1>3, <2>1 DEF QueueTypeOK
<1>7. \A c \in Cards : /\ conf'[c] = "pending" <=> c \in Pending \ overdue
                       /\ conf[c] # "none" => conf'[c] # "none"
                       /\ conf[c] = "closed" => conf'[c] = "closed"
    BY <1>1 DEF Pending, QueueTypeOK
<1>8. Stored'
    <2>1. \A c \in Cards : conf[c] = "pending" => conf'[c] # "none"
        BY <1>1
    <2>2. ASSUME NEW k \in Lists, NEW c \in Cards, Listed(k)', On(lists'[k].cards, c)
          PROVE  conf'[c] # "none"
        BY <1>4, <1>5, <1>7, <2>2 DEF Stored, Listed
    <2> QED
        BY <1>3, <1>7, <2>2 DEF Stored, Messages, QueueTypeOK
<1>9. ASSUME online, ~blind, NEW c \in Pending' PROVE Coming(c)'
    <2>1. On(lists'[l].cards, c) /\ Listed(l)'
        BY <1>4, <1>5, <1>7 DEF Pending, Listed
    <2> QED
        BY <2>1 DEF Coming
<1>10. IsFiniteSet(Pending')
    <2>1. Pending' \subseteq Pending
        BY <1>7 DEF Pending
    <2> QED
        BY <2>1, FS_Subset
<1> QED
    BY <1>3, <1>6, <1>8, <1>9, <1>10 DEF Shows

\* A decision closes what it finds pending; only then, or when it was closed
\* before, it is answered as done.
LEMMA DecideKeeps == ASSUME QueueInv, Decide \/ DecideFails PROVE QueueInv'
<1> USE DEF QueueInv, Decide, DecideFails, socket, view, backend
<1>1. /\ submitting \in Cards /\ reply' \in {"done", "failed"}
      /\ UNCHANGED <<online, wire, lists, queue, shown, submitting, clicks, blind>>
    BY DEF QueueTypeOK
<1>2. /\ \/ conf' = [conf EXCEPT ![submitting] = "closed"]
         \/ conf' = conf
      /\ unsent \subseteq unsent'
      /\ \A m \in unsent' : m \in unsent \/ (m.is = "updated" /\ m.card = submitting
                                             /\ conf'[submitting] = "closed" /\ m \in Messages)
      /\ conf[submitting] # "pending" \/ reply' = "failed" \/ conf'[submitting] = "closed"
    BY <1>1 DEF Messages, QueueTypeOK
<1>3. \A c \in Cards : /\ conf'[c] = "pending" => conf[c] = "pending"
                       /\ conf[c] # "none" => conf'[c] # "none"
                       /\ conf[c] = "closed" => conf'[c] = "closed"
    BY <1>1, <1>2 DEF QueueTypeOK
<1>4. QueueTypeOK'
    BY <1>1, <1>2 DEF QueueTypeOK
<1>5. Stored'
    <2>1. conf[submitting] # "none" /\ conf[submitting] # "pending" => conf[submitting] = "closed"
        BY <1>1 DEF QueueTypeOK
    <2>2. reply' = "done" => conf'[submitting] = "closed"
        BY <1>1, <1>2, <1>3, <2>1 DEF Stored
    <2>3. \A m \in Messages : m \in unsent' \/ On(wire', m) =>
              conf'[m.card] # "none" /\ (m.is = "updated" => conf'[m.card] = "closed")
        BY <1>1, <1>2, <1>3 DEF Stored, Messages
    <2> QED
        BY <1>1, <1>3, <2>2, <2>3 DEF Stored, Listed
<1>6. (online /\ ~blind => \A d \in Pending : Coming(d))'
    BY <1>1, <1>2, <1>3 DEF Coming, Pending, Listed
<1>7. IsFiniteSet(Pending')
    <2>1. Pending' \subseteq Pending
        BY <1>3 DEF Pending
    <2> QED
        BY <2>1, FS_Subset
<1> QED
    BY <1>1, <1>4, <1>5, <1>6, <1>7 DEF Shows

\* A socket that opens has a list asked for; one that closes is waited for.
LEMMA SocketKeeps == ASSUME QueueInv, Open \/ Lose PROVE QueueInv'
<1> USE DEF QueueInv, view, backend
<1>1. CASE Open
    <2>1. PICK l \in Lists : lists' = [lists EXCEPT ![l] = [at |-> "asked"]]
        BY <1>1 DEF Open, Ask
    <2>2. /\ online' = TRUE
          /\ UNCHANGED <<conf, unsent, wire, queue, shown, submitting, reply, clicks, blind>>
        BY <1>1 DEF Open
    <2>3. \A k \in Lists : k # l => lists'[k] = lists[k]
        BY <2>1 DEF QueueTypeOK
    <2>4. lists'[l] = [at |-> "asked"]
        BY <2>1 DEF QueueTypeOK
    <2>5. QueueTypeOK'
        <3>1. lists' \in [Lists -> [at : {"new", "asked", "read"}]
                                 \cup [at : {"answered"}, cards : Seq(Cards)]]
            BY <2>1 DEF QueueTypeOK
        <3> QED
            BY <2>2, <3>1 DEF QueueTypeOK
    <2>6. Stored'
        BY <2>2, <2>3, <2>4 DEF Stored, Listed
    <2>7. \A c : Coming(c)'
        BY <2>4 DEF Coming
    <2> QED
        BY <2>2, <2>5, <2>6, <2>7 DEF Shows, Pending
<1>2. CASE Lose
    <2>1. /\ online' = FALSE /\ wire' = <<>>
          /\ UNCHANGED <<conf, unsent, lists, queue, shown, submitting, reply, clicks, blind>>
        BY <1>2 DEF Lose
    <2>2. wire' \in Seq(Messages) /\ \A x : ~On(wire', x)
        BY <2>1, EmptySeq DEF On
    <2>3. QueueTypeOK' /\ Stored'
        BY <2>1, <2>2 DEF QueueTypeOK, Stored, Listed
    <2> QED
        BY <2>1, <2>3 DEF Shows, Pending
<1> QED
    BY <1>1, <1>2

\* What a rendering shows.
LEMMA RenderIs ==
    ASSUME NEW q \in Seq(Cards), Render(q)
    PROVE  shown' \in Cards \cup {NoCard} /\ (q # <<>> => shown' = q[1])
BY TailOn DEF Render

\* What the queue may become: cards go that are closed, and the first stays.
Careful ==
    /\ queue' \in Seq(Cards) /\ IsInjective(queue')
    /\ \A c \in Cards : On(queue, c) /\ ~On(queue', c) => conf[c] = "closed"
    /\ queue # <<>> /\ On(queue', queue[1]) => queue' # <<>> /\ queue'[1] = queue[1]

\* Growing is careful, ...
LEMMA GrownCareful ==
    ASSUME QueueTypeOK, NEW S, Grown(queue, queue', S) PROVE Careful
BY DEF Grown, Careful

\* ... and so is to drop a closed card.
LEMMA DropCareful ==
    ASSUME QueueTypeOK, NEW c \in Cards, conf[c] = "closed", queue' = Drop(queue, c)
    PROVE  Careful
<1>1. queue \in Seq(Cards) /\ IsInjective(queue)
    BY DEF QueueTypeOK
<1>2. /\ queue' \in Seq(Cards) /\ IsInjective(queue') /\ ~On(queue', c)
      /\ \A x : x # c => (On(queue', x) <=> On(queue, x))
      /\ queue # <<>> /\ queue[1] # c => queue' # <<>> /\ queue'[1] = queue[1]
    BY <1>1, DropIs
<1> QED
    BY <1>2 DEF Careful

\* A message puts a card into the queue or takes out a closed one.
LEMMA ReceiveKeeps == ASSUME QueueInv, Receive PROVE QueueInv' /\ Careful
<1> USE DEF QueueInv, backend
<1> DEFINE m == Head(wire)
<1>1. /\ wire # <<>> /\ wire' = Tail(wire) /\ Render(queue')
      /\ queue' = IF m.is = "required" THEN Add(queue, m.card) ELSE Drop(queue, m.card)
      /\ UNCHANGED <<conf, unsent, online, lists, submitting, reply, clicks, blind>>
    BY DEF Receive
<1>2. /\ wire \in Seq(Messages) /\ queue \in Seq(Cards) /\ IsInjective(queue)
    BY DEF QueueTypeOK
<1>3. /\ m = wire[1] /\ m \in Messages /\ On(wire, m) /\ wire' \in Seq(Messages)
      /\ \A x : On(wire, x) <=> x = m \/ On(wire', x)
    BY <1>1, <1>2, TailOn
<1> HIDE DEF m
<1>4. m.card \in Cards /\ m.is \in {"required", "updated"}
      /\ conf[m.card] # "none" /\ (m.is = "updated" => conf[m.card] = "closed")
    BY <1>3 DEF Messages, Stored
<1>5. CASE m.is = "required"
    <2>1. Grown(queue, queue', {m.card})
        BY <1>1, <1>2, <1>4, <1>5, AddIs
    <2>2. Careful /\ (\A x : On(queue', x) <=> On(queue, x) \/ x = m.card)
        BY <2>1, GrownCareful DEF Grown
    <2>3. QueueTypeOK'
        BY <1>1, <1>3, <2>2, RenderIs DEF QueueTypeOK, Careful
    <2>4. Stored'
        BY <1>1, <1>3, <1>4, <2>2 DEF Stored, Listed
    <2>5. ASSUME NEW c \in Cards, Coming(c) PROVE Coming(c)'
        <3>1. Request(c) = m => c = m.card
            BY DEF Request
        <3> QED
            BY <1>1, <1>3, <2>2, <2>5, <3>1 DEF Coming, Listed
    <2> QED
        BY <1>1, <2>2, <2>3, <2>4, <2>5, RenderIs DEF Shows, Pending, Careful
<1>6. CASE m.is = "updated"
    <2>1. queue' = Drop(queue, m.card) /\ conf[m.card] = "closed"
        BY <1>1, <1>4, <1>6
    <2>2. Careful
        BY <1>4, <2>1, DropCareful
    <2>3. \A x : /\ x # m.card => (On(queue', x) <=> On(queue, x))
                 /\ On(queue', x) => On(queue, x)
        BY <1>2, <2>1, DropIs
    <2>4. QueueTypeOK'
        BY <1>1, <1>3, <2>2, RenderIs DEF QueueTypeOK, Careful
    <2>5. Stored'
        BY <1>1, <1>3, <1>4, <2>3 DEF Stored, Listed
    <2>6. ASSUME NEW c \in Pending, Coming(c) PROVE Coming(c)'
        <3>1. Request(c) # m /\ c # m.card
            BY <1>4, <1>6 DEF Request, Pending
        <3> QED
            BY <1>1, <1>3, <2>3, <2>6, <3>1 DEF Coming, Listed
    <2> QED
        BY <1>1, <2>2, <2>4, <2>5, <2>6, RenderIs DEF Shows, Pending, Careful
<1> QED
    BY <1>4, <1>5, <1>6

\* A list that arrives adds its cards; one that does not is remembered.
LEMMA RestoreKeeps ==
    ASSUME QueueInv, NEW l \in Lists, Restore(l) \/ RestoreFails(l) PROVE QueueInv' /\ Careful
<1> USE DEF QueueInv, backend
<1>1. /\ lists' = [lists EXCEPT ![l] = [at |-> "read"]]
      /\ UNCHANGED <<conf, unsent, online, wire, submitting, reply, clicks>>
    BY DEF Restore, RestoreFails
<1>2. /\ \A k \in Lists : k # l => lists'[k] = lists[k]
      /\ lists'[l] = [at |-> "read"]
    BY <1>1 DEF QueueTypeOK
<1>3. lists' \in [Lists -> [at : {"new", "asked", "read"}]
                         \cup [at : {"answered"}, cards : Seq(Cards)]]
    BY <1>1 DEF QueueTypeOK
<1>4. queue \in Seq(Cards) /\ IsInjective(queue)
    BY DEF QueueTypeOK
<1>5. CASE Restore(l)
    <2> DEFINE cards == lists[l].cards
    <2>1. /\ Listed(l) /\ lists[l].at = "answered" /\ cards \in Seq(Cards)
          /\ queue' = AddAll(queue, cards) /\ Render(queue') /\ blind' = blind
        BY <1>5, ListFacts DEF Restore, Listed
    <2> HIDE DEF cards
    <2>2. Grown(queue, queue', {cards[i] : i \in 1 .. Len(cards)})
        BY <1>4, <2>1, AddAllIs
    <2>3. Careful /\ (\A x : On(queue', x) <=> On(queue, x) \/ On(cards, x))
        BY <2>2, GrownCareful DEF Grown, On
    <2>4. QueueTypeOK'
        BY <1>1, <1>3, <2>1, <2>3, RenderIs DEF QueueTypeOK, Careful
    <2>5. \A c \in Cards : On(cards, c) => conf[c] # "none"
        BY <2>1 DEF Stored, cards
    <2>6. Stored'
        BY <1>1, <1>2, <2>3, <2>5 DEF Stored, Listed
    <2>7. ASSUME NEW c \in Pending, Coming(c) PROVE Coming(c)'
        <3>1. CASE On(queue, c) \/ On(cards, c)
            BY <2>3, <3>1 DEF Coming
        <3>2. CASE Request(c) \in unsent \/ On(wire, Request(c))
            BY <1>1, <3>2 DEF Coming
        <3>3. CASE \E k \in Lists : lists[k].at = "asked" \/ (Listed(k) /\ On(lists[k].cards, c))
            <4> PICK k \in Lists : lists[k].at = "asked" \/ (Listed(k) /\ On(lists[k].cards, c))
                BY <3>3
            <4>1. CASE k # l
                BY <1>2, <4>1 DEF Coming, Listed
            <4>2. CASE k = l
                BY <2>1, <3>1, <4>2 DEF cards
            <4> QED
                BY <4>1, <4>2
        <3> QED
            BY <2>7, <3>1, <3>2, <3>3 DEF Coming
    <2> QED
        BY <1>1, <2>1, <2>3, <2>4, <2>6, <2>7, RenderIs DEF Shows, Pending, Careful
<1>6. CASE RestoreFails(l)
    <2>1. /\ queue' = queue /\ blind' = TRUE
          /\ shown' = IF queue = <<>> THEN "unknown" ELSE shown
        BY <1>6 DEF RestoreFails
    <2>2. QueueTypeOK'
        BY <1>1, <1>3, <2>1 DEF QueueTypeOK
    <2>3. Stored'
        BY <1>1, <1>2, <2>1 DEF Stored, Listed
    <2>4. Careful
        BY <1>4, <2>1 DEF Careful
    <2> QED
        BY <1>1, <2>1, <2>2, <2>3, <2>4 DEF Shows, Pending
<1> QED
    BY <1>5, <1>6

\* The user decides on the first card, which goes when that went through.
LEMMA SubmitKeeps == ASSUME QueueInv, Click \/ Submitted PROVE QueueInv' /\ Careful
<1> USE DEF QueueInv, backend, socket
<1>1. queue \in Seq(Cards) /\ IsInjective(queue)
    BY DEF QueueTypeOK
<1>2. CASE Click
    <2>1. /\ queue # <<>> /\ queue' = queue /\ submitting' = Head(queue) /\ Render(queue')
          /\ submitting = NoCard /\ clicks < MaxClicks /\ clicks' = clicks + 1
          /\ UNCHANGED <<conf, unsent, online, wire, lists, reply, blind>>
        BY <1>2 DEF Click, Render
    <2>2. submitting' \in Cards /\ On(queue, submitting')
        BY <1>1, <2>1, TailOn
    <2>3. QueueTypeOK'
        <3>1. clicks' \in 0 .. MaxClicks
            BY <2>1, QueueAssumption DEF QueueTypeOK
        <3> QED
            BY <1>1, <2>1, <2>2, <3>1, RenderIs DEF QueueTypeOK
    <2>4. Stored'
        <3>1. reply = "none"
            BY <2>1 DEF Stored
        <3> QED
            BY <2>1, <2>2, <3>1 DEF Stored, Listed
    <2>5. Careful
        BY <1>1, <2>1 DEF Careful
    <2> QED
        BY <1>1, <2>1, <2>3, <2>4, <2>5, RenderIs DEF Shows, Pending, Coming, Listed
<1>3. CASE Submitted
    <2>1. /\ submitting # NoCard /\ reply # "none" /\ Render(queue')
          /\ queue' = IF reply = "done" THEN Drop(queue, submitting) ELSE queue
          /\ submitting' = NoCard /\ reply' = "none"
          /\ UNCHANGED <<conf, unsent, online, wire, lists, clicks, blind>>
        BY <1>3 DEF Submitted
    <2>2. submitting \in Cards /\ (reply = "done" => conf[submitting] = "closed")
        BY <2>1 DEF QueueTypeOK, Stored
    <2>3. Careful
        BY <1>1, <2>1, <2>2, DropCareful DEF Careful
    <2>4. \A x : /\ On(queue', x) => On(queue, x)
                 /\ On(queue, x) /\ ~On(queue', x) => x = submitting /\ reply = "done"
        BY <1>1, <2>1, DropIs
    <2>5. QueueTypeOK'
        BY <2>1, <2>3, RenderIs DEF QueueTypeOK, Careful
    <2>6. Stored'
        BY <2>1, <2>4 DEF Stored, Listed
    <2>7. ASSUME NEW c \in Pending, Coming(c) PROVE Coming(c)'
        BY <2>1, <2>2, <2>4, <2>7 DEF Coming, Listed, Pending
    <2> QED
        BY <2>1, <2>3, <2>5, <2>6, <2>7, RenderIs DEF Shows, Pending, Careful
<1> QED
    BY <1>2, <1>3

\* Nothing but these steps touches the queue.
LEMMA QueueStep == ASSUME QueueInv, QueueNext PROVE QueueInv' /\ Careful
<1>1. queue' = queue => Careful
    BY DEF QueueInv, QueueTypeOK, Careful
<1>2. CASE \E c \in Cards : Require(c) \/ Close(c)
    <2>1. queue' = queue
        BY <1>2 DEF Require, Close, view
    <2> QED
        BY <1>1, <1>2, <2>1, RequireKeeps, CloseKeeps
<1>3. CASE \E m \in unsent : Broadcast(m)
    <2>1. queue' = queue
        BY <1>3 DEF Broadcast, view
    <2> QED
        BY <1>1, <1>3, <2>1, BroadcastKeeps
<1>4. CASE \E l \in Lists : List(l)
    <2>1. queue' = queue
        BY <1>4 DEF List, view
    <2> QED
        BY <1>1, <1>4, <2>1, ListKeeps
<1>5. CASE \E l \in Lists : Restore(l) \/ RestoreFails(l)
    BY <1>5, RestoreKeeps
<1>6. CASE Decide \/ DecideFails
    <2>1. queue' = queue
        BY <1>6 DEF Decide, DecideFails, view
    <2> QED
        BY <1>1, <1>6, <2>1, DecideKeeps
<1>7. CASE Open \/ Lose
    <2>1. queue' = queue
        BY <1>7 DEF Open, Lose, view
    <2> QED
        BY <1>1, <1>7, <2>1, SocketKeeps
<1>8. CASE Receive
    BY <1>8, ReceiveKeeps
<1>9. CASE Click \/ Submitted
    BY <1>9, SubmitKeeps
<1> QED
    BY <1>2, <1>3, <1>4, <1>5, <1>6, <1>7, <1>8, <1>9 DEF QueueNext

\* A step that changes nothing keeps the invariant, too.
LEMMA QueueStands == QueueInv /\ [QueueNext]_queueVars => QueueInv'
<1> SUFFICES ASSUME QueueInv, UNCHANGED queueVars PROVE QueueInv'
    BY QueueStep
<1> QED
    BY DEF QueueInv, QueueTypeOK, Stored, Shows, Coming, Pending, Listed, queueVars, backend,
           socket, view

\* The invariant holds in every state of the queue.
LEMMA AlwaysQueue == QueueSpec => []QueueInv
BY QueueInvInit, QueueStands, PTL DEF QueueSpec

\* For any number of confirmations, connections and decisions, and whatever the
\* socket loses or the lists overtake: once everything has arrived, each pending
\* confirmation has its card (restorePendingConfirmations, handleConfirmationUpdate).
THEOREM CardsTheorem == QueueSpec => []CardsAgree
<1>1. QueueInv => CardsAgree
    <2> SUFFICES ASSUME QueueInv, Quiet, ~blind, NEW c \in Pending PROVE InQueue(c)
        BY DEF QueueInv, CardsAgree, NothingHidden
    <2>1. Coming(c)
        BY DEF QueueInv, Quiet
    <2>2. \A x : ~On(wire, x)
        BY EmptySeq DEF Quiet, On
    <2>3. On(queue, c)
        BY <2>1, <2>2 DEF Coming, Quiet, Listed
    <2> QED
        BY <2>3 DEF On, InQueue, QueueInv, QueueTypeOK
<1> QED
    BY <1>1, AlwaysQueue, PTL

\* A card leaves the queue only when its confirmation is closed, and the one the
\* user sees stays the first (removeConfirmation, enqueueConfirmation).
THEOREM KeepsTheorem == QueueSpec => QueueKeeps
<1>1. QueueInv /\ [QueueNext]_queueVars => [DropsClosed /\ KeepsFirst]_queueVars
    <2> SUFFICES ASSUME QueueInv, QueueNext PROVE DropsClosed /\ KeepsFirst
        OBVIOUS
    <2>1. Careful
        BY QueueStep
    <2>2. queue \in Seq(Cards) /\ queue' \in Seq(Cards)
        BY <2>1 DEF Careful, QueueInv, QueueTypeOK
    <2>3. /\ \A c : InQueue(c) <=> On(queue, c)
          /\ \A c : InQueue(c)' <=> On(queue', c)
          /\ \A c : (\E i \in DOMAIN queue' : queue'[i] = c) <=> On(queue', c)
        BY <2>2 DEF InQueue, On
    <2>4. /\ queue # <<>> => Head(queue) = queue[1]
          /\ queue' # <<>> => Head(queue') = queue'[1]
        BY <2>2, TailOn
    <2>5. DropsClosed
        BY <2>1, <2>3 DEF Careful, DropsClosed
    <2>6. KeepsFirst
        BY <2>1, <2>3, <2>4 DEF Careful, KeepsFirst, QueueInv, Shows
    <2> QED
        BY <2>5, <2>6
<1> QED
    BY <1>1, AlwaysQueue, PTL DEF QueueSpec, QueueKeeps
=============================================================================
