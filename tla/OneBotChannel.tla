---------------------------- MODULE OneBotChannel ----------------------------
(***************************************************************************)
(* The QQ channel: the socket NapCat opens on /ws/qq, one asyncio task per *)
(* event it delivers, and the actions a task sends back and waits for.     *)
(*                                                                         *)
(* A delivery is authorised and claimed in memory, looked up in the store, *)
(* rate limited, processed by the application under a semaphore, and its   *)
(* reply is sent in chunks, each an action that waits for its answer.  The *)
(* receive loop of a socket starts the tasks and reads the answers; when   *)
(* it ends, it detaches the socket and cancels the tasks it started.       *)
(*                                                                         *)
(* asyncio runs one task at a time, up to an await that suspends.  The     *)
(* connection's lock is never held over such an await, so each of its      *)
(* sections is part of the step around it.  The store row and the answer   *)
(* stand for the application, which AssistantChat models.                  *)
(***************************************************************************)
EXTENDS Naturals, Sequences, FiniteSets, SequencesExt

CONSTANTS
    Events,          \* authorised messages, by their stable message id
    Sockets,         \* connections NapCat makes, each used once
    NoSocket,
    MaxDeliveries,   \* events delivered, redeliveries included
    MaxConcurrency,  \* settings.max_concurrency
    MaxClaims,       \* RecentMessageRegistry's max_entries
    MaxChunks,       \* chunks a reply is split into
    MaxCrashes

ASSUME OneBotAssumption ==
    /\ NoSocket \notin Sockets
    /\ {MaxDeliveries, MaxConcurrency, MaxClaims, MaxChunks} \subseteq Nat \ {0}
    /\ MaxCrashes \in Nat

Tasks == 1 .. MaxDeliveries
Echoes == Tasks \X (1 .. MaxChunks)   \* an action's uuid: its task and chunk

VARIABLES
    task,       \* per delivery: stage, event, socket it came from, ...
    doomed,     \* tasks cancelled and not yet resumed
    claims,     \* recent_messages, oldest first
    queue,      \* tasks waiting for the semaphore
    slots,      \* its free slots
    sock,       \* the receive loop of each socket
    current,    \* the connection manager's websocket
    pending,    \* its pending actions
    frames,     \* actions on the wire, not answered
    row,        \* what the store holds of an event
    late,       \* events whose row a cancelled call's thread still writes
    crashes,
    spoke,      \* history: events each task sent a first chunk for
    lapsed,     \* history: events whose claim went while they were handled
    severed     \* history: sockets detached before their loop ended

volatile == <<task, doomed, claims, queue, slots, sock, current, pending, frames, late>>
vars == <<volatile, row, crashes, spoke, lapsed, severed>>

(* Stages: unborn, started, checking (the store), queued (the semaphore),  *)
(* entering and asking (the application), sending and awaiting (an         *)
(* action), done.                                                          *)
Holding == {"entering", "asking"}
Sending == {"sending", "awaiting"}
Alive == {t \in Tasks : task[t].at \notin {"unborn", "done"}}
Runs(t, at) == t \in Alive \ doomed /\ task[t].at = at

Init ==
    /\ task = [t \in Tasks |-> [at |-> "unborn"]]
    /\ doomed = {} /\ claims = <<>> /\ queue = <<>> /\ slots = MaxConcurrency
    /\ sock = [s \in Sockets |-> "new"] /\ current = NoSocket
    /\ pending = {} /\ frames = {}
    /\ row = [e \in Events |-> "none"] /\ late = {} /\ crashes = 0
    /\ spoke = {} /\ lapsed = {} /\ severed = {}

-----------------------------------------------------------------------------
(* The semaphore: a released slot goes to the first that waits.            *)

Hold(T) == [T EXCEPT !.at = "entering"]

\* Variant: a holder keeps its slot.
NoRelease(tk, q) == task' = tk /\ queue' = q /\ slots' = slots
\* tk, q: the tasks and the queue after the step's own changes
ReleaseSlot(tk, q) ==
    IF q = <<>>
    THEN task' = tk /\ queue' = q /\ slots' = slots + 1
    ELSE task' = [tk EXCEPT ![Head(q)] = Hold(@)] /\ queue' = Tail(q) /\ slots' = slots

Done == [at |-> "done"]
End(t) == [task EXCEPT ![t] = Done]
Ends(t) == task' = End(t) /\ UNCHANGED <<queue, slots>>

-----------------------------------------------------------------------------
(* The connection manager.                                                 *)

Mine(t) == {echo \in pending : echo[1] = t}

\* Variant: the actions are forgotten without telling those who wait.
FailNobody(tk, lost) == tk
\* The futures of the actions in lost fail with a lost connection.
Fail(tk, lost) ==
    [t \in Tasks |->
        IF t \in {echo[1] : echo \in lost} /\ tk[t].at \in Sending /\ tk[t].future = "open"
        THEN [tk[t] EXCEPT !.future = "lost"] ELSE tk[t]]

\* Variant: whichever socket asks, the current one is dropped.
IsAttached(s) == current # NoSocket
\* detach: only the socket that is attached
Attached(s) == current = s

\* detach(s) as a step that leaves the tasks tk and the actions ps
Detach(s, tk, ps) ==
    IF Attached(s)
    THEN /\ current' = NoSocket /\ pending' = {} /\ task' = Fail(tk, ps)
    ELSE current' = current /\ pending' = ps /\ task' = tk

\* The first half of send_action: register chunk k of n, or fail.  tk, ps are
\* the tasks and actions before; the step ends the task when nobody is attached.
Registered(tk, t, k, n) ==
    [tk EXCEPT ![t] = IF current = NoSocket THEN Done
                      ELSE [at |-> "sending", event |-> task[t].event, from |-> task[t].from,
                            via |-> current, chunk |-> k, of |-> n, future |-> "open"]]
NowPending(ps, t, k) == IF current = NoSocket THEN ps ELSE ps \cup {<<t, k>>}

\* process() has returned a reply of n chunks, none for an action or a blank:
\* the slot is released and the first chunk registered.
Reply(t, n) ==
    /\ ReleaseSlot(IF n = 0 THEN End(t) ELSE Registered(task, t, 1, n), queue)
    /\ pending' = IF n = 0 THEN pending ELSE NowPending(pending, t, 1)

-----------------------------------------------------------------------------
(* The receive loop of a socket.                                           *)

\* attach, refused to a second socket, which stays out
Attach(s) ==
    /\ sock[s] = "new" /\ current = NoSocket
    /\ sock' = [sock EXCEPT ![s] = "open"] /\ current' = s
    /\ UNCHANGED <<task, doomed, claims, queue, slots, pending, frames, late,
                   row, crashes, spoke, lapsed, severed>>

\* A frame that is an event: a task of its own.
Deliver(s, e) ==
    /\ sock[s] = "open"
    /\ \E t \in Tasks :
          /\ task[t].at = "unborn"
          /\ \A u \in Tasks : u < t => task[u].at # "unborn"
          /\ task' = [task EXCEPT ![t] = [at |-> "started", event |-> e, from |-> s]]
    /\ UNCHANGED <<doomed, claims, queue, slots, sock, current, pending, frames, late,
                   row, crashes, spoke, lapsed, severed>>

\* A frame that answers an action.  The answer to an action nobody waits for
\* any more goes on as an event, which the parser ignores.
Answer(f, ok) ==
    /\ f \in frames /\ sock[f.on] = "open"
    /\ frames' = frames \ {f}
    /\ LET t == f.echo[1] IN
       task' = IF f.echo \in pending /\ task[t].future = "open"
               THEN [task EXCEPT ![t].future = IF ok THEN "ok" ELSE "bad"] ELSE task
    /\ UNCHANGED <<doomed, claims, queue, slots, sock, current, pending, late,
                   row, crashes, spoke, lapsed, severed>>

From(s) == {t \in Alive : task[t].from = s}

\* The loop ends, by a disconnect or the third invalid frame: detach, cancel
\* the tasks, wait for them.
HangUp(s) ==
    /\ sock[s] = "open" /\ sock' = [sock EXCEPT ![s] = "closing"]
    /\ Detach(s, task, pending)
    /\ doomed' = doomed \cup From(s)
    /\ frames' = {f \in frames : f.on # s}
    /\ UNCHANGED <<claims, queue, slots, late, row, crashes, spoke, lapsed, severed>>

Gathered(s) ==
    /\ sock[s] = "closing" /\ From(s) = {}
    /\ sock' = [sock EXCEPT ![s] = "gone"]
    /\ UNCHANGED <<task, doomed, claims, queue, slots, current, pending, frames, late,
                   row, crashes, spoke, lapsed, severed>>

\* aclose, as the server stops and takes no more connections: the attached one
\* is dropped, and its loop notices later.
Close(s) ==
    /\ current = s /\ sock[s] = "open"
    /\ Detach(s, task, pending) /\ severed' = severed \cup {s}
    /\ sock' = [x \in Sockets |-> IF sock[x] = "new" THEN "gone" ELSE sock[x]]
    /\ UNCHANGED <<doomed, claims, queue, slots, frames, late, row, crashes, spoke, lapsed>>

-----------------------------------------------------------------------------
(* handle_event: the claim, the store, the rate limit.                     *)

Claimed(e) == \E i \in DOMAIN claims : claims[i] = e
Unclaim(e) == RemoveFirst(claims, e)
Handled(e) == \E t \in Alive : task[t].event = e /\ task[t].at # "started"

\* RecentMessageRegistry.claim, its test
MayClaim(e) == ~Claimed(e)

Begin(t) ==
    /\ Runs(t, "started")
    /\ LET e == task[t].event IN
       \/ /\ MayClaim(e)
          /\ LET longer == Append(claims, e) IN
             IF Len(longer) > MaxClaims
             THEN /\ claims' = Tail(longer)
                  /\ lapsed' = IF Handled(Head(longer)) THEN lapsed \cup {Head(longer)} ELSE lapsed
             ELSE claims' = longer /\ lapsed' = lapsed
          /\ task' = [task EXCEPT ![t].at = "checking"]
       \/ ~MayClaim(e) /\ task' = End(t) /\ UNCHANGED <<claims, lapsed>>
    /\ UNCHANGED <<doomed, queue, slots, sock, current, pending, frames, late,
                   row, crashes, spoke, severed>>

\* A claim is ten minutes old: prune.
Expire ==
    /\ claims # <<>>
    /\ claims' = Tail(claims)
    /\ lapsed' = IF Handled(Head(claims)) THEN lapsed \cup {Head(claims)} ELSE lapsed
    /\ UNCHANGED <<task, doomed, queue, slots, sock, current, pending, frames, late,
                   row, crashes, spoke, severed>>

\* has_seen_message raises: the claim is released, so that a redelivery counts.
CheckFails(t) ==
    /\ Runs(t, "checking")
    /\ claims' = Unclaim(task[t].event) /\ Ends(t)
    /\ UNCHANGED <<doomed, sock, current, pending, frames, late, row, crashes, spoke, lapsed, severed>>

\* Variant: the store is not asked.
SeenNever(e) == FALSE
\* has_seen_message
HasSeen(e) == row[e] # "none"

\* Seen before, or refused by the sender's rate limit; the claim stays.
Dropped(t) ==
    /\ Runs(t, "checking") /\ Ends(t)
    /\ UNCHANGED <<doomed, claims, sock, current, pending, frames, late,
                   row, crashes, spoke, lapsed, severed>>

\* Not seen and within the rate: a slot, or a place in the queue.
Admit(t) ==
    /\ Runs(t, "checking") /\ ~HasSeen(task[t].event)
    /\ IF slots > 0
       THEN task' = [task EXCEPT ![t] = Hold(@)] /\ slots' = slots - 1 /\ queue' = queue
       ELSE task' = [task EXCEPT ![t].at = "queued"] /\ queue' = Append(queue, t) /\ slots' = slots
    /\ UNCHANGED <<doomed, claims, sock, current, pending, frames, late,
                   row, crashes, spoke, lapsed, severed>>

-----------------------------------------------------------------------------
(* The application, one call per conversation at a time.                   *)

Asking(e) == \E t \in Alive : task[t].event = e /\ task[t].at = "asking"

\* A new message is stored and the model asked.
Ask(t) ==
    /\ Runs(t, "entering") /\ ~Asking(task[t].event)
    /\ LET e == task[t].event IN
       row[e] = "none" /\ row' = [row EXCEPT ![e] = "asked"]
    /\ task' = [task EXCEPT ![t].at = "asking"]
    /\ UNCHANGED <<doomed, claims, queue, slots, sock, current, pending, frames, late,
                   crashes, spoke, lapsed, severed>>

\* A stored one is replayed, or refused in one chunk when it has no answer.
Replay(t) ==
    /\ Runs(t, "entering") /\ ~Asking(task[t].event)
    /\ row[task[t].event] # "none"
    /\ \E n \in IF row[task[t].event] = "answered" THEN 0 .. MaxChunks ELSE {1} : Reply(t, n)
    /\ UNCHANGED <<doomed, claims, sock, current, frames, late,
                   row, crashes, spoke, lapsed, severed>>

Answered(t) ==
    /\ Runs(t, "asking")
    /\ row' = [row EXCEPT ![task[t].event] = "answered"]
    /\ \E n \in 0 .. MaxChunks : Reply(t, n)
    /\ UNCHANGED <<doomed, claims, sock, current, frames, late, crashes, spoke, lapsed, severed>>

\* process() raises; the task ends with it.
ProcessFails(t) ==
    /\ Runs(t, "entering") \/ Runs(t, "asking")
    /\ ReleaseSlot(End(t), queue)
    /\ UNCHANGED <<doomed, claims, sock, current, pending, frames, late,
                   row, crashes, spoke, lapsed, severed>>

-----------------------------------------------------------------------------
(* send_action and the chunks of a reply.                                  *)

Sent(t) ==
    /\ Runs(t, "sending")
    /\ task' = [task EXCEPT ![t].at = "awaiting"]
    /\ frames' = IF sock[task[t].via] = "open"
                 THEN frames \cup {[echo |-> <<t, task[t].chunk>>, on |-> task[t].via]} ELSE frames
    /\ spoke' = spoke \cup {<<task[t].event, t>>}
    /\ UNCHANGED <<doomed, claims, queue, slots, sock, current, pending, late,
                   row, crashes, lapsed, severed>>

\* send_json raises: the action is withdrawn and the socket detached.
SendFails(t) ==
    /\ Runs(t, "sending")
    /\ Detach(task[t].via, End(t), pending \ Mine(t))
    /\ severed' = IF current' = current THEN severed ELSE severed \cup {task[t].via}
    /\ UNCHANGED <<doomed, claims, queue, slots, sock, frames, late, row, crashes, spoke, lapsed>>

\* finally: the action is withdrawn
Withdrawn(t) == pending \ Mine(t)

\* The answer is in: the next chunk, or the end after the last and after a
\* failure.
Resume(t) ==
    /\ Runs(t, "awaiting") /\ task[t].future # "open"
    /\ LET k == task[t].chunk + 1 IN
       IF task[t].future = "ok" /\ k <= task[t].of
       THEN task' = Registered(task, t, k, task[t].of) /\ pending' = NowPending(Withdrawn(t), t, k)
       ELSE task' = End(t) /\ pending' = Withdrawn(t)
    /\ UNCHANGED <<doomed, claims, queue, slots, sock, current, frames, late,
                   row, crashes, spoke, lapsed, severed>>

\* No answer in time.  The deadline may also pass between the answer and the
\* task's next step; the answer is then lost.
TimeOut(t) ==
    /\ Runs(t, "awaiting") /\ task[t].future \in {"open", "ok", "bad"}
    /\ task' = End(t) /\ pending' = Withdrawn(t)
    /\ UNCHANGED <<doomed, claims, queue, slots, sock, current, frames, late,
                   row, crashes, spoke, lapsed, severed>>

-----------------------------------------------------------------------------
(* Cancellation, threads that outlive it, a crash.                         *)

\* A cancelled task runs its finally blocks, wherever it waits.
Cancelled(t) ==
    /\ t \in Alive \cap doomed
    /\ doomed' = doomed \ {t}
    /\ IF task[t].at \in Holding THEN ReleaseSlot(End(t), queue)
       ELSE task' = End(t) /\ queue' = RemoveFirst(queue, t) /\ slots' = slots
    /\ pending' = Withdrawn(t)
    /\ late' \in IF task[t].at = "entering" THEN {late, late \cup {task[t].event}} ELSE {late}
    /\ UNCHANGED <<claims, sock, current, frames, row, crashes, spoke, lapsed, severed>>

\* The thread that was storing a message for a cancelled call stores it.
LateRow(e) ==
    /\ e \in late /\ late' = late \ {e}
    /\ row' = IF row[e] = "none" THEN [row EXCEPT ![e] = "asked"] ELSE row
    /\ UNCHANGED <<task, doomed, claims, queue, slots, sock, current, pending, frames,
                   crashes, spoke, lapsed, severed>>

\* The process dies and starts again: only the rows are left.
Crash ==
    /\ crashes < MaxCrashes /\ crashes' = crashes + 1
    /\ task' = [t \in Tasks |-> IF t \in Alive THEN Done ELSE task[t]]
    /\ doomed' = {} /\ claims' = <<>> /\ queue' = <<>> /\ slots' = MaxConcurrency
    /\ sock' = [s \in Sockets |-> IF sock[s] = "new" THEN "new" ELSE "gone"]
    /\ current' = NoSocket /\ pending' = {} /\ frames' = {} /\ late' = {}
    /\ UNCHANGED <<row, spoke, lapsed, severed>>

-----------------------------------------------------------------------------
Runs1(t) == Begin(t) \/ CheckFails(t) \/ Dropped(t) \/ Admit(t)
Runs2(t) == Ask(t) \/ Replay(t) \/ Answered(t) \/ ProcessFails(t)
Runs3(t) == Sent(t) \/ SendFails(t) \/ Resume(t) \/ TimeOut(t) \/ Cancelled(t)
TaskStep(t) == Runs1(t) \/ Runs2(t) \/ Runs3(t)

Next ==
    \/ \E s \in Sockets : Attach(s) \/ HangUp(s) \/ Gathered(s) \/ Close(s)
    \/ \E s \in Sockets, e \in Events : Deliver(s, e)
    \/ \E f \in frames, ok \in BOOLEAN : Answer(f, ok)
    \/ \E t \in Tasks : TaskStep(t)
    \/ \E e \in Events : LateRow(e)
    \/ Expire \/ Crash

(* The event loop runs every task that can run, the store and the gateway  *)
(* answer or fail in a bounded time, and every action has a deadline.      *)
(* Nothing is asked of NapCat: no event, answer or disconnect need come.   *)
Fairness ==
    /\ \A t \in Tasks : WF_vars(TaskStep(t))
    /\ \A s \in Sockets : WF_vars(Gathered(s))

Spec == Init /\ [][Next]_vars /\ Fairness

-----------------------------------------------------------------------------
(* Properties.                                                             *)

TypeOK ==
    /\ \A t \in Alive : task[t].event \in Events /\ task[t].from \in Sockets
    /\ \A t \in Tasks : task[t].at \in Sending =>
          /\ task[t].via \in Sockets /\ task[t].chunk \in 1 .. task[t].of
          /\ task[t].of \in 1 .. MaxChunks /\ task[t].future \in {"open", "ok", "bad", "lost"}
    /\ doomed \subseteq Alive
    /\ claims \in Seq(Events) /\ Len(claims) <= MaxClaims
    /\ queue \in Seq(Tasks) /\ slots \in 0 .. MaxConcurrency
    /\ sock \in [Sockets -> {"new", "open", "closing", "gone"}]
    /\ current \in Sockets \cup {NoSocket} /\ pending \subseteq Echoes
    /\ frames \subseteq [echo : Echoes, on : Sockets]
    /\ row \in [Events -> {"none", "asked", "answered"}] /\ late \subseteq Events

\* Two deliveries of one event never both reply, whatever is redelivered,
\* expires, is cancelled or crashes in between (claim, has_seen_message); only
\* when the claim goes while the event is still handled can a second delivery
\* slip past both tests.
RepliedOnce ==
    \A x, y \in spoke : x[1] = y[1] /\ x # y => x[1] \in lapsed

\* A task that waits for an answer waits for one that can come: its action is
\* registered, on the socket that is attached.  A detached socket leaves no
\* task to wait for the deadline (detach, send_action).
NobodyWaitsInVain ==
    \A t \in Alive \ doomed : task[t].at \in Sending /\ task[t].future = "open" =>
        <<t, task[t].chunk>> \in pending /\ task[t].via = current

\* Every registered action belongs to a task that is sending it or waiting for
\* it: none is left behind by a failure, a timeout or a cancellation, so an
\* answer that comes late finds nothing (send_action's finally).
ActionsOwned ==
    \A echo \in pending :
        task[echo[1]].at \in Sending /\ task[echo[1]].chunk = echo[2]

\* Slots are neither lost nor made, wherever a holder ends, and nobody queues
\* while one is free (handle_event's semaphore).
SlotsKept ==
    /\ slots + Cardinality({t \in Alive : task[t].at \in Holding}) = MaxConcurrency
    /\ queue # <<>> => slots = 0

\* The attached socket is one whose loop still runs, and so will detach it:
\* otherwise every later connection would be refused as a duplicate
\* (qq_websocket's finally).
AttachedIsServed == current # NoSocket => sock[current] = "open"

\* Sockets, registered actions, slots and tasks agree with each other.
Consistent == TypeOK /\ NobodyWaitsInVain /\ ActionsOwned /\ SlotsKept /\ AttachedIsServed

\* A socket that ends or fails drops no connection but itself, even when
\* another took its place meanwhile (detach).
DropsOnlyItself ==
    [][\A s \in Sockets : current = s /\ current' # s =>
          sock'[s] # "open" \/ s \in severed']_vars

\* Every delivery comes to an end, with no answer, disconnect or event owed by
\* the peer (the deadline of an action, the finally blocks, the semaphore).
TasksEnd == \A t \in Tasks : (task[t].at = "started") ~> (task[t].at = "done")
=============================================================================
