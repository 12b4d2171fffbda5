# Verification of the Virtual Anime Assistant

TLA+ specifications, TLC model checking and TLAPS proofs for the assistant in
`src/`: its Python backend, its desktop application and the scripts of its cloud
host. This file is the inventory of the system, the plan of the verification and
the documentation of what was done.

## 1. Inventory

The backend is one Python process (FastAPI on one asyncio event loop, SQLite
behind a lock in threads). An Electron application supervises it, shows its
confirmations and speaks to it over HTTP and a WebSocket; QQ reaches it through
a OneBot bridge (NapCat); a cloud deployment runs the same backend, is told the
state of the user's Mac, and has its own monitor and deployment script.

| Component | State | Operations | Talks to |
|---|---|---|---|
| Tool execution service, `tools/service.py` | pending arguments, tracked confirmations, generation of the client session, running tasks, waiters, two locks | `request`, `decide`, `cancel`, `wait_for_terminal`, supervision of a handler, loss of the client, listing, `aclose` | tool tables, publisher, hub |
| Tool tables, `infrastructure/sqlite_store.py` | `tool_requests`, `tool_confirmations`, `tool_audit_events` | create, claim a decision, transition, cancel, list and expire | service |
| Desktop WebSocket hub, `api/ws.py` | connected sessions | attach, detach, broadcast | service, publisher |
| Model tool orchestrator, `application/model_tools.py` | counters of a turn | rounds of model requests and tool calls | service, gateway |
| Assistant chat, `application/assistant.py`, `sessions.py`, chat tables | lock per conversation, conversations, messages, attempts, memories | handle a message, replay, remember, forget, delete | store, orchestrator |
| Settings transaction, `settings/transactions.py`, `file_store.py`, `secrets.py` | settings file, journal, key ring | save, recover | file system |
| Settings service, `settings/service.py`, `routes.py` | life-cycle lock, current snapshot | set-up, login, read, save | transaction, login |
| Settings login, `settings/auth.py` | failures and reservations per client, sessions | log in, get, revoke | service |
| OneBot channel, `channels/onebot/`, `api/qq.py` | current socket, event tasks, claims, semaphore, pending actions | attach, deliver, reply, answer, detach | chat, NapCat |
| Runtime and lifespan, `core/runtime.py`, `api/app.py` | owned resources, background tasks | build with roll-back, start, stop, close in reverse | everything |
| Backend supervisor, `desktop-app/src/backend-supervisor.js` | child, timers, attempts | start, probe, exit, restart, stop | operating system |
| Confirmation queue, `renderer/js/tool-confirmation.js` | queue, shown card, submitting | restore, push, settle, decide | HTTP, WebSocket |
| Computer state, `computer/state.py`, `reporter.py`, relay, route | newest snapshot, acknowledged time, SSH process | collect, report, relay, put, expire | cloud, tools |
| Cloud monitor and deployment, `deploy/cloud/scripts/` | private state, two locks, checked-out and running version | observe, evaluate, restart; deploy, roll back | docker, files |
| Scenario engine, model gateway, speech, views, routes, configuration | small or none | see `PROJECT.json` | |

What is hard about them, and what makes them correct:

* **Tool service and tables.** Every repository call is an `await`, so any two
  calls interleave between any two transactions; `cancel()`, the listing and
  `aclose()` take no lock; publishing may lose the last connection and so call
  back into the service; tasks and arguments die with the process and rows do
  not. Correct: at most one run per request, after one approval, in the client
  session the request was made in; no run that began is abandoned; the conversation
  is told what is stored; every call returns, and nothing runs after a close.
* **Chat.** A message may be delivered twice, and after a crash; a cancelled
  call's thread still writes; a conversation may be deleted under its answer.
  Correct: one turn and one answer per message, replayed as it was stored, and
  no owner meets another's data.
* **Settings.** A file and a key ring cannot be written in one step. Correct: a
  crash or failure anywhere leaves the old or the new settings with exactly the
  secrets they refer to.
* **Settings service and login.** Passwords are verified outside the lock, and
  set-up saves, opens a session and may have to save back. Correct: no more
  guesses in a window than allowed, a password once set stands, and a set-up tells
  truly what it left behind.
* **OneBot.** Sockets are replaced while actions await answers, and events are
  delivered again. Correct: every action ends with its own answer, failure or
  time limit, a message is replied to once, every task ends.
* **Runtime and supervisor.** A child may hang, die or be replaced at any time,
  and building, serving or closing may fail half way. Correct: one child at a
  time, no forgotten restart, nothing closed while it is in use and nothing left
  open.
* **Confirmation queue.** A list answered before a push may arrive after it.
  Correct: a pending confirmation has its card, the shown one stays.
* **Computer state.** Two wall clocks and one monotonic one, reports that are
  given up and arrive nevertheless, processes that survive signals. Correct:
  "fresh" is recent, the cloud has what was acknowledged, one process at a time.
* **Cloud.** Runs that overlap each other and a deployment, killed anywhere, with
  commands that fail after they took effect and a wall clock that may be set.
  Correct: the limit on restarts holds for those on file, restarts are due, a
  deployment leaves a version that works.

`PROJECT.json` lists every component with its status, and under `hazards` the
places in the code where these things bite.

## 2. Plan

1. **Done**: `ToolStore`, `FairLock`, `ToolExecution`, `ToolLifecycle`, and
   `ToolShutdown` for `aclose()`.
2. **Done**: `SettingsTransaction` refining `AtomicSettings`; `SettingsAccess`.
3. **Done**: `AssistantChat`, with the limits of the orchestrator.
4. **Done**: `OneBotChannel`, `ConfirmationQueue`.
5. **Done**: `BackendSupervisor`, `AssistantRuntime`, composed in
   `DesktopBackend`.
6. **Done**: `ComputerState`, `CloudOperations`.
7. Proofs **done**: the tool tables and the service over them, with its lifecycle,
   its close and what a completed close leaves; the settings transaction and its
   refinement; set-up and login; the chat; the QQ channel; the supervisor
   and the runtime; the confirmation queue; the computer state; the cloud monitor
   and deployment. Every safety property of a run is a theorem.
8. Left to model: repository calls that fail outside `aclose()`, the scenario
   engine with its cool-down, memories written over HTTP.

## 3. Modules

| Module | Models |
|---|---|
| `ToolStore` | the tool tables; one action per transaction; its own specification lets them happen in any order |
| `FairLock` | `asyncio.Lock`, first in first out, as service and chat use it |
| `ToolExecution` | the service over `ToolStore`, with the hub and a restart of the process |
| `ToolShutdown` | `aclose()` over `ToolExecution` |
| `ToolLifecycle` | what the service promises of a request, abstractly |
| `SettingsTransaction` | saves and recoveries over the settings file, the journal and the key ring |
| `AtomicSettings` | what a save promises: one configuration, secrets included, updated as a whole |
| `SettingsAccess` | set-up, login, reading and saving by several browsers |
| `AssistantChat` | a message from its delivery to its stored answer |
| `OneBotChannel` | sockets, event tasks, claims and actions of the QQ channel |
| `BackendSupervisor` | the Electron side of the child process |
| `AssistantRuntime` | what the child builds, runs and gives back |
| `DesktopBackend` | the two composed |
| `ConfirmationQueue` | the cards the user sees, behind a socket and lists |
| `ComputerState` | collection, reporter, relay, route, store of snapshots |
| `CloudOperations` | `cloud_monitor.py` and `deploy.sh` |
| `MC*` | instances for TLC |
| `ToolExecutionProofs` | theorems about `ToolStore`, `ToolExecution`, `ToolLifecycle` and `ToolShutdown` |
| `SettingsTransactionProofs`, `SettingsAccessProofs`, `AssistantChatProofs`, `OneBotChannelProofs`, `ComputerStateProofs`, `CloudOperationsProofs` | theorems about the module each is named for |
| `DesktopAppProofs` | theorems about `BackendSupervisor`, `AssistantRuntime` and `ConfirmationQueue` |

A definition that begins with the comment "Variant" is a deliberately wrong
form of the one after it; no specification uses it.

### 3.1 Tool service

`req`, `conf`, `err`, `audit` are columns of the three tables; `due` holds the
requests whose `expires_at` has come. `args`, `tracked`, `generation` are
`_pending_arguments`, `_pending_model_confirmations` and
`_confirmation_generation`. `stopping` joins `_cancel_requested` with the
cancellation that `Task.cancel()` has left undelivered. `released` is
`publish_after`. `confLock` and `execLock` are the two locks. `pc`, `target`,
`seen`, `flag` and `gen` are the local variables of the coroutines. `told` is
what a waiter of `wait_for_terminal()` was given. `online` is
`hub.has_connections()`; `todo`, `handled` and `awaitedBy` belong to the handling
of a disconnect. `runs`, `session`, `born`, `cut`, `forgotten` and `restarts` are
history: no action is guarded by them but for the bound on restarts.

There is a process per call (`request`, `decide`, `cancel`, `wait`), per
supervisor task and per loss of the last client. A step is either one repository
transaction or the resumption of a coroutine up to its next `await`: exactly
what is atomic in one event loop with transactions in threads. The following
simplifications were made, each because the difference cannot be seen:

* A transaction in flight completes before its coroutine issues another, even
  when the task is cancelled meanwhile (the thread is not interrupted). Where the
  coroutine is gone and nothing waits for the thread, the commit is a step of its
  own (`late`).
* Reads that only fill a returned view are dropped. A read merged with taking a
  lock, or a release merged with a commit, has no shared access in between.
* The clock a claim reads is the clock at its commit.
* A handler counts as called when its task is created or its coroutine handed
  to `wait_for`.
* `await asyncio.shield(supervisor)` at the end of `decide()` is no step of its
  own: it changes nothing, and that the supervisor returns is `CallsReturn`.
* One desktop client stands for all: only the first to come and the last to go
  are visible to the service.
* Asyncio is that of Python 3.12, which the repository's CI uses: `wait_for`
  runs the awaitable in the calling task.

Of the callers, only the task of a QQ event is ever cancelled (`api/qq.py:145`, when
its socket closes), and the catalogue gives QQ no tool that needs a confirmation
(`AbandonableAssumption`). `CallerCancelled` ends such a `request()` wherever it
awaits: while `create_request` writes in its thread, which may still commit the
running row, or in `_execute` before the supervisor exists (service.py:703-712). The
row it leaves says running with nobody to settle it but a later `cancel()`. The code
leaves it so; `NoStrandedRun` excuses that row (`Abandoned`) and no other.

`ToolLifecycle` is the abstract specification: asked, granted once, invoked at
most once and only after the grant, succeeded only after the invocation, stopped
or refused for good. `ImplementsLifecycle` maps the tables and the history to it.

`ToolShutdown` adds the task behind `aclose()`: `closing` says where it stands;
`left`, `current`, `found`, `gathered` and `failed` are its local variables. It
announces the loss of the client with a disconnect of the service's own,
settles what is in `Outstanding`, cancels the tasks in `ToStop` and waits for
them. Any repository call of it may raise: those that settle and stop
(`SettleRaises`, `AnswerRaises`, `StopRaises`), and those made through
`confirmation_client_disconnected()` at its start (`AnnouncementRaises`). The latter
forgets a request before it fails it (service.py:985-987), so a request whose
cancellation raises there, and for which nobody waits, is not found by the close
that is tried again: `forgotten` holds these, and `ClosedForGood` excuses their rows
and no others. Repository calls that raise elsewhere are not modelled. A
close that failed may be called again. Concurrent callers share one task, so one
is enough. `Serve` is any step of the service: only a `request()` that begins
later is refused. What is promised of a completed close is promised of requests
of the model: a desktop request that passed its gate, or a decision that
committed the start of a low-risk run, may still start a handler after it.

### 3.2 Settings transaction

`file`, `journal` and `vault` are the disk and the key ring; `held` is the
snapshot each caller passes to `save()` as `current`; `process` is the backend:
`lifespan()` recovers while it is "starting" and does not serve if that raises.
The other variables are the locals of the one call that holds
`_TRANSACTION_LOCK`, and `stage` says where it stands. A reference is a slot
and a version; what a caller may ask for (`AtomicSettings!Drafts`) is a new body,
slots to delete and slots to replace.

Each access to the disk or the key ring is a step. It may take effect or not,
and independently of that raise: `os.replace()` may be followed by an error, and
a key ring may fail after it stored. `Crash` may happen between any two steps.
Recovery and purge delete references one at a time in any order, which covers
the code's order. Simplifications:

* A file that cannot be read is an exception (`Raises`); its content is not
  damaged, because `_atomic_write()` replaces it in one step.
* Whatever `_validate_replacements()` and `_build_final_settings()` may reject,
  and a collision, are one action, `Refuse`: they raise before the first effect.
* References may be used again once they are free, which is harsher than the
  random ones of `_default_reference()`.
* The lock is not a variable: a single call is in progress. A second backend
  process over the same files is not modelled.
* Values of the environment that override stored secrets belong to the resolver.

`ImplementsAtomic` maps `config` to the settings with every reference replaced
by the secret the key ring holds, and `pending` to what a save from the writing
of its journal on may install. The proof and the run show that the replacement
of the settings file is the one step at which a save takes effect.

### 3.3 Settings service and login

`stored` is the settings file (a save is one step here, justified by 3.2, and may
raise with or without having taken effect); `lifecycle` is `_LIFECYCLE_LOCK`;
`failures`, `reserved`, `sessions` are the tables of `SettingsAuthService`. Each
browser makes one request at a time: `Setup`, `SavePassword`, `Open`, `RollBack`
are the parts of a set-up; `LoadRecord`, `Reserve`, `Settle` those of a login,
which holds no lock while it computes scrypt; `GetConfig`, `PutConfig`,
`SaveConfig` read and replace by revision. The revision is a hash of the
settings, so `seen` holds the settings themselves. Hashing is equality of
passwords. `guesses` is history. `Restart` loses what is in memory; browsers keep
their cookies.

### 3.4 Assistant chat

`conversations`, `messages`, `modelCalls` and `memories` are the tables, `locks`
those of `SessionRegistry`. Each call of `process()` carries one delivery through
`Deliver`, `Enter` (the conversation claimed), `Claim` (the message claimed or
found), `Replay` for a repeated one, `UseMemory` and `RespondLocally` for a memory
command, `ReadHistory`, `Ask` and the rounds of the orchestrator, `Save`. A
transaction is a step. `Cancel` ends a call wherever it waits and leaves its write
in `late`, to be made by its thread at any later time; `Crash` leaves only the
tables. Texts, answers and tool results are not told apart; memory contents are.
Two readings deserve mention: the context of a turn is ordered by `created_at`,
which for the user's row is the stamp of the message (`assistant.py:188`), so
`Later` compares stamps and not insertions; and a re-created conversation may
receive a late write of a call made before its deletion, which `OwnersOnly`
therefore speaks of by scope.

### 3.5 OneBot channel

One record per delivery says where its task stands; `claims` is
`RecentMessageRegistry`, `queue` and `slots` the semaphore, `pending` and `frames`
the registered actions and those on the wire, `sock` the receive loops. The
application is `row` (what is stored of an event) and `Answered`; 3.4 models it.
A task runs from one suspending `await` to the next. `Cancelled` runs the
`finally` blocks of a task of a socket that ended; `TimeOut` may strike between
an answer and the resumption of its task, which then loses the answer. Frames are
answered in any order, or never; sockets are lost and replaced.

### 3.6 Desktop backend

`BackendSupervisor`: `child`, `external`, `stopping`, `restartTimer`, `termTimer`,
`attempts` are fields of the class, `flow` is the `_start()` behind
`startPromise`; `proc`, `notices`, `termed`, `foreign`, `app` are the world. A step
is a section between two awaits, a timer or an event callback.

`AssistantRuntime`: `built` counts the resources in `_owned_resources`, in the
order the constructor registers them for the configuration (`Plan`); `at` walks
back over them in `_rollback_initialization()` or `aclose()`; `closed` is
`_resource_closed`, `refused` those whose close raised; `tasks` are the background
tasks under `supervise()`. `Uses` is what the constructor hands to a resource.

`DesktopBackend` is their conjunction: `SpawnBackend` is a spawn and the beginning
of a runtime; a child listens (`Listens`) only when its lifespan has started,
ends with its runtime (`Ends`), and dies with it when killed.

### 3.7 Confirmation queue

The backend is `conf` and `unsent` publications, sent some time after the change;
`wire` is the socket, in order, lost when it closes; `lists` are the HTTP requests
made at every opening. `queue`, `shown`, `submitting` are those of
`tool-confirmation.js`. `reply` is what became of the decision on its way.
`queuedIds` holds the ids in `queue` and is not kept apart. `AddAll` is the loop
over a list (`forEach(enqueueConfirmation)`), `Drop` takes out the first card with
an id, as `findIndex` and `splice` do.

### 3.8 Computer state

`latest`, `reporter`, `process`, `acked`, `closing`, `closed` are the Mac's side;
`ssh`, `payload`, `relayed` the processes and what they carry; `store` is
`RemoteDeviceStateStore`. Time is the monotonic clock; `macOff` and `cloudOff` are
how far the wall clocks are off. `SetClock`, `Reboot`, `PostLost`, `SshFails` are
faults. A process whose creation is cancelled is killed by asyncio, so a spawn is
one step.

### 3.9 Cloud

`private` is the monitor's state file, `monitorLock` and `deployLock` the two
flocks; `pc` and `run` are the runs of the monitor. Ages are kept instead of
times: those on file by the wall clock, which `SetClock` moves either way, those
of `recent`, the restarts that took place, by true time. `_safe_previous()` drops
a restart that is yet to come (`Past`), as one is after the clock was set back.
`RestartFails` is a command that failed before or after NapCat was restarted: no
restart is recorded, and the next run may try again. `missed` is history: the
restarts of which the file does not tell, or not at their true age. A deployment
is a number; `good` says which versions work; `target`, `previous`, `head`,
`running` are those of `deploy.sh`. Either script may be killed between any two
steps, which releases its locks and leaves its files.

## 4. Runs

Each run asks one question; its properties are stated, with the code behaviour
they are about, at the end of the module they belong to.

| Run | Instance | Shows |
|---|---|---|
| `tools` | a confirmed model request with its waiting turn, a lost and returning client; a high-risk desktop request and a low-risk one of a QQ event with a restart; any three of two approvals, a cancellation and a lost client | the tables agree, the lifecycle is implemented, each request runs at most once, audited, in its session and its process, no running row is left to nobody but that of a cancelled QQ event, the waiter hears what is stored |
| `shutdown` | a confirmed model request with its waiter and an approval; two closes, each of whose repository calls may raise | every call returns, the close included; a completed close is final for the model's requests, but one that a failed attempt forgot |
| `settings` | both slots, two callers, two versions of each reference, two secrets, two bodies | saves are atomic, no secret is lost or forgotten, no update overwrites an unseen one |
| `chat` | three deliveries of four kinds of message: repeated, reused by a stranger, a memory command, a stranger to the conversation | one turn and one answer per message, replies repeat what is stored, nobody meets another's data, no lock is kept |
| `access` | two browsers at two addresses, two passwords, two sets of settings, every limit one | tables within their limits, no extra guesses, a password stands, set-up is truthful |
| `onebot` | two events, two deliveries, two sockets, one task at a time, one claim, replies in two chunks, a crash | one reply per message, actions get their own ends, every task ends |
| `supervisor` | four children in two configurations, two restarts, two probes, one close that refuses | one supervised child, no forgotten restart, resources given back in an order that leaves none in use, a terminated child ends |
| `confirmations` | two cards, three connections, two clicks | a pending card is in the queue once it was announced and listed; the shown card stays first |
| `computer` | two reports, a time to live of two, one change of either clock by -1 or 2 | "fresh" is recent, the cloud has what was acknowledged, one SSH process, a close ends |
| `cloud` | two overlapping monitors, two deployments, two restarts in a window, one kill, the clock set once by two minutes either way | the limit holds but for restarts not on file as they were, restarts are due, a finished deployment works |
| `sweep_cut_off` | a model request, a low-risk desktop request, one cancellation, one lost client | **violation**: the sweep after a lost client is cancelled half way |
| `quit_leaves_backend` | one restart, one probe, two children | **violation**: the backend outlives a quit during the first probe |

### Bounds

*Tool service.* Requests share only the two locks, the generation and the client;
the other processes that hold those locks (two decisions, the disconnect, the
waiter, the supervisor) are all there, so the locks are contended. Two decisions
are the least that make a repeated one. `tools` has a high-risk request of the
desktop and a low-risk one of the model, made for a QQ event, because the latter
takes a different path to its supervisor and its caller may be cancelled. Its
constraint `Bounded` splits the behaviours in two: those about the model's
confirmed requests, in which the process does not restart, and those about the
others, in which no client is lost; in both, three calls or losses are made. What
it cuts off (a restart among the model's requests, four calls at once) the
theorems of section 5 cover. In `shutdown` the one disconnect is the close's own
announcement and no caller is cancelled; with a client lost besides, or a QQ event
cancelled, safety is what `ClosedTheorem` and `PromisesAtShutdown` prove.

*Settings.* Nothing but data is bounded: failures, crashes and saves recur
without limit. Two versions let a slot be replaced while its old secret awaits
deletion; two callers are the least for a stale snapshot. In `access` the limits
are one, so that the second guess, client or session meets them; time passes
twice, so that a window and a session expire between two requests.

*Chat.* Three calls allow a first delivery, its repetition while it is handled,
and a call after both, for instance after a deletion or by another owner. A
window of two cuts the context. Three model requests and one tool reach both
limits of the orchestrator.

*OneBot.* One slot and one claim make the second delivery wait, be evicted or
evict. Two chunks allow a socket to be replaced within a reply.

*Supervisor.* Four children and two restarts reach the last restart allowed and
the state in which the supervisor gives up; two probes allow an answer after a
failed one. `Everything` builds all resources of a desktop, `Bare` the fewest.

*Confirmations.* Three connections allow a list of an earlier one to be answered
after a later one has been opened and has pushed.

*Computer state.* With a time to live of two and a skew of one, the offsets -1,
0 and 2 lie inside and outside what the code tolerates. *Cloud.* The threshold,
the limit and the number of deployments are two: the least that distinguish
"in a row", "in a window" and "the one before". Two monitors suffice for the
overlap: a third would find its lock taken. The clock is set by the length of the
window, which is the least that makes a recorded restart leave it at once or lie in
the future. The constraint `Bounded` of the instance leaves out deployments in the
behaviours in which the clock is set or a restart is missed, and a fourth restart in
a window; the theorems of section 5 have neither bound.

### Deadlock, symmetry, fairness

Deadlock is checked in `tools`, `shutdown`, `settings` and `access`;
in the tool service `Quiescent` is the only step once all calls have returned,
and needs that none is in progress. In the other runs calls, deliveries,
connections, children or time are bounded and the model stops when they are used
up; there `NobodyStuck`, `TasksEnd`, `TerminatedEnds` and `CloseEnds` say what must
not stop before.

Symmetry is used where no property tells values apart: among approvals, cancels
and disconnects, settings' versions, secrets and callers, chat calls, browsers,
addresses, bodies, passwords, cards and monitors; never in a run with liveness.

Fairness is weak everywhere, and assumed only of what the backend or the
operating system schedules. Nothing is assumed of users, peers or clocks.

* Tool service and its close: each process. An event loop resumes every task
  that can go on, `asyncio.Lock` serves waiters in order, a thread ends its
  transaction. A handler ends because `wait_for` bounds it, and a waiter has a
  time limit in each of its two states; this assumes that a handler does not
  suppress its cancellation.
* `OneBotChannel`: each event task and the gathering at the end of a socket.
  An action without an answer ends by its time limit.
* `BackendSupervisor`: the start, its timers and the delivery of an exit event.
  `Kill` is the operating system carrying out SIGKILL.
* `ComputerState`: the reporter's task and the end of its close. The SSH process
  itself is not assumed to end: the reporter kills it.

### Disagreements found

`quit_leaves_backend`: `stop()` sets `stopping`, but `_start()`, awaiting its first
health probe (`backend-supervisor.js:194`), does not look at it when the probe
returns and spawns a backend that nobody terminates. README.md:63 of the
repository says that on quitting Electron terminates the backend it created.
`Supervised` and `TerminatedEnds` are worded for what does hold.

`sweep_cut_off`: when a supervisor's publication finds the last connection dead,
the hub awaits `confirmation_client_disconnected()` inside `publish()`'s `gather()`
(`service.py:93`). A `cancel()` that delivers `Task.cancel()` to that supervisor
cancels the sweep with it, and the model requests it had yet to fail stay pending
with no client online, where a later client may approve them. README.md:294 of the
repository says that nothing is carried out belatedly after a lost connection, and
`test_tool_service.py:535` that the loss of the last client persists the failure.
In `ToolExecution` the variable `cut` holds the sweeps that ended so, and
`OfflineSettles` is worded for the others. The proof of `WaiterToldOutcome` led
here: its invariant failed on the step that cancels a supervisor in a sweep.

### Differences from documents that no run is spent on

The documents are
`docs/superpowers/specs/2026-07-29-tool-permission-state-machine-design.md` (P1),
`2026-08-14-macos-state-assistant-design.md` (P2),
`2026-08-14-cloud-operations-monitoring-design.md` (P3). Where the code differs,
the models follow the code and the properties are worded accordingly.

* Tools: a cancelled request becomes failed when its client is lost
  (service.py:993, P1:73); a run that cannot be cancelled goes on although
  `cancel()` reported otherwise if it read the request before its approval
  (service.py:475, P1:135); expiry by a listing leaves the arguments in memory
  (service.py:686, P1:99); a repeated decision untracks a request, which later
  reads as an offline client (service.py:342, P2:352); a running
  row stays running after a restart (app.py:217, P2:319).
* Callers: a QQ event that is cancelled while its `request()` writes, or before a
  supervisor exists, leaves a running row that only `cancel()` settles
  (service.py:703; P1:138 would have a `CancelledError` make it cancelled). The
  tool is not run.
* Close: a model request that `aclose()` forgot before the call that fails it raised
  (service.py:985-987) is skipped by the close that is tried again; its row awaits a
  confirmation until that is decided or expires; an approval fails it, its
  arguments being gone. A desktop request past its gate, or a decision that
  committed a start, may start a handler after `aclose()` returned. `lifespan()`
  closes once, so a resource that refuses stays open until the process ends; tool
  events published while closing reach nobody.
* Chat: the context is ordered by stamps of messages, not by insertion.
* Settings: a login that completes between the save of a set-up and its roll-back
  leaves a live session without a password. A test of the connection goes on with
  the secret it has read although the settings are saved meanwhile: what guards it
  is the revision it was asked with.
* OneBot: a message may be answered twice only if its claim lapses while it is
  still being handled; a cancelled delivery keeps its claim.
* Confirmations: the list fetched after a reconnection only adds cards; one
  settled while the socket was down stays until it is decided (P1:200,220).
* Computer state: after the Mac's clock is set back, its reports are refused
  until it has caught up.
* Cloud: the monitor probes the deployment lock and releases it
  (cloud_monitor.py:301), so a restart may fall into a deployment that begins then
  (P3 wants none), and the probe may make `deploy.sh` give up; a restart that
  fails is not counted and is tried again by every run, even if the command failed
  after it restarted NapCat (cloud_monitor.py:342), so these may pass the limit; a
  restart whose run was killed is not recorded; one that the clock, set back,
  makes one of the future is dropped (cloud_monitor.py:79); the window counts from
  the beginning of a run (`Lag`); a counter above 1000 is published and refused by
  its reader; after a killed deployment the version returned to may be unverified.
* Desktop: an external backend found healthy is not watched afterwards, and the
  start-up preference is read from a fixed port.

## 5. Proofs

Eight modules hold theorems; every leaf is checked by tlapm. They hold for every
value of the constants the assumptions of the modules admit. The bounds TLC needs
(calls, restarts, deliveries, time) are parameters and play no part in an argument.

### Tool tables and service

`ToolExecutionProofs` first takes the tables alone, under `StoreSpec`: `StoreTypes`
(`[]StoreTypeOK`), `RowsAlwaysAgree` (`[]RowsAgree`), `AuditAlwaysTells`
(`[]AuditTellsOutcome`), together `TablesAlwaysAgree` (`[]TablesAgree`), and
`OutcomesAlwaysStand`. The rows are inductive together with the types; the audit
invariant needs the rows. Then, about `Spec`:

* `Types`: `[]TypeOK`. The inductive invariant is `Grounded`: types, `RowsAgree`
  and `Aimed`, which says that a process past its first step has a request as
  its target. `RowsAgree` is there because the value a process has `seen` is
  read from the rows.
* `UsesStore`: `Spec => StoreSpec`; every step of the service is a store
  transaction or leaves the tables alone. `TablesOfService`: hence the store's
  properties hold of the service.
* `RunsOnce`: `[]RunsAtMostOnce`. The invariant `Once` has three parts.
  `OneClaim`: at most one `decide()` is between claiming a request and creating
  its supervisor, the confirmation is then approved and no supervisor exists.
  `OneSupervisor`: a supervisor was created only after an approval, or by the
  requester of a low-risk request on its last step. `OneRun`: a supervisor that
  has not reached its handler has not called it, one that has, called it once,
  and a success needs the call.

And of what a run is recorded as, begun in and left behind by:

* `RunsAudited` (`[]RunsAreAudited`) and `NothingRunsAgain` (`RestartNeverRuns`), both
  from `Lawful`. `LawfulRequest`: whoever has accepted a request, or its arguments,
  belongs to the process that took it, and a supervisor exists only after the
  start is in the audit trail. `LawfulDecision`: a decision on its way to a start
  is about a request of this process, and one that read "running" has the start
  recorded. A restart empties what `Lawful` speaks of, and no transaction removes
  an audit record (`AuditKept`), so it is inductive under `Grounded`.
* `LifecycleTheorem`: `Spec => ImplementsLifecycle`. Every transaction maps to a
  move of one request (ask, grant, invoke, succeed, stop, refuse) or, for the
  expiry of overdue ones, to several; every other step stutters. Besides the
  invariants above it needs `Unrecorded`: no audit of a request not yet made.
* `WaiterTheorem`: `[]WaiterToldOutcome`, from `Truth`: what a waiter was told, and
  the settled row a process is about to publish, fits the row stored.
* `StrandedTheorem`: `[]NoStrandedRun`, from `InHand`: a running row of this process
  belongs to its requester, its supervisor or the decision that claimed it, or its
  caller was cancelled before anybody else took it (`Abandoned`), and
  whoever is about to cancel or to leave a row has read enough of it to do so.

* `SessionTheorem`: `[]ModelRunsInItsSession`, and `OfflineTheorem`:
  `[]OfflineSettles`, both from `InTime`. `InLine` reads `_confirmation_lock` off
  the program counters: who is in the line, that only its head has gone past
  `conf_wait`, and that a supervisor never stands before the `request()` that is
  to fail its request (`Follows`). For each confirmed request, `Unheard`: nobody
  can start it before its arguments are kept; `InSession`: what is tracked is of
  this generation, or its `request()` or a disconnect is about to fail it, and
  what a supervisor has checked is of this generation until it lets go of the
  lock; `Watched`: a request that waits for its confirmation is tracked or just
  being cancelled, or was forgotten by a close that raised. `DropInTime` is the
  heart: the generation moves only while its mover is the head of the line, where
  no supervisor is between check and handler.

About `ShutdownSpec`, for every bound on closes: the steps of `aclose()` are store
transactions or leave the tables alone (`CloseStore`), call no handler and create no
supervisor (`CloseIsQuiet`); with `Secure`, the invariants above and the types of the
closing task, `ShutdownUsesStore`, `TablesAtShutdown` and `RunsAtShutdown` follow.

`ClosedTheorem` (`[]ClosedForGood`) says what a completed close leaves. Its
invariant `CloseInv` has four parts. `Lasting` is all the invariants above, which
the close keeps as well (`LastingStep`); so `PromisesAtShutdown` carries
`WaiterToldOutcome`, `NoStrandedRun`, `ModelRunsInItsSession` and `OfflineSettles`
over to a service that is closed. `Noticed`: the disconnect that `aclose()`
announces is its own, and handled before it settles anything. `Settling`: what it
has settled is settled, and what it is about to publish was read. `Sealed`, for
each request of the model, speaks of three moments. Once the announced loss has
moved the generation (`Refused`), a `request()` that has not kept its request yet
fails it itself, what was tracked is being swept, and no supervisor stands between
its check and its handler. Once the loss is handled (`Overtaken`), a later sweep
finds only such requests as fail themselves, or were forgotten by an announcement
that raised. Once `aclose()` waits for its tasks (`Stopped`), a handler being
called is among them. `ClosedForGood` alone is not inductive: whether a supervisor
may reach its handler after the close was decided when the generation moved, under
`_confirmation_lock`. The effects a step may have on one process are stated once
(`Effects`, `StepEffects`), so that each part needs one argument per kind of
effect instead of one per action.
`LifecycleAtShutdown` adds that a service that is closed implements
`ToolLifecycle` and keeps `RestartNeverRuns`.

### Settings

`SettingsTransactionProofs`:

* `SettingsTypes`: `[]TypeOK`, whose substance is that a journal written always
  passes the checks applied when it is read.
* `SecretsSafe`: `[]SecretsKept`, that is `SecretsPresent`, `NothingOrphaned` and
  `CleanupIsSafe`. These are not inductive; `StageInv` adds what each stage relies
  on: no open journal while a save prepares, new references out of use, the
  journal equal to what the save will do, stored secrets equal to those asked
  for, and a clean-up that has not failed owing only what is still to be deleted.
* `UpdatesNotLost`: `NoLostUpdate`. `CallerInv` says that a caller cannot change
  its snapshot, nor anybody the file, between the comparison and the commit.
* `SavesAreAtomic`: `Spec => ImplementsAtomic`. `Prepare` is `Submit`, a `Commit`
  that takes effect is `TakeEffect`, an exception or a crash before it is
  `GiveUp`, and every other step stutters or gives up nothing, because the
  invariant says that no secret of the settings in force is touched.

`SettingsAccessProofs`: `PasswordTheorem` (`PasswordStands`) and `SetupTheorem`
(`SetupIsTruthful`). `SetupInv` says that a set-up
past its first test holds the life-cycle lock, that no password is stored before it
saves and that its own is stored until it has answered. `BoundedTheorem` (`[]Bounded`)
rests on `Limits`: what is reserved of an address is the number of its
verifications under way (`Reservations`), and for every time a window may begin at
from now on, the passwords tried since are at most the failures on record since
and what is reserved (`Guessing`). For every time, because a failure is stamped when
its verification ends, later than the password was tried: a count of the present
window alone is not inductive.

### Chat

`AssistantChatProofs`: `OnceTheorem` (`[]AnsweredOnce`), `RepliesTheorem`
(`[]RepliesAgree`), `TablesTheorem` (`[]TablesHold`), `OwnersTheorem`
(`[]OwnersOnly`) and `QueueTheorem` (`[]NobodyStuck`). The invariant has five
parts. `Base`: types, limits of a turn, and every call in the queue of its own
conversation only. `Ledger`: what each row of the three tables refers to. `Sound`:
what a call knows of its message at each stage, and that a claimed message is its
claimer's. `TurnsHold`: turns and tool calls of a message are those its claimer
counts. `AllTold`: a reply given is the answer of the message's claimer, in the
same conversation. The last two speak of what was never deleted, because a
deletion takes rows from under a running call.

### OneBot channel

`OneBotChannelProofs`: `RepliesTheorem` (`[]RepliedOnce`), `ConsistencyTheorem`
(`[]Consistent`) and `DropsTheorem` (`DropsOnlyItself`). `AllMove` first says what any
step may do to any task (nothing, end it uncancelled, begin it, go on to the next
stage, register an action, hear of its action); the parts of the invariant then need
one argument per kind of move. `Semaphore`: the queue holds queued tasks, once each,
slots and holders add up, and nobody queues while a slot is free. `Wires`: what is
registered of a task is the chunk it sends or waits for, on the attached socket.
`Sole`: an event whose claim has not lapsed is handled by one task, and claimed.
`Spoken`: a reply is to a stored message, and beside a task past the store's test
nobody else has replied. A second reply would need a second task past that test
(`Sole` forbids it) or one that passed it later (the row forbids it).

### Desktop app and computer state

`DesktopAppProofs`: `SupervisedTheorem` (`[]Supervised`) and `NotGivenUpTheorem`
(`[]NotGivenUp`), from `SupervisorInv`: the child that may be alive is the one
held, the timer is its own, a start in progress has no child or its own, and
without a child a restart is due; `OwnershipTheorem` (`[]OwnershipHolds`) from
`RuntimeInv`: what was given back is exactly what lies behind the point a
roll-back or a close has reached, and no task is left by then. They are theorems
about `BackendSpec`, the composition.

`CardsTheorem` (`[]CardsAgree`) and `KeepsTheorem` (`QueueKeeps`) are about the
confirmation queue, `QueueSpec`, for any number of cards, connections and
decisions. The invariant `QueueInv` says that a pending confirmation, while the
socket is open and no list was missed, has its card, is about to be announced, is
announced on the wire, or is on a list that is asked for or has been answered
(`Coming`); that an update, on the wire or yet to be sent, and a decision that went
through speak of closed confirmations only (`Stored`), which is why no step takes
away the card of a pending one; and that the view shows the first card (`Shows`).
`NothingHidden` alone is not inductive: it says nothing of a state in which
something is under way.

`ComputerStateProofs`: `TypeCorrect`, `FreshTheorem` (`[]FreshIsRecent`, from
`DatesAgree`: an error a clock has had explains each stamp), `AcksTheorem`
(`[]AckedIsKnown`, from `AcksKnown`) and `ReporterTheorem` (`[]ReporterSound`,
from `InHand`).

### Cloud

`CloudOperationsProofs`: `LimitTheorem` (`[]LimitHolds`), `RestartTheorem`
(`RestartIsDue`) and `DeployTheorem` (`[]DeployedWorks`). `Limit` accounts for
every restart, for every length of time up to the window: it is on file, dated
back by no more than a run has lasted, or known to the run that will write it, or
among those missed, so a run that reads fewer than the limit may add one. It
speaks of every length because what is missed ages too. When the clock is set,
every restart so far counts as missed: no file tells its age any more. `Failing`
and `Avoiding` say that the counter a run restarts on was built from runs in a
row, none of them begun under a deployment. `Deploying` says which version is
checked out, running and verified at each stage of `deploy.sh`. `Holds` gives both
locks to the run whose stage needs them.

### What proving changed

Attempts that failed for a good reason corrected the models. `FreshIsRecent` must
speak of every error a clock has had (`offs`), not of the present one. A sweep may
be cancelled with the supervisor that publishes (`cut`), which led to the finding
`sweep_cut_off`. In `AssistantChat` locks are kept per conversation only, and
names of calls must differ from those of messages. In `OneBotChannel` a claim and
a place in the queue are taken out once (`RemoveFirst`, as `dict.pop` and
`deque.remove` do). In `CloudOperations` the names of the deployment and of nobody
must not be those of monitors. Filters of sequences defined by recursion in the
library were written out where a proof is about them: `Kept` in `CloudOperations`,
`Within` in `SettingsAccess`, which now also says what the code does with times
out of order, and `Drop` and `AddAll` in `ConfirmationQueue`.

### What TLC alone shows

`AllReturn`, `TasksEnd`, `TerminatedEnds` and `CloseEnds`: liveness under
fairness, out of the prover's reach, as is `ENABLED`. Every invariant and every
action property of a passing run is stated by a theorem.

Induction theorems with an operator as parameter cannot be instantiated by the
provers. `OneBotChannelProofs` and `DesktopAppProofs` do without: `LeastNumber`
follows from the well-foundedness of the naturals, stated with sets, and the least
number of cards for which a claim fails leads to a contradiction. In this way
`JoinedExists` shows that the recursive function in `AddAll` exists, and
`AddAllIs` what it computes for every queue and every list. No module declares a
RECURSIVE operator.

## 6. Not modelled

* In the modelled components: repository calls of the tool service that raise
  outside `aclose()`; tools of source QQ or SYSTEM, which take the path of
  DESKTOP; memories and conversations edited over HTTP, but for deletion;
  greetings, pings and scenario messages of the hub; the reader of the public
  cloud status and the check of the age of back-ups; a second backend over the
  same files. Each can be added to its module.
* Resolution, validation and migration of settings, redaction, parsing, prompts
  and the formats of messages: computations on data without a state of their own.
* The desktop channel, HTTP routes and renderer views translate one call into
  another; the model gateway and speech are input and output with a time limit;
  handlers of macOS actions and state providers are operating-system calls, one
  abstract step of the services that call them.
* The scenario engine: sequential rules over window events with a cool-down. It is
  the next component worth a module.
* The start of uvicorn (it listens once the lifespan has started, and ends it
  on SIGTERM), NapCat, docker, SSH and launchd are external: modelled as far as
  `src/` relies on them.
