--------------------------- MODULE AssistantChat ---------------------------
(***************************************************************************)
(* AssistantApplication of backend/application/assistant.py: a chat        *)
(* message is claimed by its id, answered by the model or by a memory      *)
(* command, and a message delivered again is given the stored answer.      *)
(* SessionRegistry.run() handles the messages of a conversation one at a   *)
(* time; every call of the SQLite store is a transaction of its own, run   *)
(* in a thread that goes on when the call that awaits it is cancelled.     *)
(* DELETE /conversations/{id} takes no part in that order.                 *)
(***************************************************************************)
EXTENDS FairLock, Naturals, FiniteSets, Functions

CONSTANTS
    Calls,          \* calls of process(), one delivery each; also the ids of their responses
    Requests,       \* what may be delivered: [id, conv, scope, text]
    Conversations,
    Window,         \* max_messages of the context
    MaxRequests,    \* model requests of a turn (_MAX_MODEL_REQUESTS_PER_TURN)
    MaxToolCalls    \* tools called in a turn (_MAX_TOOL_CALLS_PER_TURN)

Kinds == {"chat", "remember", "forget", "blank"}
Ids == {r.id : r \in Requests}
Scopes == {r.scope : r \in Requests}
Texts == {r.text : r \in Requests}
Abouts == {t.about : t \in Texts}

ASSUME RequestsAssumption ==
    /\ \A r \in Requests : r = [id |-> r.id, conv |-> r.conv, scope |-> r.scope, text |-> r.text]
    /\ \A r \in Requests : r.conv \in Conversations /\ r.text.kind \in Kinds
    /\ \A t \in Texts : t = [kind |-> t.kind, about |-> t.about]
    /\ Calls \cap (Ids \cup {"nothing", "conflict"}) = {}
ASSUME BoundsAssumption ==
    Window \in Nat \ {0} /\ MaxRequests \in Nat \ {0} /\ MaxToolCalls \in Nat

VARIABLES
    conversations,  \* the scope (source and owner) of each stored conversation
    messages,       \* the stored messages, questions and answers, by id
    modelCalls,     \* the recorded attempts: <<message, answer, number>>
    memories,       \* the message each stored memory came from, by <<scope, content>>
    locks,          \* SessionRegistry._locks
    pc, request,    \* where each call stands and what was delivered to it
    local,          \* what it has gathered: see Blank
    given,          \* the id of the response returned, "conflict", or "nothing" yet or ever
    late,           \* writes in a thread nobody awaits any more: [call, at, local]
    clock,          \* stamps handed out
    turns, tools,   \* history: model turns begun and tools called for each message
    deleted         \* history: conversations ever deleted

tables == <<conversations, messages, modelCalls, memories>>
history == <<turns, tools, deleted>>
vars == <<tables, locks, pc, request, local, given, late, clock, history>>

Put(f, k, v) == [x \in DOMAIN f \cup {k} |-> IF x = k THEN v ELSE f[x]]
Drop(f, K) == Restrict(f, DOMAIN f \ K)
Empty == [x \in {} |-> x]

\* since: when the message, later the response, was made; shown, known: the
\* messages and memories the model is shown; requests, called, left: requests to
\* the model, tools called and to be called in the turn; status: of the answer.
Blank == [since |-> 0, shown |-> {}, known |-> {}, requests |-> 0, called |-> 0, left |-> 0,
          status |-> "completed"]

Id(c) == request[c].id
Conv(c) == request[c].conv
Text(c) == request[c].text

Init ==
    /\ conversations = Empty /\ messages = Empty /\ modelCalls = {} /\ memories = Empty
    /\ locks = [v \in Conversations |-> Free]
    /\ pc = [c \in Calls |-> "new"] /\ request = Empty
    /\ local = [c \in Calls |-> Blank]
    /\ given = [c \in Calls |-> "nothing"]
    /\ late = {} /\ clock = 0
    /\ turns = [i \in Ids |-> 0] /\ tools = turns /\ deleted = {}

-----------------------------------------------------------------------------
(* The transactions of the store.  A row of an unknown conversation, or an *)
(* attempt for an unknown message, is refused by a foreign key.            *)

\* claim_conversation()
ClaimConversation(c) ==
    /\ conversations' = IF Conv(c) \in DOMAIN conversations THEN conversations
                        ELSE Put(conversations, Conv(c), request[c].scope)
    /\ UNCHANGED <<messages, modelCalls, memories>>

Keyed(c, needed) == Conv(c) \in DOMAIN conversations /\ needed \subseteq DOMAIN messages

Row(c, role, l) ==
    [role |-> role, conv |-> Conv(c), to |-> Id(c), text |-> Text(c), scope |-> request[c].scope,
     status |-> l.status, at |-> l.since, by |-> c]

\* claim_message(): an id that is taken is left alone.
ClaimMessage(c, l) ==
    /\ messages' = IF Id(c) \in DOMAIN messages \/ ~Keyed(c, {}) THEN messages
                   ELSE Put(messages, Id(c), Row(c, "user", l))
    /\ UNCHANGED <<conversations, modelCalls, memories>>

Attempts(c, l) == {<<Id(c), c, n>> : n \in 1..l.requests}

\* Variant: the attempts of a failed turn are not recorded.
SaveAnswerAlone(c, l) ==
    /\ IF Keyed(c, {})
       THEN /\ messages' = Put(messages, c, Row(c, "assistant", l))
            /\ modelCalls' = modelCalls \cup (IF l.status = "failed" THEN {} ELSE Attempts(c, l))
       ELSE UNCHANGED <<messages, modelCalls>>
    /\ UNCHANGED <<conversations, memories>>

\* save_message() and save_model_results(): the answer and its attempts, or nothing.
SaveAnswer(c, l) ==
    /\ IF Keyed(c, {a[1] : a \in Attempts(c, l)})
       THEN /\ messages' = Put(messages, c, Row(c, "assistant", l))
            /\ modelCalls' = modelCalls \cup Attempts(c, l)
       ELSE UNCHANGED <<messages, modelCalls>>
    /\ UNCHANGED <<conversations, memories>>

Memory(c) == <<request[c].scope, Text(c).about>>
SaveMemory(c) == memories' = Put(memories, Memory(c), Id(c)) /\ UNCHANGED <<conversations, messages, modelCalls>>
DeleteMemory(k) == memories' = Drop(memories, {k}) /\ UNCHANGED <<conversations, messages, modelCalls>>

\* delete_conversation(), with everything that refers to it.
DeleteConversation(v) ==
    LET gone == {i \in DOMAIN messages : messages[i].conv = v} IN
    /\ conversations' = Drop(conversations, {v})
    /\ messages' = Drop(messages, gone)
    /\ modelCalls' = {a \in modelCalls : a[1] \notin gone}
    /\ UNCHANGED memories

\* The write of a call at pc p, with what it had gathered.
Writes == {"conversation", "message", "remember", "forget", "save"}
Write(c, p, l) ==
    CASE p = "conversation" -> ClaimConversation(c)
      [] p = "message"      -> ClaimMessage(c, l)
      [] p = "remember"     -> SaveMemory(c)
      [] p = "forget"       -> DeleteMemory(Memory(c))
      [] p = "save"         -> SaveAnswer(c, l)

-----------------------------------------------------------------------------
(* _handle_chat(), under the lock of the conversation.                     *)

Gathers(c, to, l) ==
    /\ pc' = [pc EXCEPT ![c] = to] /\ local' = [local EXCEPT ![c] = l]
    /\ UNCHANGED <<locks, given>>
Goes(c, to) == Gathers(c, to, local[c])

\* Variant: an exception leaves the lock of the conversation taken.
ReturnsLocked(c, what) ==
    /\ pc' = [pc EXCEPT ![c] = "done"] /\ given' = [given EXCEPT ![c] = what]
    /\ locks' = IF what = "nothing" THEN locks ELSE [locks EXCEPT ![Conv(c)] = Leave(@, c)]
    /\ local' = [local EXCEPT ![c] = Blank]

\* The call returns or, with nothing given, raises; it leaves the lock.
Returns(c, what) ==
    /\ pc' = [pc EXCEPT ![c] = "done"] /\ given' = [given EXCEPT ![c] = what]
    /\ locks' = [locks EXCEPT ![Conv(c)] = Leave(@, c)]
    /\ local' = [local EXCEPT ![c] = Blank]

At(c, p) == pc[c] = p /\ Holds(locks[Conv(c)], c)
Same == UNCHANGED <<request, late, clock, history>>

Deliver(c, r) ==
    /\ pc[c] = "new"
    /\ pc' = [pc EXCEPT ![c] = "conversation"]
    /\ request' = Put(request, c, r)
    /\ locks' = [locks EXCEPT ![r.conv] = Join(@, c)]
    /\ clock' = clock + 1 /\ local' = [local EXCEPT ![c].since = clock]
    /\ UNCHANGED <<tables, given, late, history>>

\* Variant: a conversation is anybody's.
ScopeIgnored(c) == TRUE

InScope(c) == conversations'[Conv(c)] = request[c].scope

Enter(c) ==
    /\ At(c, "conversation") /\ ClaimConversation(c)
    /\ IF InScope(c) THEN Goes(c, "message") ELSE Returns(c, "conflict")
    /\ Same

\* parse_memory_command()
AfterClaim(c) ==
    CASE Text(c).kind = "remember" -> "remember"
      [] Text(c).kind = "forget" -> "forget"
      [] Text(c).kind = "blank" -> "respond"
      [] OTHER -> "recent"

\* Variant: a question found without an answer is asked again.
FreshOrUnanswered(c) ==
    Id(c) \notin DOMAIN messages \/ ~\E i \in DOMAIN messages : messages[i].role = "assistant" /\ messages[i].to = Id(c)

Fresh(c) == Id(c) \notin DOMAIN messages

Claim(c) ==
    /\ At(c, "message") /\ ClaimMessage(c, local[c])
    /\ \/ Fresh(c) /\ Keyed(c, {}) /\ Goes(c, AfterClaim(c))
       \/ ~Fresh(c) /\ Goes(c, "duplicate")
       \/ Fresh(c) /\ ~Keyed(c, {}) /\ Returns(c, "nothing")
    /\ Same

\* find_message(): the same question, asked in the same conversation.
SameQuestion(c) ==
    /\ Id(c) \in DOMAIN messages
    /\ LET m == messages[Id(c)] IN m.role = "user" /\ m.conv = Conv(c) /\ m.text = Text(c)

CheckDuplicate(c) ==
    /\ At(c, "duplicate")
    /\ IF SameQuestion(c) THEN Goes(c, "replay") ELSE Returns(c, "conflict")
    /\ UNCHANGED tables /\ Same

\* _replay_response(): the latest answer to it.
Answers(i) == {j \in DOMAIN messages : messages[j].role = "assistant" /\ messages[j].to = i}
Latest(S) == {j \in S : \A k \in S : messages[k].at <= messages[j].at}

\* Variant: a question found without an answer is asked again after all.
ReplayOrAsk(c) ==
    /\ At(c, "replay")
    /\ \/ \E j \in Latest(Answers(Id(c))) :
            Returns(c, IF messages[j].conv = Conv(c) THEN j ELSE "conflict")
       \/ Answers(Id(c)) = {} /\ Goes(c, "recent")
    /\ UNCHANGED tables /\ Same

Replay(c) ==
    /\ At(c, "replay")
    /\ \/ \E j \in Latest(Answers(Id(c))) :
            Returns(c, IF messages[j].conv = Conv(c) THEN j ELSE "conflict")
       \/ Answers(Id(c)) = {} /\ Returns(c, "conflict")
    /\ UNCHANGED tables /\ Same

UseMemory(c) ==
    /\ pc[c] \in {"remember", "forget"} /\ At(c, pc[c]) /\ Write(c, pc[c], local[c])
    /\ Goes(c, "respond") /\ Same

\* A response is made; it is stored next.
Responds(c, status, requests) ==
    /\ Gathers(c, "save", [Blank EXCEPT !.since = clock, !.requests = requests, !.status = status])
    /\ clock' = clock + 1
    /\ UNCHANGED <<tables, request, late, history>>

RespondLocally(c) ==
    /\ At(c, "respond")
    /\ Responds(c, IF Text(c).kind = "blank" THEN "failed" ELSE "completed", 0)

\* recent_messages(): the latest of the conversation, failed ones included.
Later(i, v) == {j \in DOMAIN messages : messages[j].conv = v /\ messages[j].at > messages[i].at}
Recent(v) == {i \in DOMAIN messages : messages[i].conv = v /\ Cardinality(Later(i, v)) < Window}

ReadHistory(c) ==
    /\ At(c, "recent")
    /\ Gathers(c, "memories", [local[c] EXCEPT !.shown = Recent(Conv(c))])
    /\ UNCHANGED tables /\ Same

\* list_memories(), and the model is asked.
Ask(c) ==
    /\ At(c, "memories")
    /\ Gathers(c, "model", [local[c] EXCEPT !.known = {k \in DOMAIN memories : k[1] = request[c].scope}])
    /\ turns' = [turns EXCEPT ![Id(c)] = @ + 1]
    /\ UNCHANGED <<tables, request, late, clock, tools, deleted>>

\* ModelToolOrchestrator.run(): the model answers, or a request fails, repeats
\* the id of a tool call or asks for more than the limits of a turn allow.
ModelAnswers(c) ==
    /\ At(c, "model")
    /\ \E status \in {"completed", "failed"} : Responds(c, status, local[c].requests + 1)

\* Tools are called only if the model can be told what they did.
WithinLimits(l, n) == l.requests + 1 < MaxRequests /\ l.called + n <= MaxToolCalls

ModelAsksForTools(c) ==
    /\ At(c, "model")
    /\ \E n \in 1..MaxToolCalls :
          /\ WithinLimits(local[c], n)
          /\ Gathers(c, "tools", [local[c] EXCEPT !.requests = @ + 1, !.left = n])
    /\ UNCHANGED tables /\ Same

\* _execute_tool(): called, refused or failed, it has a result.
CallTool(c) ==
    /\ At(c, "tools")
    /\ Gathers(c, IF local[c].left = 1 THEN "model" ELSE "tools",
               [local[c] EXCEPT !.called = @ + 1, !.left = @ - 1])
    /\ tools' = [tools EXCEPT ![Id(c)] = @ + 1]
    /\ UNCHANGED <<tables, request, late, clock, turns, deleted>>

\* Any other exception: the message stays claimed and without an answer.
ModelRaises(c) ==
    /\ pc[c] \in {"model", "tools"} /\ At(c, pc[c]) /\ Returns(c, "nothing")
    /\ UNCHANGED tables /\ Same

Save(c) ==
    /\ At(c, "save") /\ SaveAnswer(c, local[c])
    /\ Returns(c, IF c \in DOMAIN messages' THEN c ELSE "nothing")
    /\ Same

-----------------------------------------------------------------------------
(* What happens to them.                                                   *)

\* The task is cancelled (its socket is gone).  A write it has handed to a
\* thread is made nevertheless, sooner or later.
Cancel(c) ==
    /\ pc[c] \notin {"new", "done"}
    /\ Returns(c, "nothing")
    /\ late' \in {late} \cup (IF pc[c] \in Writes /\ Holds(locks[Conv(c)], c)
                              THEN {late \cup {[call |-> c, at |-> pc[c], local |-> local[c]]}} ELSE {})
    /\ UNCHANGED <<tables, request, clock, history>>

LateWrite(w) ==
    /\ w \in late /\ late' = late \ {w}
    /\ Write(w.call, w.at, w.local)
    /\ UNCHANGED <<locks, pc, request, local, given, clock, history>>

\* DELETE /conversations/{id} and DELETE /memories/{id}
Delete(v) ==
    /\ v \in DOMAIN conversations /\ DeleteConversation(v)
    /\ deleted' = deleted \cup {v}
    /\ UNCHANGED <<locks, pc, request, local, given, late, clock, turns, tools>>

RemoveMemory(k) ==
    /\ k \in DOMAIN memories /\ DeleteMemory(k)
    /\ UNCHANGED <<locks, pc, request, local, given, late, clock, history>>

\* The process dies and starts again: only the tables remain.
Crash ==
    /\ \E c \in Calls : pc[c] \notin {"new", "done"}
    /\ pc' = [c \in Calls |-> IF pc[c] = "new" THEN "new" ELSE "done"]
    /\ locks' = [v \in Conversations |-> Free] /\ late' = {}
    /\ local' = [c \in Calls |-> Blank]
    /\ UNCHANGED <<tables, request, given, clock, history>>

Step(c) ==
    \/ Enter(c) \/ Claim(c) \/ CheckDuplicate(c) \/ Replay(c) \/ UseMemory(c) \/ RespondLocally(c)
    \/ ReadHistory(c) \/ Ask(c) \/ ModelAnswers(c) \/ ModelAsksForTools(c) \/ CallTool(c) \/ ModelRaises(c) \/ Save(c)

Next ==
    \/ \E c \in Calls : Step(c) \/ Cancel(c) \/ \E r \in Requests : Deliver(c, r)
    \/ \E w \in late : LateWrite(w)
    \/ \E v \in Conversations : Delete(v)
    \/ \E k \in DOMAIN memories : RemoveMemory(k)
    \/ Crash

Spec == Init /\ [][Next]_vars

-----------------------------------------------------------------------------
Rows == [role : {"user", "assistant"}, conv : Conversations, to : Ids, text : Texts, scope : Scopes,
         status : {"completed", "failed"}, at : Nat, by : Calls]
Places == Writes \cup {"new", "tools", "duplicate", "replay", "respond", "recent", "memories", "model", "done"}

Gathered == [since : Nat, shown : SUBSET (Ids \cup Calls), known : SUBSET (Scopes \X Abouts),
             requests : 0..MaxRequests, called : 0..MaxToolCalls, left : 0..MaxToolCalls,
             status : {"completed", "failed"}]

TypeOK ==
    /\ DOMAIN conversations \subseteq Conversations /\ Range(conversations) \subseteq Scopes
    /\ DOMAIN messages \subseteq Ids \cup Calls /\ Range(messages) \subseteq Rows
    /\ modelCalls \subseteq Ids \X Calls \X (1..MaxRequests)
    /\ DOMAIN memories \subseteq Scopes \X Abouts /\ Range(memories) \subseteq Ids
    /\ DOMAIN locks = Conversations /\ \A v \in Conversations : IsLock(locks[v], Calls)
    /\ pc \in [Calls -> Places]
    /\ DOMAIN request = {c \in Calls : pc[c] # "new"} /\ Range(request) \subseteq Requests
    /\ local \in [Calls -> Gathered] /\ clock \in Nat
    /\ given \in [Calls -> Calls \cup {"nothing", "conflict"}]
    /\ late \subseteq [call : Calls, at : Writes, local : Gathered]
    /\ turns \in [Ids -> Nat] /\ tools \in [Ids -> Nat] /\ deleted \subseteq Conversations

\* "A repeated message does not call the model again" (README.md:21): through
\* failures, cancellations and restarts a message costs one model turn, unless
\* a conversation was deleted and the message was sent again.
AskedOnce == deleted = {} => \A i \in Ids : turns[i] <= 1

\* Nor does it call more tools than one turn may: the limits of a turn bound
\* what a message can set off, however it is redelivered.
ToolsBounded == deleted = {} => \A i \in Ids : tools[i] <= MaxToolCalls

\* A message has one answer, that of the call that claimed it, however many
\* deliveries of it raced, failed or were cancelled with a write in flight.
OneAnswer ==
    \A j \in DOMAIN messages :
        messages[j].role = "assistant" /\ messages[j].conv \notin deleted =>
            LET i == messages[j].to IN i \in DOMAIN messages /\ messages[i].role = "user" /\ messages[i].by = j

\* However often a message is delivered, it is handled once.
AnsweredOnce == AskedOnce /\ ToolsBounded /\ OneAnswer

\* Whoever delivers a message again is told what the first was told.
RepliesAgree ==
    \A c, d \in Calls :
        (/\ {given[c], given[d]} \subseteq Calls
         /\ Id(c) = Id(d) /\ {Conv(c), Conv(d)} \cap deleted = {})
           => given[c] = given[d] /\ Conv(c) = Conv(d)

\* A deletion that races an answer, even one written by a thread nobody awaits,
\* leaves no message without its conversation and no attempt without its message.
NothingOrphaned ==
    /\ \A i \in DOMAIN messages : messages[i].conv \in DOMAIN conversations
    /\ \A a \in modelCalls : a[1] \in DOMAIN messages

\* A conversation holds only what its owner said and was told, and the model is
\* shown nobody else's messages or memories.
OwnersOnly ==
    /\ \A i \in DOMAIN messages :
          messages[i].conv \notin deleted => messages[i].scope = conversations[messages[i].conv]
    /\ \A c \in Calls : pc[c] = "model" =>
          /\ \A i \in local[c].shown \cap DOMAIN messages :
                Conv(c) \notin deleted => messages[i].conv = Conv(c) /\ messages[i].scope = request[c].scope
          /\ \A k \in local[c].known : k[1] = request[c].scope

\* A stored answer of the model comes with the record of what it cost, in one
\* transaction: one is never found without the other.
AnswersAreAccounted ==
    \A c \in Calls : c \in DOMAIN messages /\ Conv(c) \notin deleted =>
        ((messages[c].text.kind = "chat") <=> \E a \in modelCalls : a[2] = c)

\* The tables hold no row without those it depends on, nor half of a result.
TablesHold == TypeOK /\ NothingOrphaned /\ AnswersAreAccounted

\* Nobody waits behind a call that is over: however a call ends, the next one
\* of its conversation takes its turn.
NobodyStuck ==
    \A v \in Conversations : \A c \in DOMAIN locks[v] :
        pc[c] \notin {"new", "done"} /\ Conv(c) = v
=============================================================================
