------------------------- MODULE AssistantChatProofs -------------------------
(***************************************************************************)
(* Theorems about AssistantChat, for every set of deliveries, messages and *)
(* conversations, every window and every limit of a turn.                  *)
(***************************************************************************)
EXTENDS AssistantChat, TLAPS

-----------------------------------------------------------------------------
(* Types, queues and the limits of a turn                                  *)

\* What may be delivered has an id, a conversation, an owner and a text.
LEMMA MailIs ==
    /\ \A r \in Requests : /\ r.id \in Ids /\ r.conv \in Conversations /\ r.scope \in Scopes
                            /\ r.text \in Texts /\ r.text.kind \in Kinds /\ r.text.about \in Abouts
    /\ Ids \cap Calls = {} /\ "nothing" \notin Calls /\ "conflict" \notin Calls
BY RequestsAssumption DEF Ids, Scopes, Texts, Abouts

\* So has what was delivered to a call.
LEMMA DeliveredIs ==
    ASSUME TypeOK, NEW c \in Calls, pc[c] # "new"
    PROVE  /\ c \in DOMAIN request /\ request[c] \in Requests
           /\ Id(c) \in Ids /\ Conv(c) \in Conversations /\ request[c].scope \in Scopes
           /\ Text(c) \in Texts /\ Text(c).kind \in Kinds /\ Text(c).about \in Abouts
<1>1. c \in DOMAIN request /\ request[c] \in Requests
    BY DEF TypeOK, Range
<1> QED
    BY <1>1, MailIs DEF Id, Conv, Text

\* What a call has gathered keeps within the limits of its turn.
Within(p, l) ==
    /\ p # "tools" => l.left = 0
    /\ p = "tools" => l.left > 0
    /\ p \in {"model", "tools"} => l.requests < MaxRequests /\ l.called + l.left <= MaxToolCalls
    /\ p \notin {"model", "tools", "save"} => l.requests = 0 /\ l.called = 0

\* The types, with the limits and the queues they rest on.
Base ==
    /\ TypeOK /\ NobodyStuck
    /\ \A c \in Calls : Within(pc[c], local[c])
    /\ \A i \in DOMAIN messages : messages[i].role = "assistant" <=> i \in Calls
    /\ \A w \in late : pc[w.call] = "done"

TablesOK ==
    /\ DOMAIN conversations \subseteq Conversations /\ Range(conversations) \subseteq Scopes
    /\ DOMAIN messages \subseteq Ids \cup Calls /\ Range(messages) \subseteq Rows
    /\ modelCalls \subseteq Ids \X Calls \X (1..MaxRequests)
    /\ DOMAIN memories \subseteq Scopes \X Abouts /\ Range(memories) \subseteq Ids
    /\ \A i \in DOMAIN messages : messages[i].role = "assistant" <=> i \in Calls

PlacesOK ==
    /\ pc \in [Calls -> Places]
    /\ DOMAIN request = {c \in Calls : pc[c] # "new"} /\ Range(request) \subseteq Requests
    /\ local \in [Calls -> Gathered]
    /\ given \in [Calls -> Calls \cup {"nothing", "conflict"}]
    /\ \A c \in Calls : Within(pc[c], local[c])
    /\ DOMAIN locks = Conversations
    /\ \A v \in Conversations :
          /\ IsLock(locks[v], Calls)
          /\ \A c \in DOMAIN locks[v] : pc[c] \notin {"new", "done"} /\ Conv(c) = v

RestOK ==
    /\ clock \in Nat
    /\ late \subseteq [call : Calls, at : Writes, local : Gathered]
    /\ \A w \in late : pc[w.call] = "done"
    /\ turns \in [Ids -> Nat] /\ tools \in [Ids -> Nat] /\ deleted \subseteq Conversations

\* The base in three parts.
LEMMA BaseParts ==
    /\ Base <=> TablesOK /\ PlacesOK /\ RestOK
    /\ Base' <=> TablesOK' /\ PlacesOK' /\ RestOK'
BY DEF Base, TypeOK, TablesOK, PlacesOK, RestOK, NobodyStuck

\* Nothing gathered.
LEMMA BlankIs == Blank \in Gathered /\ \A p : p # "tools" /\ p \notin {"model", "tools"} => Within(p, Blank)
BY BoundsAssumption DEF Blank, Gathered, Within

\* Empty tables, free locks, no calls.
LEMMA BaseInit == Init => Base
<1> SUFFICES ASSUME Init PROVE Base
    OBVIOUS
<1>1. TablesOK
    BY DEF Init, Empty, TablesOK, Range
<1>2. PlacesOK
    BY BlankIs DEF Init, Empty, PlacesOK, Range, Places, Free, IsLock
<1>3. RestOK
    BY DEF Init, RestOK
<1> QED
    BY <1>1, <1>2, <1>3, BaseParts

\* A row, an attempt and a memory of a delivered message have their types.
LEMMA WriteTypes ==
    ASSUME TypeOK, TablesOK, NEW c \in Calls, pc[c] # "new", NEW p \in Writes, NEW l \in Gathered,
           Write(c, p, l)
    PROVE  TablesOK'
<1> USE DEF TypeOK, TablesOK, Put, Drop, Restrict, Range
<1>0. /\ Id(c) \in Ids /\ Conv(c) \in Conversations /\ request[c].scope \in Scopes
      /\ Text(c) \in Texts /\ Text(c).about \in Abouts
    BY DeliveredIs
<1>1. CASE p = "conversation"
    <2>1. ClaimConversation(c)
        BY <1>1 DEF Write
    <2>2. conversations' = conversations \/ conversations' = Put(conversations, Conv(c), request[c].scope)
        BY <2>1 DEF ClaimConversation
    <2> QED
        BY <1>0, <2>1, <2>2 DEF ClaimConversation
<1>2. CASE p = "message"
    <2>1. ClaimMessage(c, l)
        BY <1>2 DEF Write
    <2>2. messages' = messages \/ messages' = Put(messages, Id(c), Row(c, "user", l))
        BY <2>1 DEF ClaimMessage
    <2>3. Row(c, "user", l) \in Rows /\ Row(c, "user", l).role = "user"
        BY <1>0 DEF Row, Rows, Gathered
    <2> QED
        BY <1>0, <2>1, <2>2, <2>3, MailIs DEF ClaimMessage
<1>3. CASE p = "remember"
    <2>1. SaveMemory(c)
        BY <1>3 DEF Write
    <2>2. Memory(c) \in Scopes \X Abouts
        BY <1>0 DEF Memory
    <2> QED
        BY <1>0, <2>1, <2>2 DEF SaveMemory
<1>4. CASE p = "forget"
    <2>1. DeleteMemory(Memory(c))
        BY <1>4 DEF Write
    <2> QED
        BY <2>1 DEF DeleteMemory
<1>5. CASE p = "save"
    <2>1. SaveAnswer(c, l)
        BY <1>5 DEF Write
    <2>2. messages' = messages \/ messages' = Put(messages, c, Row(c, "assistant", l))
        BY <2>1 DEF SaveAnswer
    <2>3. Row(c, "assistant", l) \in Rows /\ Row(c, "assistant", l).role = "assistant"
        BY <1>0 DEF Row, Rows, Gathered
    <2>4. Attempts(c, l) \subseteq Ids \X Calls \X (1..MaxRequests)
        BY <1>0, BoundsAssumption DEF Attempts, Gathered
    <2>5. modelCalls' \subseteq Ids \X Calls \X (1..MaxRequests)
        BY <2>1, <2>4 DEF SaveAnswer
    <2> QED
        BY <1>0, <2>1, <2>2, <2>3, <2>5 DEF SaveAnswer
<1> QED
    BY <1>1, <1>2, <1>3, <1>4, <1>5 DEF Writes

\* A call that gathers something stands in a place of its own.
LEMMA GathersBase ==
    ASSUME PlacesOK, NEW c \in Calls, pc[c] \notin {"new", "done"}, UNCHANGED request,
           NEW to \in Places \ {"new", "done"}, NEW l \in Gathered, Within(to, l), Gathers(c, to, l)
    PROVE  PlacesOK'
BY DEF PlacesOK, Gathers, Within, Conv

\* One that returns waits for nobody and is waited for by nobody.
LEMMA ReturnsBase ==
    ASSUME PlacesOK, NEW c \in Calls, pc[c] \notin {"new", "done"}, UNCHANGED request,
           NEW what \in Calls \cup {"nothing", "conflict"}, Returns(c, what)
    PROVE  PlacesOK'
<1>1. Conv(c) \in Conversations
    BY MailIs DEF PlacesOK, Range, Conv
<1>2. /\ pc' = [pc EXCEPT ![c] = "done"] /\ given' = [given EXCEPT ![c] = what]
      /\ local' = [local EXCEPT ![c] = Blank]
    BY DEF Returns
<1>3. /\ pc' \in [Calls -> Places] /\ local' \in [Calls -> Gathered]
      /\ given' \in [Calls -> Calls \cup {"nothing", "conflict"}]
      /\ DOMAIN request' = {k \in Calls : pc'[k] # "new"} /\ Range(request') \subseteq Requests
    BY <1>2, BlankIs DEF PlacesOK, Places
<1>4. ASSUME NEW k \in Calls PROVE Within(pc'[k], local'[k])
    BY <1>2, BlankIs DEF PlacesOK
<1>5. ASSUME NEW v \in Conversations
      PROVE  /\ IsLock(locks'[v], Calls)
             /\ \A k \in DOMAIN locks'[v] : pc'[k] \notin {"new", "done"} /\ Conv(k)' = v
    <2>1. CASE v = Conv(c)
        <3>1. locks'[v] = Leave(locks[v], c)
            BY <1>1, <2>1 DEF Returns, PlacesOK
        <3>2. IsLock(locks[v], Calls)
            BY DEF PlacesOK
        <3>3. IsLock(locks'[v], Calls) /\ DOMAIN locks'[v] = DOMAIN locks[v] \ {c}
            BY <3>1, <3>2 DEF Leave, LeaveAll, IsLock
        <3> QED
            BY <1>2, <3>2, <3>3 DEF PlacesOK, Conv, IsLock
    <2>2. CASE v # Conv(c)
        <3>1. locks'[v] = locks[v]
            BY <2>2 DEF Returns, PlacesOK
        <3> QED
            BY <1>2, <2>2, <3>1 DEF PlacesOK, Conv
    <2> QED
        BY <2>1, <2>2
<1>6. DOMAIN locks' = Conversations
    BY DEF Returns, PlacesOK
<1> QED
    BY <1>3, <1>4, <1>5, <1>6 DEF PlacesOK

\* A delivered message waits in the queue of its conversation.
LEMMA DeliverBase ==
    ASSUME PlacesOK, clock \in Nat, NEW c \in Calls, NEW r \in Requests, Deliver(c, r)
    PROVE  PlacesOK'
<1>1. /\ pc' = [pc EXCEPT ![c] = "conversation"] /\ given' = given /\ pc[c] = "new"
      /\ local' = [local EXCEPT ![c].since = clock]
      /\ DOMAIN request' = DOMAIN request \cup {c} /\ request'[c] = r
      /\ \A k \in DOMAIN request : k # c => request'[k] = request[k]
    BY DEF Deliver, Put
<1>2. local'[c] \in Gathered /\ Within("conversation", local'[c])
    <2>1. local'[c] = [local[c] EXCEPT !.since = clock] /\ local[c] \in Gathered
        BY <1>1 DEF PlacesOK
    <2>2. local[c].left = 0 /\ local[c].requests = 0 /\ local[c].called = 0
        BY <1>1 DEF PlacesOK, Within
    <2> QED
        BY <2>1, <2>2 DEF Gathered, Within
<1>3. /\ pc' \in [Calls -> Places] /\ local' \in [Calls -> Gathered]
      /\ given' \in [Calls -> Calls \cup {"nothing", "conflict"}]
      /\ DOMAIN request' = {k \in Calls : pc'[k] # "new"} /\ Range(request') \subseteq Requests
    BY <1>1, <1>2 DEF PlacesOK, Places, Writes, Range
<1>4. ASSUME NEW k \in Calls PROVE Within(pc'[k], local'[k])
    BY <1>1, <1>2 DEF PlacesOK
<1>5. ASSUME NEW v \in Conversations
      PROVE  /\ IsLock(locks'[v], Calls)
             /\ \A k \in DOMAIN locks'[v] : pc'[k] \notin {"new", "done"} /\ Conv(k)' = v
    <2>1. CASE v = r.conv
        <3>1. locks'[v] = Join(locks[v], c)
            BY <2>1 DEF Deliver, PlacesOK
        <3>2. IsLock(locks[v], Calls)
            BY DEF PlacesOK
        <3>3. IsLock(locks'[v], Calls) /\ DOMAIN locks'[v] = DOMAIN locks[v] \cup {c}
            BY <3>1, <3>2 DEF Join, IsLock
        <3> QED
            BY <1>1, <2>1, <3>2, <3>3 DEF PlacesOK, Conv, IsLock
    <2>2. CASE v # r.conv
        <3>1. locks'[v] = locks[v]
            BY <2>2 DEF Deliver, PlacesOK
        <3> QED
            BY <1>1, <3>1 DEF PlacesOK, Conv, IsLock
    <2> QED
        BY <2>1, <2>2
<1>6. DOMAIN locks' = Conversations
    BY DEF Deliver, PlacesOK
<1> QED
    BY <1>3, <1>4, <1>5, <1>6 DEF PlacesOK

\* A thread nobody awaits any more writes what it was given to write.
LEMMA CancelBase ==
    ASSUME Base, NEW c \in Calls, Cancel(c)
    PROVE  Base'
<1>1. TablesOK'
    BY BaseParts DEF Cancel, TablesOK, tables
<1>2. PlacesOK'
    BY BaseParts, ReturnsBase DEF Cancel
<1>3. /\ late' \subseteq [call : Calls, at : Writes, local : Gathered]
      /\ \A w \in late' : pc'[w.call] = "done"
    <2>1. /\ local[c] \in Gathered /\ late \subseteq [call : Calls, at : Writes, local : Gathered]
          /\ pc' = [pc EXCEPT ![c] = "done"] /\ pc \in [Calls -> Places]
          /\ \A w \in late : pc[w.call] = "done"
        BY DEF Base, TypeOK, Cancel, Returns
    <2>2. \/ late' = late
          \/ pc[c] \in Writes /\ late' = late \cup {[call |-> c, at |-> pc[c], local |-> local[c]]}
        BY DEF Cancel
    <2> QED
        BY <2>1, <2>2
<1>4. RestOK'
    BY <1>3 DEF Cancel, Base, TypeOK, RestOK, history
<1> QED
    BY <1>1, <1>2, <1>4, BaseParts

\* Steps of a call keep the types, the queues and the limits.
LEMMA StepBase ==
    ASSUME Base, NEW c \in Calls, Step(c)
    PROVE  Base'
<1>1. TypeOK /\ PlacesOK /\ RestOK /\ TablesOK /\ Within(pc[c], local[c])
    BY BaseParts DEF Base
<1>2. local[c] \in Gathered /\ clock \in Nat /\ Blank \in Gathered
    BY <1>1, BlankIs DEF TypeOK
<1>3. pc[c] # "new" => Id(c) \in Ids /\ Text(c).kind \in Kinds
    BY <1>1, DeliveredIs
<1>0. pc[c] \notin {"new", "done"} /\ \A k \in Calls \ {c} : pc'[k] = pc[k]
    BY <1>1
    DEF Step, Enter, Claim, CheckDuplicate, Replay, UseMemory, RespondLocally, ReadHistory, Ask,
        ModelAnswers, ModelAsksForTools, CallTool, ModelRaises, Save, At, Responds, Returns, Goes,
        Gathers, PlacesOK
<1>4. ASSUME UNCHANGED <<late, clock, history>> PROVE RestOK'
    BY <1>0, <1>1, <1>4 DEF RestOK, history
<1>5. ASSUME UNCHANGED tables PROVE TablesOK'
    BY <1>1, <1>5 DEF TablesOK, tables
<1>6. ASSUME NEW p \in Writes, p # "new", pc[c] = p, Write(c, p, local[c]) PROVE TablesOK'
    BY <1>1, <1>2, <1>6, WriteTypes DEF Writes
<1>7. ASSUME NEW to \in Places \ {"new", "done"}, pc[c] \notin {"new", "done"},
             Within(to, local[c]), Goes(c, to), UNCHANGED request
      PROVE  PlacesOK'
    BY <1>1, <1>2, <1>7, GathersBase DEF Goes
<1>8. CASE Enter(c)
    <2>1. TablesOK'
        BY <1>6, <1>8 DEF Enter, At, Write, Writes
    <2>2. PlacesOK'
        BY <1>1, <1>7, <1>8, ReturnsBase DEF Enter, At, Same, Places, Writes, Within
    <2> QED
        BY <1>4, <1>8, <2>1, <2>2, BaseParts DEF Enter, Same
<1>9. CASE Claim(c)
    <2>1. TablesOK'
        BY <1>6, <1>9 DEF Claim, At, Write, Writes
    <2>2. AfterClaim(c) \in {"remember", "forget", "respond", "recent"}
        BY <1>3, <1>9 DEF AfterClaim, Kinds
    <2>3. PlacesOK'
        BY <1>1, <1>7, <1>9, <2>2, ReturnsBase DEF Claim, At, Same, Places, Writes, Within
    <2> QED
        BY <1>4, <1>9, <2>1, <2>3, BaseParts DEF Claim, Same
<1>10. CASE CheckDuplicate(c)
    <2>1. PlacesOK'
        BY <1>1, <1>7, <1>10, ReturnsBase DEF CheckDuplicate, At, Same, Places, Within
    <2> QED
        BY <1>4, <1>5, <1>10, <2>1, BaseParts DEF CheckDuplicate, Same
<1>11. CASE Replay(c)
    <2>1. ASSUME NEW j \in Latest(Answers(Id(c))) PROVE j \in Calls
        BY <1>1 DEF Latest, Answers, TablesOK
    <2>2. PlacesOK'
        BY <1>1, <1>11, <2>1, ReturnsBase DEF Replay, At, Same
    <2> QED
        BY <1>4, <1>5, <1>11, <2>2, BaseParts DEF Replay, Same
<1>12. CASE UseMemory(c)
    <2>1. TablesOK'
        BY <1>6, <1>12 DEF UseMemory, Writes
    <2>2. PlacesOK'
        BY <1>1, <1>7, <1>12 DEF UseMemory, At, Same, Places, Within
    <2> QED
        BY <1>4, <1>12, <2>1, <2>2, BaseParts DEF UseMemory, Same
<1>13. ASSUME NEW status \in {"completed", "failed"}, NEW n \in 0..MaxRequests,
              Responds(c, status, n), pc[c] \notin {"new", "done"}
       PROVE  Base'
    <2> DEFINE l == [Blank EXCEPT !.since = clock, !.requests = n, !.status = status]
    <2>1. l \in Gathered /\ Within("save", l)
        BY <1>2, <1>13 DEF Blank, Gathered, Within
    <2>2. PlacesOK'
        BY <1>1, <1>13, <2>1, GathersBase DEF Responds, Places, Writes
    <2>3. RestOK'
        BY <1>0, <1>1, <1>2, <1>13 DEF Responds, RestOK, history
    <2> QED
        BY <1>5, <1>13, <2>2, <2>3, BaseParts DEF Responds
<1>14. CASE RespondLocally(c)
    BY <1>13, <1>14, BoundsAssumption DEF RespondLocally, At
<1>15. CASE ReadHistory(c)
    <2> DEFINE l == [local[c] EXCEPT !.shown = Recent(Conv(c))]
    <2>1. l \in Gathered /\ Within("memories", l)
        BY <1>1, <1>2, <1>15 DEF ReadHistory, At, Recent, TablesOK, Gathered, Within
    <2>2. PlacesOK'
        BY <1>1, <1>15, <2>1, GathersBase DEF ReadHistory, At, Same, Places
    <2> QED
        BY <1>4, <1>5, <1>15, <2>2, BaseParts DEF ReadHistory, Same
<1>16. CASE Ask(c)
    <2> DEFINE l == [local[c] EXCEPT !.known = {k \in DOMAIN memories : k[1] = request[c].scope}]
    <2>1. l \in Gathered /\ Within("model", l)
        BY <1>1, <1>2, <1>16, BoundsAssumption DEF Ask, At, TablesOK, Gathered, Within
    <2>2. PlacesOK'
        BY <1>1, <1>16, <2>1, GathersBase DEF Ask, At, Places
    <2>3. RestOK'
        BY <1>0, <1>1, <1>3, <1>16 DEF Ask, At, RestOK
    <2> QED
        BY <1>5, <1>16, <2>2, <2>3, BaseParts DEF Ask
<1>17. CASE ModelAnswers(c)
    <2>1. local[c].requests + 1 \in 0..MaxRequests
        BY <1>1, <1>2, <1>17, BoundsAssumption DEF ModelAnswers, At, Gathered, Within
    <2> QED
        BY <1>13, <1>17, <2>1 DEF ModelAnswers, At
<1>18. CASE ModelAsksForTools(c)
    <2> PICK n \in 1..MaxToolCalls :
               /\ WithinLimits(local[c], n)
               /\ Gathers(c, "tools", [local[c] EXCEPT !.requests = @ + 1, !.left = n])
        BY <1>18 DEF ModelAsksForTools
    <2> DEFINE l == [local[c] EXCEPT !.requests = @ + 1, !.left = n]
    <2>1. l \in Gathered /\ Within("tools", l)
        <3>1. /\ local[c].requests + 1 \in 0..MaxRequests /\ local[c].requests + 1 < MaxRequests
              /\ n \in 0..MaxToolCalls /\ n > 0 /\ local[c].called + n <= MaxToolCalls
            BY <1>2, BoundsAssumption DEF WithinLimits, Gathered
        <3> QED
            BY <1>2, <3>1 DEF Gathered, Within
    <2>2. PlacesOK'
        BY <1>1, <1>18, <2>1, GathersBase DEF ModelAsksForTools, At, Same, Places
    <2> QED
        BY <1>4, <1>5, <1>18, <2>2, BaseParts DEF ModelAsksForTools, Same
<1>19. CASE CallTool(c)
    <2> DEFINE to == IF local[c].left = 1 THEN "model" ELSE "tools"
               l == [local[c] EXCEPT !.called = @ + 1, !.left = @ - 1]
    <2>1. l \in Gathered /\ Within(to, l)
        <3>1. /\ local[c].left > 0 /\ local[c].requests < MaxRequests
              /\ local[c].called + local[c].left <= MaxToolCalls
            BY <1>1, <1>19 DEF CallTool, At, Within
        <3>2. /\ local[c].called \in Nat /\ local[c].left \in Nat /\ MaxToolCalls \in Nat
              /\ local[c].called <= MaxToolCalls /\ local[c].left <= MaxToolCalls
            BY <1>2, BoundsAssumption DEF Gathered
        <3>3. /\ local[c].called + 1 \in 0..MaxToolCalls /\ local[c].left - 1 \in 0..MaxToolCalls
              /\ (local[c].called + 1) + (local[c].left - 1) <= MaxToolCalls
            BY <3>1, <3>2
        <3>4. l \in Gathered
            BY <1>2, <3>3 DEF Gathered
        <3>5. /\ l.left = local[c].left - 1 /\ l.called = local[c].called + 1
              /\ l.requests = local[c].requests
            BY <1>2 DEF Gathered
        <3>6. (to = "model" /\ local[c].left = 1) \/ (to = "tools" /\ local[c].left - 1 > 0)
            BY <3>1, <3>2
        <3> QED
            BY <3>1, <3>2, <3>3, <3>4, <3>5, <3>6 DEF Within
    <2>2. PlacesOK'
        BY <1>1, <1>19, <2>1, GathersBase DEF CallTool, At, Places
    <2>3. RestOK'
        BY <1>0, <1>1, <1>3, <1>19 DEF CallTool, At, RestOK
    <2> QED
        BY <1>5, <1>19, <2>2, <2>3, BaseParts DEF CallTool
<1>20. CASE ModelRaises(c)
    <2>1. PlacesOK'
        BY <1>1, <1>20, ReturnsBase DEF ModelRaises, Same
    <2> QED
        BY <1>4, <1>5, <1>20, <2>1, BaseParts DEF ModelRaises, Same
<1>21. CASE Save(c)
    <2>1. TablesOK'
        BY <1>6, <1>21 DEF Save, At, Write, Writes
    <2>2. PlacesOK'
        BY <1>1, <1>21, ReturnsBase DEF Save, At, Same
    <2> QED
        BY <1>4, <1>21, <2>1, <2>2, BaseParts DEF Save, Same
<1> QED
    BY <1>8, <1>9, <1>10, <1>11, <1>12, <1>14, <1>15, <1>16, <1>17, <1>18, <1>19, <1>20, <1>21
    DEF Step

\* So does everything else that happens.
LEMMA BaseStep == Base /\ [Next]_vars => Base'
<1> SUFFICES ASSUME Base, [Next]_vars PROVE Base'
    OBVIOUS
<1>1. TypeOK /\ PlacesOK /\ RestOK /\ TablesOK
    BY BaseParts DEF Base
<1>2. CASE \E c \in Calls : Step(c)
    BY <1>2, StepBase
<1>3. CASE \E c \in Calls : Cancel(c)
    BY <1>3, CancelBase
<1>4. CASE \E c \in Calls, r \in Requests : Deliver(c, r)
    <2>1. PlacesOK'
        BY <1>1, <1>4, DeliverBase DEF RestOK
    <2>2. TablesOK' /\ RestOK'
        BY <1>1, <1>4 DEF Deliver, TablesOK, RestOK, tables, history
    <2> QED
        BY <2>1, <2>2, BaseParts
<1>5. CASE \E w \in late : LateWrite(w)
    <2> PICK w \in late : LateWrite(w)
        BY <1>5
    <2>1. w.call \in Calls /\ w.at \in Writes /\ w.local \in Gathered /\ pc[w.call] # "new"
        BY <1>1 DEF RestOK
    <2>2. TablesOK'
        BY <1>1, <2>1, WriteTypes DEF LateWrite
    <2>3. PlacesOK' /\ RestOK'
        BY <1>1 DEF LateWrite, PlacesOK, RestOK, history, Conv
    <2> QED
        BY <2>2, <2>3, BaseParts
<1>6. CASE \E v \in Conversations : Delete(v)
    <2> PICK v \in Conversations : Delete(v)
        BY <1>6
    <2>1. TablesOK'
        BY <1>1 DEF Delete, DeleteConversation, TablesOK, Drop, Restrict, Range
    <2>2. PlacesOK' /\ RestOK'
        BY <1>1 DEF Delete, PlacesOK, RestOK, Conv
    <2> QED
        BY <2>1, <2>2, BaseParts
<1>7. CASE \E k \in DOMAIN memories : RemoveMemory(k)
    <2>1. TablesOK'
        BY <1>1, <1>7 DEF RemoveMemory, DeleteMemory, TablesOK, Drop, Restrict, Range
    <2>2. PlacesOK' /\ RestOK'
        BY <1>1, <1>7 DEF RemoveMemory, PlacesOK, RestOK, history, Conv
    <2> QED
        BY <2>1, <2>2, BaseParts
<1>8. CASE Crash
    <2>1. TablesOK' /\ RestOK'
        BY <1>1, <1>8 DEF Crash, TablesOK, RestOK, tables, history
    <2>2. PlacesOK'
        BY <1>1, <1>8, BlankIs DEF Crash, PlacesOK, Places, Free, IsLock
    <2> QED
        BY <2>1, <2>2, BaseParts
<1>9. CASE UNCHANGED vars
    BY <1>1, <1>9, BaseParts
    DEF vars, tables, history, TablesOK, PlacesOK, RestOK, Conv
<1> QED
    BY <1>2, <1>3, <1>4, <1>5, <1>6, <1>7, <1>8, <1>9 DEF Next

-----------------------------------------------------------------------------
(* The rows of the tables                                                  *)

Open(v) == v \notin deleted

\* The question of a call's message is the row this call claimed.
Owns(c) == Id(c) \in DOMAIN messages /\ messages[Id(c)].by = c

\* A row is what the call that wrote it was given, its conversation is there
\* and, unless it was ever deleted, the owner's, and its answer the claimer's.
RowHolds(i) ==
    LET m == messages[i] IN
    /\ m.by \in DOMAIN request
    /\ m.conv = Conv(m.by) /\ m.to = Id(m.by) /\ m.text = Text(m.by) /\ m.scope = request[m.by].scope
    /\ i = (IF m.role = "assistant" THEN m.by ELSE Id(m.by))
    /\ m.conv \in DOMAIN conversations
    /\ Open(m.conv) => m.scope = conversations[m.conv]
    /\ m.role = "assistant" /\ Open(m.conv) => Owns(m.by)

\* An attempt is one of a chat message that is there.
AttemptHolds(a) ==
    /\ a[1] \in DOMAIN messages /\ a[2] \in DOMAIN request
    /\ a[1] = Id(a[2]) /\ Text(a[2]).kind = "chat"

\* An answer of the model has one.
Accounted(c) ==
    c \in DOMAIN messages /\ Open(Conv(c)) /\ Text(c).kind = "chat" => \E a \in modelCalls : a[2] = c

Ledger ==
    /\ \A i \in DOMAIN messages : RowHolds(i)
    /\ \A a \in modelCalls : AttemptHolds(a)
    /\ \A c \in Calls : Accounted(c)

\* What a call at p, or a thread writing for it, may rely on.
Entitled(c, p, l) ==
    /\ p \notin {"new", "done", "conversation"} /\ Open(Conv(c))
         => Conv(c) \in DOMAIN conversations /\ conversations[Conv(c)] = request[c].scope
    /\ p \in {"remember", "forget", "respond", "recent", "memories", "model", "tools", "save"}
         /\ Open(Conv(c)) => Owns(c)
    /\ p \in {"recent", "memories", "model", "tools"} => Text(c).kind = "chat"
    /\ p = "respond" => Text(c).kind # "chat"
    /\ p \in {"remember", "forget"} => Text(c).kind = p
    /\ p = "save" => (l.requests > 0 <=> Text(c).kind = "chat")
    /\ p \in {"memories", "model", "tools"} /\ Open(Conv(c))
         => \A i \in l.shown : i \in DOMAIN messages /\ messages[i].conv = Conv(c)
    /\ p \in {"model", "tools"} => \A k \in l.known : k[1] = request[c].scope

\* The same after a step, for what a call stood at and had gathered before it.
EntitledThen(c, p, l) ==
    /\ p \notin {"new", "done", "conversation"} /\ Conv(c)' \notin deleted'
         => Conv(c)' \in DOMAIN conversations' /\ conversations'[Conv(c)'] = request'[c].scope
    /\ p \in {"remember", "forget", "respond", "recent", "memories", "model", "tools", "save"}
         /\ Conv(c)' \notin deleted' => Owns(c)'
    /\ p \in {"recent", "memories", "model", "tools"} => Text(c)'.kind = "chat"
    /\ p = "respond" => Text(c)'.kind # "chat"
    /\ p \in {"remember", "forget"} => Text(c)'.kind = p
    /\ p = "save" => (l.requests > 0 <=> Text(c)'.kind = "chat")
    /\ p \in {"memories", "model", "tools"} /\ Conv(c)' \notin deleted'
         => \A i \in l.shown : i \in DOMAIN messages' /\ messages'[i].conv = Conv(c)'
    /\ p \in {"model", "tools"} => \A k \in l.known : k[1] = request'[c].scope

Sound ==
    /\ \A c \in Calls : pc[c] # "new" => Entitled(c, pc[c], local[c])
    /\ \A w \in late : Entitled(w.call, w.at, w.local)

\* Rows stand until their conversation is deleted.
Persist ==
    /\ \A c \in DOMAIN request : c \in DOMAIN request' /\ request'[c] = request[c]
    /\ deleted \subseteq deleted'
    /\ \A v \in DOMAIN conversations :
          v \notin deleted' => v \in DOMAIN conversations' /\ conversations'[v] = conversations[v]
    /\ \A i \in DOMAIN messages :
          messages[i].conv \notin deleted' =>
             i \in DOMAIN messages' /\ messages'[i].by = messages[i].by /\ messages'[i].conv = messages[i].conv

\* So what a call relies on stands, too.
LEMMA EntitledKept ==
    ASSUME Ledger, Persist, NEW c \in DOMAIN request, NEW p, NEW l, Entitled(c, p, l)
    PROVE  EntitledThen(c, p, l)
<1>1. c \in DOMAIN request' /\ request'[c] = request[c]
    BY DEF Persist
<1>2. Id(c)' = Id(c) /\ Conv(c)' = Conv(c) /\ Text(c)' = Text(c)
    BY <1>1 DEF Id, Conv, Text
<1>3. Conv(c) \notin deleted' => Open(Conv(c))
    BY DEF Persist, Open
<1>4. ASSUME Conv(c) \notin deleted', Owns(c) PROVE Owns(c)'
    <2>1. messages[Id(c)].conv = Conv(c)
        BY <1>4 DEF Owns, Ledger, RowHolds
    <2> QED
        BY <1>2, <1>4, <2>1 DEF Owns, Persist
<1> QED
    BY <1>1, <1>2, <1>3, <1>4 DEF Entitled, EntitledThen, Persist

\* A deletion takes the messages of its conversation, and the attempts with them.
LEMMA DeleteKeeps ==
    ASSUME Base, Ledger, NEW v \in Conversations, DeleteConversation(v),
           deleted' = deleted \cup {v}, UNCHANGED request
    PROVE  Persist /\ Ledger'
<1> DEFINE gone == {i \in DOMAIN messages : messages[i].conv = v}
<1>1. /\ DOMAIN conversations' = DOMAIN conversations \ {v}
      /\ \A w \in DOMAIN conversations' : conversations'[w] = conversations[w]
      /\ DOMAIN messages' = DOMAIN messages \ gone
      /\ \A i \in DOMAIN messages' : messages'[i] = messages[i]
      /\ modelCalls' = {a \in modelCalls : a[1] \notin gone}
    BY DEF DeleteConversation, Drop, Restrict
<1>2. Persist
    BY <1>1 DEF Persist
<1>3. ASSUME NEW i \in DOMAIN messages' PROVE RowHolds(i)'
    <2>1. /\ RowHolds(i) /\ messages[i].conv # v
          /\ messages[i].conv \notin deleted' => Open(messages[i].conv)
        BY <1>1 DEF Ledger, Open
    <2>2. ASSUME Owns(messages[i].by) PROVE Owns(messages[i].by)'
        <3>1. RowHolds(Id(messages[i].by))
            BY <2>2 DEF Owns, Ledger
        <3> QED
            BY <1>1, <2>1, <2>2, <3>1 DEF Owns, RowHolds, Id, Conv
    <2> QED
        BY <1>1, <2>1, <2>2 DEF RowHolds, Id, Conv, Text, Open, Owns
<1>4. ASSUME NEW a \in modelCalls' PROVE AttemptHolds(a)'
    BY <1>1 DEF Ledger, AttemptHolds, Id, Text
<1>5. ASSUME NEW c \in Calls PROVE Accounted(c)'
    <2> SUFFICES ASSUME c \in DOMAIN messages', Conv(c) \notin deleted', Text(c).kind = "chat"
                 PROVE  \E a \in modelCalls' : a[2] = c
        BY DEF Accounted, Open, Conv, Text
    <2>1. RowHolds(c) /\ messages[c].role = "assistant"
        BY <1>1 DEF Ledger, Base
    <2>2. c \in DOMAIN request /\ Owns(c) /\ Conv(c) # v
        BY <2>1 DEF RowHolds, Open
    <2>3. RowHolds(Id(c))
        BY <2>2 DEF Ledger, Owns
    <2>4. Id(c) \notin gone
        BY <2>2, <2>3 DEF RowHolds, Owns
    <2>5. PICK a \in modelCalls : a[2] = c
        BY <1>1 DEF Ledger, Accounted, Open
    <2>6. a[1] = Id(c)
        BY <2>5 DEF Ledger, AttemptHolds
    <2> QED
        BY <1>1, <2>4, <2>5, <2>6
<1> QED
    BY <1>2, <1>3, <1>4, <1>5 DEF Ledger

\* A step that leaves the rows alone, a delivery included, keeps them.
LEMMA NothingWritten ==
    ASSUME Base, Ledger, UNCHANGED <<conversations, messages, modelCalls, deleted>>,
           \A c \in DOMAIN request : c \in DOMAIN request' /\ request'[c] = request[c]
    PROVE  Persist /\ Ledger'
<1>1. \A c \in DOMAIN request : Id(c)' = Id(c) /\ Conv(c)' = Conv(c) /\ Text(c)' = Text(c)
    BY DEF Id, Conv, Text
<1>2. Persist
    BY DEF Persist
<1>3. ASSUME NEW i \in DOMAIN messages' PROVE RowHolds(i)'
    <2>1. RowHolds(i)
        BY DEF Ledger
    <2> QED
        BY <1>1, <2>1 DEF RowHolds, Owns, Open, Id, Conv, Text
<1>4. ASSUME NEW a \in modelCalls' PROVE AttemptHolds(a)'
    BY <1>1 DEF Ledger, AttemptHolds
<1>5. ASSUME NEW c \in Calls PROVE Accounted(c)'
    <2>1. c \in DOMAIN messages => c \in DOMAIN request
        BY DEF Ledger, RowHolds, Base
    <2> QED
        BY <1>1, <2>1 DEF Ledger, Accounted, Open
<1> QED
    BY <1>2, <1>3, <1>4, <1>5 DEF Ledger

\* A write of a call, or of the thread it left behind, keeps them by what the
\* call may rely on.
LEMMA WriteKeeps ==
    ASSUME Base, Ledger, NEW c \in DOMAIN request, NEW p \in Writes, NEW l \in Gathered,
           Entitled(c, p, l), Write(c, p, l), UNCHANGED <<request, deleted>>
    PROVE  Persist /\ Ledger'
<1>1. /\ \A k : Id(k)' = Id(k) /\ Conv(k)' = Conv(k) /\ Text(k)' = Text(k)
      /\ \A v : Open(v)' <=> Open(v)
    BY DEF Id, Conv, Text, Open
<1>2. c \in Calls /\ Id(c) \in Ids /\ Id(c) \notin Calls /\ pc[c] # "new"
    BY DeliveredIs, MailIs DEF Base, TypeOK
<1>3. CASE p = "conversation"
    <2>1. ClaimConversation(c)
        BY <1>3 DEF Write
    <2>2. /\ UNCHANGED <<messages, modelCalls>>
          /\ \A v \in DOMAIN conversations : v \in DOMAIN conversations' /\ conversations'[v] = conversations[v]
        BY <2>1 DEF ClaimConversation, Put
    <2>3. Persist
        BY <2>2 DEF Persist
    <2>4. ASSUME NEW i \in DOMAIN messages' PROVE RowHolds(i)'
        <3>1. RowHolds(i)
            BY <2>2 DEF Ledger
        <3> QED
            BY <1>1, <2>2, <3>1 DEF RowHolds, Owns
    <2> QED
        BY <1>1, <2>2, <2>3, <2>4 DEF Ledger, AttemptHolds, Accounted
<1>4. CASE p = "message"
    <2>1. ClaimMessage(c, l)
        BY <1>4 DEF Write
    <2>2. CASE messages' = messages
        BY <2>1, <2>2, NothingWritten DEF ClaimMessage
    <2>3. CASE messages' # messages
        <3>1. /\ UNCHANGED <<conversations, modelCalls>> /\ Id(c) \notin DOMAIN messages
              /\ Conv(c) \in DOMAIN conversations
              /\ DOMAIN messages' = DOMAIN messages \cup {Id(c)}
              /\ messages'[Id(c)] = Row(c, "user", l)
              /\ \A i \in DOMAIN messages : messages'[i] = messages[i]
            BY <2>1, <2>3 DEF ClaimMessage, Put, Keyed
        <3>2. Persist
            BY <3>1 DEF Persist
        <3>3. ASSUME NEW i \in DOMAIN messages PROVE RowHolds(i)'
            <4>1. RowHolds(i)
                BY DEF Ledger
            <4> QED
                BY <1>1, <3>1, <4>1 DEF RowHolds, Owns
        <3>4. RowHolds(Id(c))'
            BY <1>1, <1>2, <1>4, <3>1 DEF RowHolds, Row, Entitled
        <3>5. ASSUME NEW k \in Calls PROVE Accounted(k)'
            BY <1>1, <1>2, <3>1 DEF Ledger, Accounted
        <3> QED
            BY <1>1, <3>1, <3>2, <3>3, <3>4, <3>5 DEF Ledger, AttemptHolds
    <2> QED
        BY <2>2, <2>3
<1>5. CASE p \in {"remember", "forget"}
    <2>1. UNCHANGED <<conversations, messages, modelCalls>>
        BY <1>5 DEF Write, SaveMemory, DeleteMemory
    <2> QED
        BY <2>1, NothingWritten
<1>6. CASE p = "save"
    <2>1. SaveAnswer(c, l)
        BY <1>6 DEF Write
    <2>2. CASE ~Keyed(c, {a[1] : a \in Attempts(c, l)})
        BY <2>1, <2>2, NothingWritten DEF SaveAnswer
    <2>3. CASE Keyed(c, {a[1] : a \in Attempts(c, l)})
        <3>1. /\ UNCHANGED conversations /\ Conv(c) \in DOMAIN conversations
              /\ DOMAIN messages' = DOMAIN messages \cup {c}
              /\ messages'[c] = Row(c, "assistant", l)
              /\ \A i \in DOMAIN messages : i # c => messages'[i] = messages[i]
              /\ modelCalls' = modelCalls \cup Attempts(c, l)
              /\ \A a \in Attempts(c, l) : a[1] \in DOMAIN messages
            BY <2>1, <2>3 DEF SaveAnswer, Put, Keyed
        <3>2. c \in DOMAIN messages => messages[c].by = c /\ messages[c].conv = Conv(c)
            BY <1>2 DEF Ledger, RowHolds, Base
        <3>3. Persist
            BY <3>1, <3>2 DEF Persist, Row
        <3>4. \A k \in DOMAIN request : Owns(k) => Owns(k)'
            BY <1>1, <1>2, <3>1, <3>2 DEF Owns, Row
        <3>5. ASSUME NEW i \in DOMAIN messages, i # c PROVE RowHolds(i)'
            <4>1. RowHolds(i)
                BY DEF Ledger
            <4> QED
                BY <1>1, <3>1, <3>4, <3>5, <4>1 DEF RowHolds
        <3>6. RowHolds(c)'
            BY <1>1, <1>2, <1>6, <3>1, <3>4 DEF RowHolds, Row, Entitled
        <3>7. ASSUME NEW a \in modelCalls' PROVE AttemptHolds(a)'
            <4>1. CASE a \in modelCalls
                BY <1>1, <3>1, <4>1 DEF Ledger, AttemptHolds
            <4>2. CASE a \in Attempts(c, l)
                <5>1. l.requests > 0 /\ a[1] = Id(c) /\ a[2] = c
                    BY <4>2 DEF Attempts, Gathered
                <5> QED
                    BY <1>1, <1>6, <3>1, <4>2, <5>1 DEF AttemptHolds, Entitled
            <4> QED
                BY <3>1, <4>1, <4>2
        <3>8. ASSUME NEW k \in Calls PROVE Accounted(k)'
            <4>1. CASE k # c
                BY <1>1, <3>1, <4>1 DEF Ledger, Accounted
            <4>2. CASE k = c
                <5>1. l.requests > 0 => <<Id(c), c, 1>> \in Attempts(c, l)
                    BY DEF Attempts, Gathered
                <5>2. l.requests > 0 => \E a \in Attempts(c, l) : a[2] = c
                    BY <5>1
                <5> QED
                    BY <1>1, <1>6, <3>1, <4>2, <5>2 DEF Accounted, Entitled
            <4> QED
                BY <4>1, <4>2
        <3> QED
            BY <3>1, <3>3, <3>5, <3>6, <3>7, <3>8 DEF Ledger
    <2> QED
        BY <2>2, <2>3
<1> QED
    BY <1>3, <1>4, <1>5, <1>6 DEF Writes

\* Who has returned relies on nothing.
LEMMA NothingOwed == ASSUME NEW c, NEW l PROVE EntitledThen(c, "done", l)
BY DEF EntitledThen

\* A step of calls that may rely on what they gathered.
LEMMA SoundStill ==
    ASSUME Base, Base', Ledger, Sound, Persist,
           \A k \in Calls : \/ pc'[k] = pc[k] /\ local'[k] = local[k]
                            \/ EntitledThen(k, pc'[k], local'[k]),
           \A w \in late' : w \in late \/ EntitledThen(w.call, w.at, w.local)
    PROVE  Sound'
<1>1. ASSUME NEW k \in Calls, pc'[k] # "new" PROVE Entitled(k, pc[k], local[k])'
    <2>1. CASE EntitledThen(k, pc'[k], local'[k])
        BY <2>1 DEF Entitled, EntitledThen, Open
    <2>2. CASE pc'[k] = pc[k] /\ local'[k] = local[k]
        <3>1. k \in DOMAIN request /\ Entitled(k, pc[k], local[k])
            BY <1>1, <2>2 DEF Sound, Base, TypeOK
        <3>2. EntitledThen(k, pc[k], local[k])
            BY <3>1, EntitledKept
        <3> QED
            BY <2>2, <3>2 DEF Entitled, EntitledThen, Open
    <2> QED
        BY <2>1, <2>2
<1>2. ASSUME NEW w \in late' PROVE Entitled(w.call, w.at, w.local)'
    <2>1. EntitledThen(w.call, w.at, w.local)
        <3>1. CASE w \in late
            <4>1. w.call \in DOMAIN request /\ Entitled(w.call, w.at, w.local)
                BY <3>1 DEF Sound, Base, TypeOK
            <4> QED
                BY <4>1, EntitledKept
        <3>2. CASE w \notin late
            BY <3>2
        <3> QED
            BY <3>1, <3>2
    <2> QED
        BY <2>1 DEF Entitled, EntitledThen, Open
<1> QED
    BY <1>1, <1>2 DEF Sound

\* Steps of a call keep the rows, and what calls rely on.
LEMMA StepSound ==
    ASSUME Base, Base', Ledger, Sound, NEW c \in Calls, Step(c)
    PROVE  Persist /\ Ledger' /\ Sound'
<1> USE DEF At, Same, history, tables
<1>1. /\ pc \in [Calls -> Places] /\ local \in [Calls -> Gathered]
      /\ pc[c] \notin {"new", "done"} /\ UNCHANGED <<request, late, deleted>>
    BY DEF Base, TypeOK, Step, Enter, Claim, CheckDuplicate, Replay, UseMemory, RespondLocally,
           ReadHistory, Ask, ModelAnswers, ModelAsksForTools, CallTool, ModelRaises, Save, Responds
<1>2. /\ c \in DOMAIN request /\ Entitled(c, pc[c], local[c]) /\ Text(c).kind \in Kinds
      /\ Id(c)' = Id(c) /\ Conv(c)' = Conv(c) /\ Text(c)' = Text(c) /\ request' = request
    BY <1>1, DeliveredIs DEF Base, TypeOK, Sound, Id, Conv, Text
<1>3. ASSUME UNCHANGED tables
      PROVE  Persist /\ Ledger' /\ EntitledThen(c, pc[c], local[c])
    BY <1>1, <1>2, <1>3, NothingWritten, EntitledKept
<1>4. ASSUME NEW p \in Writes, pc[c] = p, Write(c, p, local[c])
      PROVE  Persist /\ Ledger' /\ EntitledThen(c, p, local[c])
    BY <1>1, <1>2, <1>4, WriteKeeps, EntitledKept
<1>5. ASSUME Persist, \A k \in Calls \ {c} : pc'[k] = pc[k] /\ local'[k] = local[k],
             EntitledThen(c, pc'[c], local'[c])
      PROVE  Sound'
    BY <1>1, <1>5, SoundStill
<1>6. ASSUME NEW what, Persist, Returns(c, what) PROVE Sound'
    BY <1>1, <1>5, <1>6, NothingOwed DEF Returns
<1>7. ASSUME NEW to, NEW l, Persist, Gathers(c, to, l), EntitledThen(c, to, l) PROVE Sound'
    BY <1>1, <1>5, <1>7 DEF Gathers
<1>8. CASE Enter(c)
    <2>1. Persist /\ Ledger'
        BY <1>4, <1>8 DEF Enter, Write, Writes
    <2>2. ASSUME InScope(c) PROVE EntitledThen(c, "message", local[c])
        <3>1. Conv(c) \in DOMAIN conversations'
            BY <1>8 DEF Enter, ClaimConversation, Put
        <3> QED
            BY <1>2, <2>2, <3>1 DEF EntitledThen, InScope
    <2> QED
        BY <1>6, <1>7, <1>8, <2>1, <2>2 DEF Enter, Goes
<1>9. CASE Claim(c)
    <2>1. Persist /\ Ledger' /\ EntitledThen(c, "message", local[c])
        BY <1>4, <1>9 DEF Claim, Write, Writes
    <2>2. EntitledThen(c, "duplicate", local[c])
        BY <2>1 DEF EntitledThen
    <2>3. ASSUME Fresh(c), Keyed(c, {}) PROVE EntitledThen(c, AfterClaim(c), local[c])
        <3>1. Id(c) \in DOMAIN messages' /\ messages'[Id(c)].by = c
            BY <1>9, <2>3 DEF Claim, ClaimMessage, Fresh, Put, Row
        <3>2. \/ AfterClaim(c) = Text(c).kind /\ Text(c).kind \in {"remember", "forget"}
              \/ AfterClaim(c) = "respond" /\ Text(c).kind = "blank"
              \/ AfterClaim(c) = "recent" /\ Text(c).kind = "chat"
            BY <1>2 DEF AfterClaim, Kinds
        <3> QED
            BY <1>2, <2>1, <3>1, <3>2 DEF EntitledThen, Owns
    <2> QED
        BY <1>6, <1>7, <1>9, <2>1, <2>2, <2>3 DEF Claim, Goes
<1>10. CASE CheckDuplicate(c)
    <2>1. Persist /\ Ledger' /\ EntitledThen(c, "duplicate", local[c])
        BY <1>3, <1>10 DEF CheckDuplicate
    <2>2. EntitledThen(c, "replay", local[c])
        BY <2>1 DEF EntitledThen
    <2> QED
        BY <1>6, <1>7, <1>10, <2>1, <2>2 DEF CheckDuplicate, Goes
<1>11. CASE Replay(c)
    BY <1>3, <1>6, <1>11 DEF Replay
<1>12. CASE UseMemory(c)
    <2>1. Persist /\ Ledger' /\ EntitledThen(c, pc[c], local[c])
        BY <1>4, <1>12 DEF UseMemory, Writes
    <2>2. EntitledThen(c, "respond", local[c])
        BY <1>12, <2>1 DEF EntitledThen, UseMemory
    <2> QED
        BY <1>7, <1>12, <2>1, <2>2 DEF UseMemory, Goes
<1>13. ASSUME NEW status, NEW n \in Nat, Responds(c, status, n),
              pc[c] \in {"respond", "model"}, n > 0 <=> pc[c] = "model"
       PROVE  Persist /\ Ledger' /\ Sound'
    <2> DEFINE l == [Blank EXCEPT !.since = clock, !.requests = n, !.status = status]
    <2>1. Persist /\ Ledger' /\ EntitledThen(c, pc[c], local[c])
        BY <1>3, <1>13 DEF Responds
    <2>2. l.requests = n
        BY DEF Blank
    <2>3. EntitledThen(c, "save", l)
        BY <1>13, <2>1, <2>2 DEF EntitledThen
    <2> QED
        BY <1>7, <1>13, <2>1, <2>3 DEF Responds
<1>14. CASE RespondLocally(c)
    BY <1>13, <1>14 DEF RespondLocally
<1>15. CASE ReadHistory(c)
    <2> DEFINE l == [local[c] EXCEPT !.shown = Recent(Conv(c))]
    <2>1. Persist /\ Ledger' /\ EntitledThen(c, "recent", local[c])
        BY <1>3, <1>15 DEF ReadHistory
    <2>2. l.shown = Recent(Conv(c))
        BY <1>1 DEF Gathered
    <2>3. EntitledThen(c, "memories", l)
        BY <1>2, <1>15, <2>1, <2>2 DEF EntitledThen, ReadHistory, Recent
    <2> QED
        BY <1>7, <1>15, <2>1, <2>3 DEF ReadHistory
<1>16. CASE Ask(c)
    <2> DEFINE l == [local[c] EXCEPT !.known = {k \in DOMAIN memories : k[1] = request[c].scope}]
    <2>1. Persist /\ Ledger' /\ EntitledThen(c, "memories", local[c])
        BY <1>3, <1>16 DEF Ask
    <2>2. l.shown = local[c].shown /\ l.known = {k \in DOMAIN memories : k[1] = request[c].scope}
        BY <1>1 DEF Gathered
    <2>3. EntitledThen(c, "model", l)
        BY <1>2, <2>1, <2>2 DEF EntitledThen
    <2> QED
        BY <1>7, <1>16, <2>1, <2>3 DEF Ask
<1>17. CASE ModelAnswers(c)
    <2>1. local[c].requests + 1 \in Nat /\ local[c].requests + 1 > 0
        BY <1>1, BoundsAssumption DEF Gathered
    <2> QED
        BY <1>13, <1>17, <2>1 DEF ModelAnswers
<1>18. CASE ModelAsksForTools(c)
    <2>1. Persist /\ Ledger' /\ EntitledThen(c, "model", local[c])
        BY <1>3, <1>18 DEF ModelAsksForTools
    <2> PICK n \in 1..MaxToolCalls :
               Gathers(c, "tools", [local[c] EXCEPT !.requests = @ + 1, !.left = n])
        BY <1>18 DEF ModelAsksForTools
    <2> DEFINE l == [local[c] EXCEPT !.requests = @ + 1, !.left = n]
    <2>2. l.shown = local[c].shown /\ l.known = local[c].known
        BY <1>1 DEF Gathered
    <2>3. EntitledThen(c, "tools", l)
        BY <2>1, <2>2 DEF EntitledThen
    <2> QED
        BY <1>7, <2>1, <2>3
<1>19. CASE CallTool(c)
    <2> DEFINE l == [local[c] EXCEPT !.called = @ + 1, !.left = @ - 1]
    <2>1. Persist /\ Ledger' /\ EntitledThen(c, "tools", local[c])
        BY <1>3, <1>19 DEF CallTool
    <2>2. l.shown = local[c].shown /\ l.known = local[c].known
        BY <1>1 DEF Gathered
    <2>3. EntitledThen(c, "tools", l) /\ EntitledThen(c, "model", l)
        BY <2>1, <2>2 DEF EntitledThen
    <2> QED
        BY <1>7, <1>19, <2>1, <2>3 DEF CallTool
<1>20. CASE ModelRaises(c)
    BY <1>3, <1>6, <1>20 DEF ModelRaises
<1>21. CASE Save(c)
    <2>1. Persist /\ Ledger'
        BY <1>4, <1>21 DEF Save, Write, Writes
    <2> QED
        BY <1>6, <1>21, <2>1 DEF Save
<1> QED
    BY <1>8, <1>9, <1>10, <1>11, <1>12, <1>14, <1>15, <1>16, <1>17, <1>18, <1>19, <1>20, <1>21
    DEF Step

\* So does everything else that happens.
LEMMA SoundStep ==
    Base /\ Ledger /\ Sound /\ [Next]_vars => Persist /\ Ledger' /\ Sound'
<1> SUFFICES ASSUME Base, Ledger, Sound, [Next]_vars
             PROVE  Persist /\ Ledger' /\ Sound'
    OBVIOUS
<1> USE DEF history, tables
<1>1. Base' /\ pc \in [Calls -> Places] /\ local \in [Calls -> Gathered]
    BY BaseStep DEF Base, TypeOK
<1>2. CASE \E c \in Calls : Step(c)
    BY <1>1, <1>2, StepSound
<1>3. CASE \E c \in Calls : Cancel(c)
    <2> PICK c \in Calls : Cancel(c)
        BY <1>3
    <2>1. Persist /\ Ledger'
        BY NothingWritten DEF Cancel
    <2>2. EntitledThen(c, pc[c], local[c])
        BY <2>1, EntitledKept DEF Cancel, Sound, Base, TypeOK
    <2>3. \A w \in late' : w \in late \/ EntitledThen(w.call, w.at, w.local)
        BY <2>2 DEF Cancel
    <2>4. \A k \in Calls : \/ pc'[k] = pc[k] /\ local'[k] = local[k]
                          \/ EntitledThen(k, pc'[k], local'[k])
        BY <1>1, NothingOwed DEF Cancel, Returns
    <2> QED
        BY <1>1, <2>1, <2>3, <2>4, SoundStill
<1>4. CASE \E c \in Calls, r \in Requests : Deliver(c, r)
    <2> PICK c \in Calls, r \in Requests : Deliver(c, r)
        BY <1>4
    <2>1. c \notin DOMAIN request
        BY DEF Deliver, Base, TypeOK
    <2>2. \A k \in DOMAIN request : k \in DOMAIN request' /\ request'[k] = request[k]
        BY <2>1 DEF Deliver, Put
    <2>3. Persist /\ Ledger'
        BY <2>2, NothingWritten DEF Deliver
    <2>4. \A k \in Calls : \/ pc'[k] = pc[k] /\ local'[k] = local[k]
                          \/ EntitledThen(k, pc'[k], local'[k])
        BY <1>1 DEF Deliver, EntitledThen
    <2> QED
        BY <1>1, <2>3, <2>4, SoundStill DEF Deliver
<1>5. CASE \E w \in late : LateWrite(w)
    <2> PICK w \in late : LateWrite(w)
        BY <1>5
    <2>1. w.call \in DOMAIN request /\ w.at \in Writes /\ w.local \in Gathered
        BY DEF Base, TypeOK
    <2>2. Persist /\ Ledger'
        BY <2>1, WriteKeeps DEF LateWrite, Sound
    <2> QED
        BY <1>1, <2>2, SoundStill DEF LateWrite
<1>6. CASE \E v \in Conversations : Delete(v)
    <2> PICK v \in Conversations : Delete(v)
        BY <1>6
    <2>1. Persist /\ Ledger'
        BY DeleteKeeps DEF Delete
    <2> QED
        BY <1>1, <2>1, SoundStill DEF Delete
<1>7. CASE \E k \in DOMAIN memories : RemoveMemory(k)
    <2>1. Persist /\ Ledger'
        BY <1>7, NothingWritten DEF RemoveMemory, DeleteMemory
    <2> QED
        BY <1>1, <1>7, <2>1, SoundStill DEF RemoveMemory
<1>8. CASE Crash
    <2>1. Persist /\ Ledger'
        BY <1>8, NothingWritten DEF Crash
    <2>2. \A k \in Calls : \/ pc'[k] = pc[k] /\ local'[k] = local[k]
                          \/ EntitledThen(k, pc'[k], local'[k])
        BY <1>8 DEF Crash, EntitledThen
    <2> QED
        BY <1>1, <1>8, <2>1, <2>2, SoundStill DEF Crash
<1>9. CASE UNCHANGED vars
    <2>1. Persist /\ Ledger'
        BY <1>9, NothingWritten DEF vars
    <2> QED
        BY <1>1, <1>9, <2>1, SoundStill DEF vars
<1> QED
    BY <1>2, <1>3, <1>4, <1>5, <1>6, <1>7, <1>8, <1>9 DEF Next

\* There are no rows yet, and no calls to rely on any.
LEMMA SoundInit == Init => Ledger /\ Sound
BY DEF Init, Empty, Ledger, Accounted, Sound

-----------------------------------------------------------------------------
(* What a message sets off                                                 *)

Turning == {"model", "tools", "save", "done"}

\* A turn is that of the call that claimed the message, which is past asking;
\* the tools called for the message are those this call counts.
Turned(i) ==
    /\ turns[i] <= 1 /\ tools[i] <= MaxToolCalls
    /\ turns[i] > 0 \/ tools[i] > 0 => i \in DOMAIN messages /\ pc[messages[i].by] \in Turning
    /\ i \in DOMAIN messages /\ pc[messages[i].by] \in {"model", "tools"}
         => tools[i] = local[messages[i].by].called

TurnsHold == deleted = {} => \A i \in Ids : Turned(i)

\* A question is the message of the call that claimed it.
LEMMA AskerIs ==
    ASSUME Base, Ledger, NEW i \in Ids \cap DOMAIN messages
    PROVE  messages[i].by \in Calls /\ messages[i].by \in DOMAIN request /\ i = Id(messages[i].by)
<1>1. messages[i].by \in Calls /\ messages[i].role # "assistant"
    BY MailIs DEF Base, TypeOK, Rows, Range
<1> QED
    BY <1>1 DEF Ledger, RowHolds

\* The same after a step.
LEMMA AskerIsThen ==
    ASSUME Base', Ledger', NEW i \in Ids, i \in DOMAIN messages'
    PROVE  messages'[i].by \in Calls /\ i = request'[messages'[i].by].id
<1>1. messages'[i].by \in Calls /\ messages'[i].role # "assistant"
    BY MailIs DEF Base, TypeOK, Rows, Range
<1> QED
    BY <1>1 DEF Ledger, RowHolds, Id

\* A step in which the asker of a message asks no model and calls no tool.
LEMMA TurnedStill ==
    ASSUME Base, Base', Ledger, Ledger', Sound, Persist, deleted' = {}, NEW i \in Ids, Turned(i),
           turns'[i] = turns[i], tools'[i] = tools[i],
           \A k \in Calls : /\ pc[k] \in Turning => pc'[k] \in Turning
                            /\ pc'[k] \in {"model", "tools"} /\ Id(k)' = i =>
                                  pc[k] \in {"model", "tools"} /\ local'[k].called = local[k].called
    PROVE  Turned(i)'
<1>1. deleted = {}
    BY DEF Persist
<1>2. i \in DOMAIN messages =>
          i \in DOMAIN messages' /\ messages'[i].by = messages[i].by /\ messages[i].by \in Calls
    BY <1>1, AskerIs DEF Persist
<1>3. turns'[i] > 0 \/ tools'[i] > 0 => i \in DOMAIN messages' /\ pc'[messages'[i].by] \in Turning
    BY <1>2 DEF Turned
<1>4. ASSUME i \in DOMAIN messages', pc'[messages'[i].by] \in {"model", "tools"}
      PROVE  tools'[i] = local'[messages'[i].by].called
    <2> PICK k : k = messages'[i].by
        OBVIOUS
    <2>1. k \in Calls /\ Id(k)' = i
        BY <1>4, AskerIsThen DEF Id
    <2>2. pc[k] \in {"model", "tools"} /\ local'[k].called = local[k].called
        BY <1>4, <2>1
    <2>3. k \in DOMAIN request /\ Owns(k)
        BY <1>1, <2>1, <2>2 DEF Sound, Entitled, Open, Base, TypeOK
    <2>4. Id(k) = i
        BY <2>1, <2>3 DEF Persist, Id
    <2> QED
        BY <2>2, <2>3, <2>4 DEF Turned, Owns
<1> QED
    BY <1>3, <1>4 DEF Turned

\* No step begins a second turn for a message or calls a tool beyond the limit.
LEMMA TurnsStep ==
    Base /\ Ledger /\ Sound /\ TurnsHold /\ [Next]_vars => TurnsHold'
<1> SUFFICES ASSUME Base, Ledger, Sound, TurnsHold, [Next]_vars, deleted' = {}, NEW i \in Ids
             PROVE  Turned(i)'
    BY DEF TurnsHold
<1>1. /\ Base' /\ Ledger' /\ Persist /\ deleted = {} /\ Turned(i)
      /\ pc \in [Calls -> Places] /\ local \in [Calls -> Gathered]
      /\ turns \in [Ids -> Nat] /\ tools \in [Ids -> Nat]
    BY BaseStep, SoundStep DEF Persist, Base, TypeOK, TurnsHold
<1>2. ASSUME turns'[i] = turns[i], tools'[i] = tools[i],
             \A k \in Calls : /\ pc[k] \in Turning => pc'[k] \in Turning
                              /\ pc'[k] \in {"model", "tools"} /\ Id(k)' = i =>
                                    pc[k] \in {"model", "tools"} /\ local'[k].called = local[k].called
      PROVE  Turned(i)'
    BY <1>1, <1>2, TurnedStill
<1> USE DEF Turning
<1>3. CASE \E c \in Calls : Step(c)
    <2> PICK c \in Calls : Step(c)
        BY <1>3
    <2> USE DEF At, Same, history, tables
    <2>1. ASSUME NEW to \in Turning, NEW l, Gathers(c, to, l), UNCHANGED <<turns, tools>>,
                 to \in {"model", "tools"} => pc[c] \in {"model", "tools"} /\ l.called = local[c].called
          PROVE  Turned(i)'
        BY <1>1, <1>2, <2>1 DEF Gathers
    <2>2. ASSUME NEW to \in Places, NEW l, Gathers(c, to, l), UNCHANGED <<turns, tools>>,
                 pc[c] \notin Turning, to \notin {"model", "tools"}
          PROVE  Turned(i)'
        BY <1>1, <1>2, <2>2 DEF Gathers
    <2>3. ASSUME NEW what, Returns(c, what), UNCHANGED <<turns, tools>> PROVE Turned(i)'
        BY <1>1, <1>2, <2>3 DEF Returns
    <2>4. CASE Enter(c)
        BY <2>2, <2>3, <2>4 DEF Enter, Goes, Places, Writes
    <2>5. CASE Claim(c)
        <3>1. AfterClaim(c) \in Places /\ AfterClaim(c) \notin {"model", "tools"}
            BY DEF AfterClaim, Places, Writes
        <3> QED
            BY <2>2, <2>3, <2>5, <3>1 DEF Claim, Goes, Places
    <2>6. CASE CheckDuplicate(c)
        BY <2>2, <2>3, <2>6 DEF CheckDuplicate, Goes, Places
    <2>7. CASE Replay(c)
        BY <2>3, <2>7 DEF Replay
    <2>8. CASE UseMemory(c)
        BY <2>2, <2>8 DEF UseMemory, Goes, Places
    <2>9. CASE RespondLocally(c)
        BY <2>1, <2>9 DEF RespondLocally, Responds
    <2>10. CASE ReadHistory(c)
        BY <2>2, <2>10 DEF ReadHistory, Places
    <2>11. CASE Ask(c)
        <3> DEFINE l == [local[c] EXCEPT !.known = {k \in DOMAIN memories : k[1] = request[c].scope}]
        <3>1. /\ pc' = [pc EXCEPT ![c] = "model"] /\ local' = [local EXCEPT ![c] = l]
              /\ turns' = [turns EXCEPT ![Id(c)] = @ + 1] /\ UNCHANGED <<tools, messages, request>>
            BY <2>11 DEF Ask, Gathers
        <3>2. l.called = local[c].called /\ local[c].called = 0
            BY <1>1, <2>11 DEF Gathered, Ask, Base, Within
        <3>3. pc[c] = "memories" /\ Owns(c) /\ Id(c) \in Ids
            BY <1>1, <2>11, DeliveredIs DEF Ask, Sound, Entitled, Open, Base
        <3>4. CASE Id(c) = i
            <4>1. turns[i] = 0 /\ tools[i] = 0
                BY <1>1, <3>3, <3>4 DEF Owns, Turned
            <4>2. turns'[i] = 1 /\ tools'[i] = 0 /\ pc'[c] = "model" /\ local'[c].called = 0
                BY <1>1, <3>1, <3>2, <3>4, <4>1
            <4>3. i \in DOMAIN messages' /\ messages'[i].by = c
                BY <3>1, <3>3, <3>4 DEF Owns
            <4> QED
                BY <4>2, <4>3, BoundsAssumption DEF Turned
        <3>5. CASE Id(c) # i
            <4>1. turns'[i] = turns[i] /\ tools'[i] = tools[i] /\ Id(c)' # i
                BY <1>1, <3>1, <3>5 DEF Id
            <4> QED
                BY <1>1, <1>2, <3>1, <3>3, <4>1
        <3> QED
            BY <3>4, <3>5
    <2>12. CASE ModelAnswers(c)
        BY <2>1, <2>12 DEF ModelAnswers, Responds
    <2>13. CASE ModelAsksForTools(c)
        <3> PICK n \in 1..MaxToolCalls :
                   Gathers(c, "tools", [local[c] EXCEPT !.requests = @ + 1, !.left = n])
            BY <2>13 DEF ModelAsksForTools
        <3>1. [local[c] EXCEPT !.requests = @ + 1, !.left = n].called = local[c].called
            BY <1>1 DEF Gathered
        <3> QED
            BY <2>1, <2>13, <3>1 DEF ModelAsksForTools
    <2>14. CASE CallTool(c)
        <3> DEFINE l == [local[c] EXCEPT !.called = @ + 1, !.left = @ - 1]
        <3>1. /\ pc'[c] \in {"model", "tools"} /\ \A k \in Calls \ {c} : pc'[k] = pc[k]
              /\ local' = [local EXCEPT ![c] = l]
              /\ tools' = [tools EXCEPT ![Id(c)] = @ + 1] /\ UNCHANGED <<turns, messages, request>>
            BY <1>1, <2>14 DEF CallTool, Gathers
        <3>2. l.called = local[c].called + 1 /\ local[c].called + 1 <= MaxToolCalls
            BY <1>1, <2>14, BoundsAssumption DEF Gathered, CallTool, Base, Within
        <3>3. pc[c] = "tools" /\ Owns(c) /\ Id(c) \in Ids
            BY <1>1, <2>14, DeliveredIs DEF CallTool, Sound, Entitled, Open, Base
        <3>4. CASE Id(c) = i
            <4>1. tools[i] = local[c].called /\ turns[i] <= 1
                BY <1>1, <3>3, <3>4 DEF Owns, Turned
            <4>2. tools'[i] = l.called /\ turns'[i] = turns[i] /\ local'[c] = l
                BY <1>1, <3>1, <3>2, <3>4, <4>1
            <4>3. i \in DOMAIN messages' /\ messages'[i].by = c
                BY <3>1, <3>3, <3>4 DEF Owns
            <4> QED
                BY <3>1, <3>2, <4>1, <4>2, <4>3 DEF Turned
        <3>5. CASE Id(c) # i
            <4>1. turns'[i] = turns[i] /\ tools'[i] = tools[i] /\ Id(c)' # i
                BY <1>1, <3>1, <3>5 DEF Id
            <4> QED
                BY <1>1, <1>2, <3>1, <3>3, <4>1
        <3> QED
            BY <3>4, <3>5
    <2>15. CASE ModelRaises(c)
        BY <2>3, <2>15 DEF ModelRaises
    <2>16. CASE Save(c)
        BY <2>3, <2>16 DEF Save
    <2> QED
        BY <2>4, <2>5, <2>6, <2>7, <2>8, <2>9, <2>10, <2>11, <2>12, <2>13, <2>14, <2>15, <2>16 DEF Step
<1>4. CASE \E c \in Calls : Cancel(c)
    BY <1>1, <1>2, <1>4 DEF Cancel, Returns, history
<1>5. CASE \E c \in Calls, r \in Requests : Deliver(c, r)
    BY <1>1, <1>2, <1>5 DEF Deliver, history
<1>6. CASE \E w \in late : LateWrite(w)
    BY <1>1, <1>2, <1>6 DEF LateWrite, history
<1>7. CASE \E v \in Conversations : Delete(v)
    BY <1>7 DEF Delete
<1>8. CASE \E k \in DOMAIN memories : RemoveMemory(k)
    BY <1>1, <1>2, <1>8 DEF RemoveMemory, history
<1>9. CASE Crash
    BY <1>1, <1>2, <1>9 DEF Crash, history
<1>10. CASE UNCHANGED vars
    BY <1>1, <1>2, <1>10 DEF vars, history
<1> QED
    BY <1>3, <1>4, <1>5, <1>6, <1>7, <1>8, <1>9, <1>10 DEF Next

\* Nobody has been asked anything yet.
LEMMA TurnsInit == Init => TurnsHold
BY BoundsAssumption DEF Init, Empty, TurnsHold, Turned

-----------------------------------------------------------------------------
(* What a delivery is told                                                 *)

\* Who was given an answer was given one to its message, in its conversation.
Told(c) ==
    given[c] \in Calls => /\ pc[c] = "done"
                          /\ Open(Conv(c)) => /\ given[c] \in DOMAIN messages
                                              /\ messages[given[c]].by = given[c]
                                              /\ messages[given[c]].conv = Conv(c)
                                              /\ request[given[c]].id = Id(c)

AllTold == \A c \in Calls : Told(c)

\* An answer that stands is what it was.
LEMMA ToldStill ==
    ASSUME Base, Ledger, Persist, NEW c \in Calls, Told(c), given'[c] = given[c],
           pc[c] = "done" => pc'[c] = "done"
    PROVE  Told(c)'
<1> SUFFICES ASSUME given[c] \in Calls PROVE Told(c)'
    BY DEF Told
<1>1. c \in DOMAIN request /\ Conv(c)' = Conv(c) /\ Id(c)' = Id(c)
    BY DEF Told, Base, TypeOK, Persist, Conv, Id
<1>2. ASSUME Conv(c) \notin deleted'
      PROVE  /\ given[c] \in DOMAIN messages' /\ messages'[given[c]].by = given[c]
             /\ messages'[given[c]].conv = Conv(c) /\ request'[given[c]].id = Id(c)
    <2>1. Open(Conv(c))
        BY <1>2 DEF Persist, Open
    <2>2. /\ given[c] \in DOMAIN messages /\ messages[given[c]].by = given[c]
          /\ messages[given[c]].conv = Conv(c) /\ request[given[c]].id = Id(c)
        BY <2>1 DEF Told
    <2>3. given[c] \in DOMAIN request
        BY <2>2 DEF Ledger, RowHolds
    <2> QED
        BY <1>2, <2>2, <2>3 DEF Persist
<1> QED
    BY <1>1, <1>2 DEF Told, Open

\* An answer that was looked up or stored is one to the message.
LEMMA ToldStep ==
    Base /\ Ledger /\ Sound /\ AllTold /\ [Next]_vars => AllTold'
<1> SUFFICES ASSUME Base, Ledger, Sound, AllTold, [Next]_vars, NEW k \in Calls PROVE Told(k)'
    BY DEF AllTold
<1>1. /\ Base' /\ Ledger' /\ Persist /\ Told(k)
      /\ pc \in [Calls -> Places] /\ given \in [Calls -> Calls \cup {"nothing", "conflict"}]
    BY BaseStep, SoundStep DEF Base, TypeOK, AllTold
<1>2. ASSUME given'[k] = given[k], pc[k] = "done" => pc'[k] = "done" PROVE Told(k)'
    BY <1>1, <1>2, ToldStill
<1>3. ASSUME given'[k] \notin Calls PROVE Told(k)'
    BY <1>3 DEF Told
<1>4. ASSUME NEW c \in Calls, NEW what, Returns(c, what), k # c PROVE Told(k)'
    BY <1>1, <1>2, <1>4 DEF Returns
<1>5. ASSUME NEW what \in {"nothing", "conflict"}, Returns(k, what) PROVE Told(k)'
    BY <1>1, <1>3, <1>5, MailIs DEF Returns
<1>6. CASE \E c \in Calls : Step(c)
    <2> PICK c \in Calls : Step(c)
        BY <1>6
    <2> USE DEF At, Same
    <2>1. ASSUME NEW to, NEW l, Gathers(c, to, l), pc[c] # "done" PROVE Told(k)'
        BY <1>1, <1>2, <2>1 DEF Gathers
    <2>2. ASSUME NEW what \in {"nothing", "conflict"}, Returns(c, what) PROVE Told(k)'
        BY <1>4, <1>5, <2>2
    <2>3. CASE Enter(c)
        BY <2>1, <2>2, <2>3 DEF Enter, Goes
    <2>4. CASE Claim(c)
        BY <2>1, <2>2, <2>4 DEF Claim, Goes
    <2>5. CASE CheckDuplicate(c)
        BY <2>1, <2>2, <2>5 DEF CheckDuplicate, Goes
    <2>6. CASE Replay(c)
        <3>1. ASSUME NEW j \in Latest(Answers(Id(c))), messages[j].conv = Conv(c), Returns(c, j)
              PROVE  Told(k)'
            <4>1. CASE k # c
                BY <1>4, <3>1, <4>1
            <4>2. CASE k = c
                <5>1. j \in DOMAIN messages /\ messages[j].role = "assistant" /\ messages[j].to = Id(c)
                    BY DEF Latest, Answers
                <5>2. j \in Calls /\ messages[j].by = j /\ Id(j) = Id(c)
                    BY <5>1 DEF Base, Ledger, RowHolds
                <5>3. given'[k] = j /\ pc'[k] = "done" /\ messages' = messages /\ request' = request
                    BY <1>1, <2>6, <3>1, <4>2 DEF Replay, Returns, tables
                <5> QED
                    BY <3>1, <4>2, <5>1, <5>2, <5>3 DEF Told, Conv, Id
            <4> QED
                BY <4>1, <4>2
        <3> QED
            BY <2>2, <2>6, <3>1 DEF Replay
    <2>7. CASE UseMemory(c)
        BY <2>1, <2>7 DEF UseMemory, Goes
    <2>8. CASE RespondLocally(c)
        BY <2>1, <2>8 DEF RespondLocally, Responds
    <2>9. CASE ReadHistory(c)
        BY <2>1, <2>9 DEF ReadHistory
    <2>10. CASE Ask(c)
        BY <2>1, <2>10 DEF Ask
    <2>11. CASE ModelAnswers(c)
        BY <2>1, <2>11 DEF ModelAnswers, Responds
    <2>12. CASE ModelAsksForTools(c)
        BY <2>1, <2>12 DEF ModelAsksForTools
    <2>13. CASE CallTool(c)
        BY <2>1, <2>13 DEF CallTool
    <2>14. CASE ModelRaises(c)
        BY <2>2, <2>14 DEF ModelRaises
    <2>15. CASE Save(c)
        <3>1. ASSUME c \in DOMAIN messages', Returns(c, c) PROVE Told(k)'
            <4>1. CASE k # c
                BY <1>4, <3>1, <4>1
            <4>2. CASE k = c
                <5>1. messages'[c].role = "assistant"
                    BY <1>1, <3>1 DEF Base
                <5>2. RowHolds(c)'
                    BY <1>1, <3>1 DEF Ledger
                <5>3. messages'[c].by = c /\ messages'[c].conv = Conv(c)'
                    BY <5>1, <5>2 DEF RowHolds, Conv
                <5>4. given'[k] = c /\ pc'[k] = "done"
                    BY <1>1, <3>1, <4>2 DEF Returns
                <5> QED
                    BY <3>1, <4>2, <5>3, <5>4 DEF Told, Conv, Id
            <4> QED
                BY <4>1, <4>2
        <3> QED
            BY <2>2, <2>15, <3>1 DEF Save
    <2> QED
        BY <2>3, <2>4, <2>5, <2>6, <2>7, <2>8, <2>9, <2>10, <2>11, <2>12, <2>13, <2>14, <2>15 DEF Step
<1>7. CASE \E c \in Calls : Cancel(c)
    BY <1>4, <1>5, <1>7 DEF Cancel
<1>8. CASE \E c \in Calls, r \in Requests : Deliver(c, r)
    BY <1>1, <1>2, <1>8 DEF Deliver
<1>9. CASE \E w \in late : LateWrite(w)
    BY <1>2, <1>9 DEF LateWrite
<1>10. CASE \E v \in Conversations : Delete(v)
    BY <1>2, <1>10 DEF Delete
<1>11. CASE \E v \in DOMAIN memories : RemoveMemory(v)
    BY <1>2, <1>11 DEF RemoveMemory
<1>12. CASE Crash
    BY <1>2, <1>12 DEF Crash
<1>13. CASE UNCHANGED vars
    BY <1>2, <1>13 DEF vars
<1> QED
    BY <1>6, <1>7, <1>8, <1>9, <1>10, <1>11, <1>12, <1>13 DEF Next

\* Nobody has been told anything yet.
LEMMA ToldInit == Init => AllTold
BY MailIs DEF Init, AllTold, Told

-----------------------------------------------------------------------------
(* The theorems                                                            *)

IInv == Base /\ Ledger /\ Sound /\ TurnsHold /\ AllTold

\* The inductive invariant of the chat.
LEMMA ChatInductive == Spec => []IInv
<1>1. Init => IInv
    BY BaseInit, SoundInit, TurnsInit, ToldInit DEF IInv
<1>2. IInv /\ [Next]_vars => IInv'
    BY BaseStep, SoundStep, TurnsStep, ToldStep DEF IInv
<1> QED
    BY <1>1, <1>2, PTL DEF Spec

\* No row without those it depends on, nor an answer of the model without the
\* record of its attempts: save_model_results() and the foreign keys of the
\* tables of conversations, messages and model calls.
THEOREM TablesTheorem == Spec => []TablesHold
<1>1. ASSUME Base, Ledger PROVE TablesHold
    <2>1. NothingOrphaned
        BY <1>1 DEF NothingOrphaned, Ledger, RowHolds, AttemptHolds
    <2>2. ASSUME NEW c \in Calls, c \in DOMAIN messages, Open(Conv(c))
          PROVE  messages[c].text.kind = "chat" <=> \E a \in modelCalls : a[2] = c
        <3>1. messages[c].role = "assistant" /\ RowHolds(c)
            BY <1>1, <2>2 DEF Base, Ledger
        <3>2. messages[c].text = Text(c)
            BY <3>1 DEF RowHolds
        <3> QED
            BY <1>1, <2>2, <3>2 DEF Ledger, Accounted, AttemptHolds
    <2> QED
        BY <1>1, <2>1, <2>2 DEF TablesHold, AnswersAreAccounted, Base, Open
<1> QED
    BY <1>1, ChatInductive, PTL DEF IInv

\* Nobody waits behind a call that is over: SessionRegistry.run() lets the next
\* one in however the one before it ended.
THEOREM QueueTheorem == Spec => []NobodyStuck
<1>1. IInv => NobodyStuck
    BY DEF IInv, Base
<1> QED
    BY <1>1, ChatInductive, PTL

\* A conversation that was never deleted holds its owner's messages only, and
\* the model is shown no others: claim_conversation() before anything else.
THEOREM OwnersTheorem == Spec => []OwnersOnly
<1>1. ASSUME Base, Ledger, Sound PROVE OwnersOnly
    <2>1. ASSUME NEW i \in DOMAIN messages, Open(messages[i].conv)
          PROVE  messages[i].scope = conversations[messages[i].conv]
        BY <1>1, <2>1 DEF Ledger, RowHolds
    <2>2. ASSUME NEW c \in Calls, pc[c] = "model" PROVE Entitled(c, "model", local[c])
        BY <1>1, <2>2 DEF Sound
    <2>3. ASSUME NEW c \in Calls, pc[c] = "model", NEW i \in local[c].shown \cap DOMAIN messages,
                 Open(Conv(c))
          PROVE  messages[i].conv = Conv(c) /\ messages[i].scope = request[c].scope
        BY <2>1, <2>2, <2>3 DEF Entitled
    <2>4. ASSUME NEW c \in Calls, pc[c] = "model", NEW k \in local[c].known
          PROVE  k[1] = request[c].scope
        BY <2>2, <2>4 DEF Entitled
    <2> QED
        BY <2>1, <2>3, <2>4 DEF OwnersOnly, Open
<1> QED
    BY <1>1, ChatInductive, PTL DEF IInv

\* However often a message is delivered, the model is asked once, calls no more
\* tools than a turn may, and one answer is stored: process() and claim_message().
THEOREM OnceTheorem == Spec => []AnsweredOnce
<1>1. ASSUME Base, Ledger, TurnsHold PROVE AnsweredOnce
    <2>1. AskedOnce /\ ToolsBounded
        BY <1>1 DEF AskedOnce, ToolsBounded, TurnsHold, Turned
    <2>2. ASSUME NEW j \in DOMAIN messages, messages[j].role = "assistant", Open(messages[j].conv)
          PROVE  LET i == messages[j].to
                 IN  i \in DOMAIN messages /\ messages[i].role = "user" /\ messages[i].by = j
        <3>1. RowHolds(j) /\ messages[j].by = j /\ messages[j].to = Id(j) /\ Owns(j)
            BY <1>1, <2>2 DEF Ledger, RowHolds
        <3>2. messages[j].to \in Ids
            BY <1>1 DEF Base, TypeOK, Rows, Range
        <3>3. messages[Id(j)].role \in {"user", "assistant"}
            BY <1>1, <3>1 DEF Base, TypeOK, Rows, Range, Owns
        <3> QED
            BY <1>1, <3>1, <3>2, <3>3, MailIs DEF Owns, Base
    <2> QED
        BY <2>1, <2>2 DEF AnsweredOnce, OneAnswer, Open
<1> QED
    BY <1>1, ChatInductive, PTL DEF IInv

\* Deliveries of one message that are answered are told the same answer, in the
\* same conversation: _replay_response() finds what the first one stored.
THEOREM RepliesTheorem == Spec => []RepliesAgree
<1>1. ASSUME Base, Ledger, AllTold PROVE RepliesAgree
    <2>1. ASSUME NEW c \in Calls, given[c] \in Calls, Open(Conv(c))
          PROVE  /\ messages[given[c]].conv = Conv(c)
                 /\ messages[Id(c)].by = given[c]
        <3>1. /\ given[c] \in DOMAIN messages /\ messages[given[c]].by = given[c]
              /\ messages[given[c]].conv = Conv(c) /\ Id(given[c]) = Id(c)
            BY <1>1, <2>1 DEF AllTold, Told, Id
        <3>2. messages[given[c]].role = "assistant" /\ RowHolds(given[c])
            BY <1>1, <2>1, <3>1 DEF Base, Ledger
        <3> QED
            BY <2>1, <3>1, <3>2 DEF RowHolds, Owns
    <2> QED
        BY <2>1 DEF RepliesAgree, Open
<1> QED
    BY <1>1, ChatInductive, PTL DEF IInv
=============================================================================
