------------------------ MODULE OneBotChannelProofs -------------------------
(***************************************************************************)
(* Theorems about OneBotChannel, for every set of messages and sockets,    *)
(* and every number of deliveries, slots, claims, chunks and crashes.      *)
(***************************************************************************)
EXTENDS OneBotChannel, FiniteSetTheorems, SequenceTheorems, WellFoundedInduction, TLAPS

-----------------------------------------------------------------------------
(* Sequences an element is taken out of                                    *)

\* A set of numbers has a least one.
LEMMA LeastNumber ==
    ASSUME NEW S \in SUBSET Nat, S # {}
    PROVE  \E m \in S : \A n \in S : m <= n
<1> DEFINE Less == {ss \in Nat \X Nat : ss[1] < ss[2]}
<1>1. IsWellFoundedOn(Less, Nat)
    BY NatLessThanWellFounded, Zenon DEF OpToRel
<1>2. PICK m \in S : \A n \in S : <<n, m>> \notin Less
    <2> HIDE DEF Less
    <2> QED
        BY <1>1, WFMin
<1>3. ASSUME NEW n \in S PROVE m <= n
    <2>1. <<n, m>> \notin Less /\ <<n, m>> \in Nat \X Nat
        BY <1>2
    <2> QED
        BY <2>1
<1> QED
    BY <1>3

In(s, x) == \E i \in 1..Len(s) : s[i] = x
Distinct(s) == \A i, j \in 1..Len(s) : s[i] = s[j] => i = j

\* What is taken out of a sequence of distinct elements is gone, and nothing else.
LEMMA RemovedIs ==
    ASSUME NEW S, NEW s \in Seq(S), NEW e
    PROVE  LET r == RemoveFirst(s, e) IN
           /\ r \in Seq(S) /\ Len(r) <= Len(s)
           /\ \A x : x # e => (In(r, x) <=> In(s, x))
           /\ Distinct(s) => Distinct(r) /\ ~In(r, e)
<1>1. CASE ~In(s, e)
    BY <1>1 DEF RemoveFirst, In
<1>2. CASE In(s, e)
    <2> DEFINE I == {i \in 1..Len(s) : s[i] = e}
               k == Min(I)
               r == RemoveFirst(s, e)
    <2>1. \E m \in I : \A n \in I : m <= n
        <3>1. I \in SUBSET Nat /\ I # {}
            BY <1>2 DEF In
        <3> QED
            BY <3>1, LeastNumber, Zenon
    <2>2. k \in I
        BY <2>1 DEF Min
    <2>3. r = SubSeq(s, 1, k-1) \o SubSeq(s, k+1, Len(s))
        BY <1>2 DEF RemoveFirst, RemoveAt, SelectInSeq, In
    <2>4. k \in 1..Len(s) /\ s[k] = e /\ Len(s) \in Nat
        BY <2>2
    <2> HIDE DEF k, r, I
    <2>5. /\ SubSeq(s, 1, k-1) \in Seq(S) /\ Len(SubSeq(s, 1, k-1)) = k-1
          /\ \A i \in 1..k-1 : SubSeq(s, 1, k-1)[i] = s[i]
        BY <2>4, SubSeqProperties
    <2>6. /\ SubSeq(s, k+1, Len(s)) \in Seq(S) /\ Len(SubSeq(s, k+1, Len(s))) = Len(s) - k
          /\ \A i \in 1..Len(s)-k : SubSeq(s, k+1, Len(s))[i] = s[k+i]
        BY <2>4, SubSeqProperties
    <2>7. /\ r \in Seq(S) /\ Len(r) = Len(s) - 1
          /\ \A i \in 1..Len(r) : r[i] = IF i < k THEN s[i] ELSE s[i+1]
        <3> DEFINE a == SubSeq(s, 1, k-1)
                   b == SubSeq(s, k+1, Len(s))
        <3> HIDE DEF a, b
        <3>1. /\ a \in Seq(S) /\ Len(a) = k-1 /\ \A i \in 1..k-1 : a[i] = s[i]
              /\ b \in Seq(S) /\ Len(b) = Len(s) - k /\ \A i \in 1..Len(s)-k : b[i] = s[k+i]
              /\ r = a \o b
            BY <2>3, <2>5, <2>6 DEF a, b
        <3>2. /\ r \in Seq(S) /\ Len(r) = Len(a) + Len(b)
              /\ \A i \in 1..Len(a) + Len(b) : r[i] = IF i <= Len(a) THEN a[i] ELSE b[i - Len(a)]
            BY <3>1, ConcatProperties
        <3>3. ASSUME NEW i \in 1..Len(s)-1, i >= k PROVE r[i] = s[i+1]
            <4>1. i - (k-1) \in 1..Len(s)-k /\ b[i - (k-1)] = s[k + (i - (k-1))]
                BY <2>4, <3>1, <3>3
            <4>2. k + (i - (k-1)) = i + 1
                BY <2>4
            <4> QED
                BY <2>4, <3>1, <3>2, <3>3, <4>1, <4>2
        <3>4. ASSUME NEW i \in 1..Len(s)-1, i < k PROVE r[i] = s[i]
            BY <2>4, <3>1, <3>2, <3>4
        <3>5. Len(r) = Len(s) - 1
            BY <2>4, <3>1, <3>2
        <3> QED
            BY <2>4, <3>2, <3>3, <3>4, <3>5
    <2>8. ASSUME NEW x, x # e, In(s, x) PROVE In(r, x)
        <3> PICK i \in 1..Len(s) : s[i] = x
            BY <2>8 DEF In
        <3>1. i # k
            BY <2>4, <2>8
        <3>2. CASE i < k
            BY <2>4, <2>7, <3>2 DEF In
        <3>3. CASE i > k
            <4>1. i - 1 \in 1..Len(r) /\ r[i-1] = x
                BY <2>4, <2>7, <3>3
            <4> QED
                BY <4>1 DEF In
        <3> QED
            BY <2>4, <3>1, <3>2, <3>3
    <2>9. ASSUME NEW x, In(r, x) PROVE In(s, x)
        <3> PICK i \in 1..Len(r) : r[i] = x
            BY <2>9 DEF In
        <3>1. i \in 1..Len(s) /\ i+1 \in 1..Len(s)
            BY <2>4, <2>7
        <3> QED
            BY <2>7, <3>1 DEF In
    <2>10. ASSUME Distinct(s) PROVE Distinct(r) /\ ~In(r, e)
        <3>1. Distinct(r)
            BY <2>4, <2>7, <2>10 DEF Distinct
        <3>2. ~In(r, e)
            BY <2>4, <2>7, <2>10 DEF Distinct, In
        <3> QED
            BY <3>1, <3>2
    <2> QED
        BY <2>7, <2>8, <2>9, <2>10, <2>4 DEF r
<1> QED
    BY <1>1, <1>2

-----------------------------------------------------------------------------
(* Tasks and their moves                                                   *)

Stages == {"started", "checking", "queued", "entering", "asking"}
Handlers == [at : Stages, event : Events, from : Sockets]
Senders == [at : Sending, event : Events, from : Sockets, via : Sockets, chunk : 1 .. MaxChunks,
            of : 1 .. MaxChunks, future : {"open", "ok", "bad", "lost"}]
Records == [at : {"unborn", "done"}] \cup Handlers \cup Senders

\* The types, those of the tasks by their stage.
Types ==
    /\ task \in [Tasks -> Records]
    /\ \A t \in Tasks : task[t].at \in Sending => task[t].chunk <= task[t].of
    /\ doomed \subseteq Alive
    /\ claims \in Seq(Events) /\ Len(claims) <= MaxClaims
    /\ queue \in Seq(Tasks) /\ slots \in Nat
    /\ sock \in [Sockets -> {"new", "open", "closing", "gone"}]
    /\ current \in Sockets \cup {NoSocket} /\ pending \subseteq Echoes
    /\ frames \subseteq [echo : Echoes, on : Sockets]
    /\ row \in [Events -> {"none", "asked", "answered"}] /\ late \subseteq Events

\* Who queues is queued, once.
Queues == /\ \A i \in 1..Len(queue) : task[queue[i]].at = "queued"
          /\ Distinct(queue)

\* What a task may do in a step: nothing, end, begin, go on to the next stage,
\* register an action, and go on with the one it has registered.
Course == {<<"started", "checking">>, <<"checking", "queued">>, <<"checking", "entering">>,
           <<"queued", "entering">>, <<"entering", "asking">>}
Advances(u) ==
    /\ task[u] \in Handlers /\ task'[u] \in Handlers
    /\ task'[u].event = task[u].event /\ task'[u].from = task[u].from
    /\ <<task[u].at, task'[u].at>> \in Course
    /\ task[u].at = "checking" => row[task[u].event] = "none"
Registers(u) ==
    /\ task[u].at \in {"entering", "asking", "awaiting"} /\ task'[u] \in Senders
    /\ task'[u].event = task[u].event /\ task'[u].from = task[u].from
    /\ task'[u].at = "sending" /\ task'[u].chunk <= task'[u].of
    /\ task[u].at # "awaiting" => row'[task[u].event] # "none"
GoesOn(u) ==
    /\ task[u] \in Senders /\ task'[u] \in Senders
    /\ task'[u].event = task[u].event /\ task'[u].from = task[u].from
    /\ task'[u].chunk = task[u].chunk /\ task'[u].of = task[u].of /\ task'[u].via = task[u].via
    /\ task'[u].at = task[u].at \/ task'[u].at = "awaiting"
    /\ task'[u].future = task[u].future \/ task'[u].future # "open"
Move(u) ==
    \/ task'[u] = task[u]
    \/ task'[u] = Done /\ u \notin doomed'
    \/ task[u].at = "unborn" /\ task'[u] \in Handlers /\ task'[u].at = "started"
    \/ Advances(u) \/ Registers(u) \/ GoesOn(u)

\* The stage says what a task is.
LEMMA RecordIs ==
    ASSUME Types, NEW t \in Tasks
    PROVE  /\ task[t].at \in {"unborn", "done"} \cup Stages \cup Sending
           /\ task[t].at \in Stages => task[t] \in Handlers
           /\ task[t].at \in Sending => task[t] \in Senders
           /\ t \in Alive => task[t].event \in Events /\ task[t].from \in Sockets
<1>1. task[t] \in Records
    BY DEF Types
<1>2. CASE task[t] \in [at : {"unborn", "done"}]
    BY <1>2 DEF Stages, Sending, Alive
<1>3. CASE task[t] \in Handlers
    BY <1>3 DEF Handlers, Stages, Sending, Alive
<1>4. CASE task[t] \in Senders
    BY <1>4 DEF Senders, Stages, Sending, Alive
<1> QED
    BY <1>1, <1>2, <1>3, <1>4 DEF Records

\* A released slot lets the first of the queue in and leaves everybody else.
LEMMA ReleaseIs ==
    ASSUME Types, Queues, NEW t \in Tasks, NEW tk, NEW r, ReleaseSlot(tk, queue),
           task[t].at \in Holding, tk = [task EXCEPT ![t] = r]
    PROVE  /\ task' = [u \in Tasks |-> task'[u]]
           /\ task'[t] = r
           /\ \A u \in Tasks \ {t} : task'[u] = task[u] \/ (Advances(u) /\ task[u].at = "queued")
<1>1. CASE queue = <<>>
    BY <1>1 DEF ReleaseSlot, Types
<1>2. CASE queue # <<>>
    <2>1. Head(queue) = queue[1] /\ queue[1] \in Tasks /\ 1 \in 1..Len(queue)
        BY <1>2 DEF Types
    <2>2. task[Head(queue)].at = "queued"
        BY <2>1 DEF Queues
    <2>3. task[Head(queue)] \in Handlers /\ Head(queue) # t
        BY <2>1, <2>2, RecordIs DEF Stages, Holding
    <2>4. task' = [tk EXCEPT ![Head(queue)] = Hold(@)]
        BY <1>2 DEF ReleaseSlot
    <2>5. /\ task' \in [Tasks -> {task'[u] : u \in Tasks}]
          /\ task'[t] = r
          /\ task'[Head(queue)] = Hold(task[Head(queue)])
          /\ \A u \in Tasks \ {t, Head(queue)} : task'[u] = task[u]
        BY <2>1, <2>3, <2>4 DEF Types
    <2>6. Advances(Head(queue))
        BY <2>2, <2>3, <2>5 DEF Advances, Hold, Handlers, Course, Stages
    <2> QED
        BY <2>2, <2>5, <2>6
<1> QED
    BY <1>1, <1>2

\* The actions that fail change nothing but their futures.
LEMMA FailIs ==
    ASSUME Types, NEW tk, NEW ps, NEW s, Detach(s, tk, ps), NEW t \in Tasks, tk[t] = task[t],
           tk = [u \in Tasks |-> tk[u]]
    PROVE  task' = [u \in Tasks |-> task'[u]] /\ (task'[t] = task[t] \/ GoesOn(t))
<1>1. CASE task' = tk
    BY <1>1
<1>2. CASE task' = Fail(tk, ps)
    <2>1. CASE task[t].at \in Sending
        BY <1>2, <2>1, RecordIs DEF Fail, GoesOn, Senders, Sending
    <2>2. CASE task[t].at \notin Sending
        BY <1>2, <2>2 DEF Fail
    <2> QED
        BY <1>2, <2>1, <2>2 DEF Fail
<1> QED
    BY <1>1, <1>2 DEF Detach

\* The bounds are numbers.
LEMMA BoundsAre ==
    /\ MaxDeliveries \in Nat \ {0} /\ MaxConcurrency \in Nat \ {0}
    /\ MaxClaims \in Nat \ {0} /\ MaxChunks \in Nat \ {0} /\ NoSocket \notin Sockets
BY OneBotAssumption

AllMove == task' = [u \in Tasks |-> task'[u]] /\ \A u \in Tasks : Move(u)

\* One task moves.
LEMMA OneMoves ==
    ASSUME Types, NEW t \in Tasks, NEW r, task' = [task EXCEPT ![t] = r], Move(t)
    PROVE  AllMove
BY DEF Types, AllMove, Move

\* A reply releases the slot and registers its first chunk, or ends the task.
LEMMA ReplyMoves ==
    ASSUME Types, Queues, NEW t \in Tasks, NEW n \in 0 .. MaxChunks, Reply(t, n),
           task[t].at \in Holding, row'[task[t].event] # "none", t \notin doomed'
    PROVE  AllMove
<1> DEFINE r == IF n = 0 \/ current = NoSocket THEN Done
                ELSE [at |-> "sending", event |-> task[t].event, from |-> task[t].from,
                      via |-> current, chunk |-> 1, of |-> n, future |-> "open"]
<1>1. ReleaseSlot([task EXCEPT ![t] = r], queue)
    BY DEF Reply, Registered, End
<1>2. /\ task' = [u \in Tasks |-> task'[u]] /\ task'[t] = r
      /\ \A u \in Tasks \ {t} : task'[u] = task[u] \/ Advances(u)
    <2> HIDE DEF r
    <2> QED
        BY <1>1, ReleaseIs
<1>3. Move(t)
    <2>1. CASE n = 0 \/ current = NoSocket
        BY <1>2, <2>1 DEF Move
    <2>2. CASE ~(n = 0 \/ current = NoSocket)
        <3>1. /\ n \in 1 .. MaxChunks /\ 1 \in 1 .. MaxChunks /\ current \in Sockets
              /\ task[t].event \in Events /\ task[t].from \in Sockets
            <4>1. t \in Alive
                BY DEF Alive, Holding
            <4>2. n \in 1 .. MaxChunks /\ 1 \in 1 .. MaxChunks
                BY <2>2, BoundsAre
            <4>3. current \in Sockets
                BY <2>2 DEF Types
            <4> QED
                BY <4>1, <4>2, <4>3, RecordIs
        <3>2. r \in Senders /\ r.event = task[t].event /\ r.from = task[t].from /\ r.at = "sending"
              /\ r.chunk <= r.of
            BY <2>2, <3>1 DEF Senders, Sending
        <3>3. Registers(t)
            <4> HIDE DEF r
            <4> QED
                BY <1>2, <3>2 DEF Registers, Holding
        <3> QED
            BY <3>3 DEF Move
    <2> QED
        BY <2>1, <2>2
<1> QED
    BY <1>2, <1>3 DEF AllMove, Move

\* A task that ends releases its slot.
LEMMA EndReleases ==
    ASSUME Types, Queues, NEW t \in Tasks, ReleaseSlot(End(t), queue), task[t].at \in Holding,
           t \notin doomed'
    PROVE  AllMove
BY ReleaseIs DEF End, AllMove, Move

\* A task that fails in detaching its socket ends, and others learn of it.
LEMMA DetachMoves ==
    ASSUME Types, NEW tk, NEW ps, NEW s, Detach(s, tk, ps), NEW t \in Tasks,
           tk = task \/ tk = End(t), tk # task => task[t].at \in Sending /\ t \notin doomed'
    PROVE  AllMove
<1>1. /\ tk = [u \in Tasks |-> tk[u]]
      /\ \A u \in Tasks : tk[u] = task[u] \/ (tk[u] = Done /\ u \notin doomed')
    <2>1. CASE tk = task
        BY <2>1 DEF Types
    <2>2. CASE tk = End(t)
        BY <2>2 DEF Types, End
    <2> QED
        BY <2>1, <2>2
<1>2. task' = [u \in Tasks |-> task'[u]]
    BY <1>1 DEF Detach, Fail
<1>3. ASSUME NEW u \in Tasks PROVE Move(u)
    <2>1. CASE tk[u] = task[u]
        BY <1>1, <2>1, FailIs DEF Move
    <2>2. CASE tk[u] = Done /\ u \notin doomed'
        <3>1. task'[u] = tk[u]
            BY <1>1, <2>2 DEF Detach, Fail, Done, Sending
        <3> QED
            BY <2>2, <3>1 DEF Move
    <2> QED
        BY <1>1, <2>1, <2>2
<1> QED
    BY <1>2, <1>3 DEF AllMove

\* Steps of a task are moves.
LEMMA TaskMoves ==
    ASSUME Types, Queues, NEW t \in Tasks, TaskStep(t)
    PROVE  AllMove
<1>1. t \in Alive => task[t].event \in Events /\ task[t].from \in Sockets
    BY RecordIs
<1>2. ASSUME NEW from, NEW to, Runs(t, from), task' = [task EXCEPT ![t].at = to],
             <<from, to>> \in Course, from = "checking" => row[task[t].event] = "none"
      PROVE  AllMove
    <2> DEFINE r == [task[t] EXCEPT !.at = to]
    <2>1. task' = [task EXCEPT ![t] = r] /\ task[t].at = from
        BY <1>2 DEF Runs
    <2>2. task'[t] = r /\ from \in Stages /\ to \in Stages
        BY <1>2, <2>1 DEF Types, Course, Stages
    <2>3. task[t] \in Handlers
        BY <2>1, <2>2, RecordIs
    <2>4. Advances(t)
        BY <1>2, <2>1, <2>2, <2>3 DEF Advances, Handlers
    <2> QED
        BY <2>1, <2>4, OneMoves DEF Move
<1>3. ASSUME task' = End(t), t \notin doomed' PROVE AllMove
    <2>1. task'[t] = Done
        BY <1>3 DEF End, Types
    <2> QED
        BY <1>3, <2>1, OneMoves DEF End, Move
<1>4. CASE Begin(t)
    BY <1>2, <1>3, <1>4 DEF Begin, Course, Runs
<1>5. CASE CheckFails(t) \/ Dropped(t)
    BY <1>3, <1>5 DEF CheckFails, Dropped, Ends, Runs
<1>6. CASE Admit(t)
    <2>1. row[task[t].event] = "none"
        BY <1>6 DEF Admit, HasSeen
    <2> QED
        BY <1>2, <1>6, <2>1 DEF Admit, Course, Hold
<1>7. CASE Ask(t)
    BY <1>2, <1>7 DEF Ask, Course
<1>8. CASE Replay(t)
    <2> PICK n \in (IF row[task[t].event] = "answered" THEN 0 .. MaxChunks ELSE {1}) : Reply(t, n)
        BY <1>8 DEF Replay
    <2>1. n \in 0 .. MaxChunks
        BY BoundsAre
    <2> QED
        BY <1>8, <2>1, ReplyMoves DEF Replay, Runs, Holding
<1>9. CASE Answered(t)
    <2> PICK n \in 0 .. MaxChunks : Reply(t, n)
        BY <1>9 DEF Answered
    <2>1. row'[task[t].event] = "answered"
        BY <1>1, <1>9 DEF Answered, Types, Runs
    <2> QED
        BY <1>9, <2>1, ReplyMoves DEF Answered, Runs, Holding
<1>10. CASE ProcessFails(t)
    BY <1>10, EndReleases DEF ProcessFails, Runs, Holding
<1>11. CASE Sent(t)
    <2>1. task'[t] = [task[t] EXCEPT !.at = "awaiting"] /\ task[t].at = "sending"
        BY <1>11 DEF Sent, Types, Runs
    <2>2. task[t] \in Senders
        BY <2>1, RecordIs DEF Sending
    <2>3. GoesOn(t)
        BY <2>1, <2>2 DEF GoesOn, Senders, Sending
    <2> QED
        BY <1>11, <2>3, OneMoves DEF Sent, Move
<1>12. CASE SendFails(t)
    BY <1>12, DetachMoves DEF SendFails, Runs, Sending
<1>13. CASE Resume(t)
    <2> DEFINE k == task[t].chunk + 1
               n == task[t].of
    <2>1. task[t] \in Senders /\ task[t].at = "awaiting"
        BY <1>13, RecordIs DEF Resume, Runs, Sending
    <2>2. CASE task[t].future = "ok" /\ k <= n /\ current # NoSocket
        <3> DEFINE r == [at |-> "sending", event |-> task[t].event, from |-> task[t].from,
                         via |-> current, chunk |-> k, of |-> n, future |-> "open"]
        <3>1. task' = [task EXCEPT ![t] = r] /\ task'[t] = r
            BY <1>13, <2>2 DEF Resume, Registered, Types
        <3>2. k \in 1 .. MaxChunks /\ n \in 1 .. MaxChunks /\ current \in Sockets
            BY <2>1, <2>2, BoundsAre DEF Senders, Types
        <3>3. Registers(t)
            BY <2>1, <2>2, <3>1, <3>2 DEF Registers, Senders, Sending
        <3> QED
            BY <3>1, <3>3, OneMoves DEF Move
    <2>3. CASE ~(task[t].future = "ok" /\ k <= n /\ current # NoSocket)
        BY <1>3, <1>13, <2>3 DEF Resume, Registered, End, Runs
    <2> QED
        BY <2>2, <2>3
<1>14. CASE TimeOut(t)
    BY <1>3, <1>14 DEF TimeOut, Runs
<1>15. CASE Cancelled(t)
    BY <1>3, <1>15, EndReleases DEF Cancelled
<1> QED
    BY <1>4, <1>5, <1>6, <1>7, <1>8, <1>9, <1>10, <1>11, <1>12, <1>13, <1>14, <1>15
    DEF TaskStep, Runs1, Runs2, Runs3

\* So is what happens to the tasks otherwise.
LEMMA Moves == Types /\ Queues /\ [Next]_vars => AllMove
<1> SUFFICES ASSUME Types, Queues, [Next]_vars PROVE AllMove
    OBVIOUS
<1>1. ASSUME task' = task PROVE AllMove
    BY <1>1 DEF AllMove, Move, Types
<1>2. 1 \in Tasks
    BY BoundsAre DEF Tasks
<1>3. CASE \E s \in Sockets : Attach(s) \/ Gathered(s)
    BY <1>1, <1>3 DEF Attach, Gathered
<1>4. CASE \E s \in Sockets : HangUp(s) \/ Close(s)
    BY <1>2, <1>4, DetachMoves DEF HangUp, Close
<1>5. CASE \E s \in Sockets, e \in Events : Deliver(s, e)
    <2> PICK s \in Sockets, e \in Events, t \in Tasks :
               /\ task[t].at = "unborn"
               /\ task' = [task EXCEPT ![t] = [at |-> "started", event |-> e, from |-> s]]
        BY <1>5 DEF Deliver
    <2>1. task'[t] = [at |-> "started", event |-> e, from |-> s]
        BY DEF Types
    <2>2. Move(t)
        BY <2>1 DEF Move, Handlers, Stages
    <2> QED
        BY <2>2, OneMoves
<1>6. CASE \E f \in frames, ok \in BOOLEAN : Answer(f, ok)
    <2> PICK f \in frames, ok \in BOOLEAN : Answer(f, ok)
        BY <1>6
    <2> DEFINE t == f.echo[1]
    <2>1. t \in Tasks
        BY DEF Types, Echoes
    <2>2. CASE f.echo \in pending /\ task[t].future = "open"
        <3> DEFINE r == [task[t] EXCEPT !.future = IF ok THEN "ok" ELSE "bad"]
        <3>1. task' = [task EXCEPT ![t] = r] /\ task'[t] = r
            BY <2>1, <2>2 DEF Answer, Types
        <3>2. CASE task[t] \in Senders
            <4>1. GoesOn(t)
                BY <3>1, <3>2 DEF GoesOn, Senders
            <4> QED
                BY <2>1, <3>1, <4>1, OneMoves DEF Move
        <3>3. CASE task[t] \notin Senders
            <4>1. r = task[t]
                BY <2>1, <3>3 DEF Types, Records, Handlers
            <4> QED
                BY <2>1, <3>1, <4>1, OneMoves DEF Move
        <3> QED
            BY <3>2, <3>3
    <2>3. CASE ~(f.echo \in pending /\ task[t].future = "open")
        BY <1>1, <2>3 DEF Answer
    <2> QED
        BY <2>2, <2>3
<1>7. CASE \E t \in Tasks : TaskStep(t)
    BY <1>7, TaskMoves
<1>8. CASE (\E e \in Events : LateRow(e)) \/ Expire
    BY <1>1, <1>8 DEF LateRow, Expire
<1>9. CASE Crash
    BY <1>9 DEF Crash, AllMove, Move
<1>10. CASE UNCHANGED vars
    BY <1>1, <1>10 DEF vars, volatile
<1> QED
    BY <1>3, <1>4, <1>5, <1>6, <1>7, <1>8, <1>9, <1>10 DEF Next

\* Moves keep the types of the tasks, and no cancelled task ends but by itself.
LEMMA MovesKeep ==
    ASSUME Types, AllMove, doomed' \subseteq Alive
    PROVE  /\ task' \in [Tasks -> Records] /\ doomed' \subseteq Alive'
           /\ \A t \in Tasks : task'[t].at \in Sending => task'[t].chunk <= task'[t].of
<1>1. ASSUME NEW t \in Tasks
      PROVE  /\ task'[t] \in Records
             /\ task'[t].at \in Sending => task'[t].chunk <= task'[t].of
             /\ t \in doomed' => task'[t].at \notin {"unborn", "done"}
    <2>1. /\ task[t] \in Records /\ (task[t].at \in Sending => task[t].chunk <= task[t].of)
          /\ t \in doomed' => task[t].at \notin {"unborn", "done"}
        BY DEF Types, Alive
    <2>2. CASE task'[t] = task[t]
        BY <2>1, <2>2
    <2>3. CASE task'[t] = Done /\ t \notin doomed'
        BY <2>3 DEF Done, Records, Sending
    <2>4. CASE task[t].at = "unborn" /\ task'[t] \in Handlers /\ task'[t].at = "started"
        BY <2>4 DEF Records, Sending
    <2>5. CASE Advances(t)
        BY <2>5 DEF Advances, Records, Sending, Handlers, Stages
    <2>6. CASE Registers(t)
        BY <2>6 DEF Registers, Records, Sending
    <2>7. CASE GoesOn(t)
        BY <2>1, <2>7 DEF GoesOn, Records, Senders, Sending
    <2> QED
        BY <2>2, <2>3, <2>4, <2>5, <2>6, <2>7 DEF AllMove, Move
<1> QED
    BY <1>1 DEF AllMove, Alive

\* What is kept beside the tasks.
Rest ==
    /\ claims \in Seq(Events) /\ Len(claims) <= MaxClaims
    /\ queue \in Seq(Tasks) /\ slots \in Nat
    /\ sock \in [Sockets -> {"new", "open", "closing", "gone"}]
    /\ current \in Sockets \cup {NoSocket} /\ pending \subseteq Echoes
    /\ frames \subseteq [echo : Echoes, on : Sockets]
    /\ row \in [Events -> {"none", "asked", "answered"}] /\ late \subseteq Events

\* A released slot is free or goes to the first of the queue.
LEMMA ReleaseRest ==
    ASSUME Rest, NEW tk, ReleaseSlot(tk, queue)
    PROVE  queue' \in Seq(Tasks) /\ slots' \in Nat
BY DEF Rest, ReleaseSlot

\* An action in hand is one of its task's chunks.
LEMMA RegisterRest ==
    ASSUME Rest, NEW t \in Tasks, NEW k \in 1 .. MaxChunks, NEW ps, ps \subseteq pending
    PROVE  NowPending(ps, t, k) \subseteq Echoes
BY DEF Rest, NowPending, Echoes

\* The steps of a task keep the types of the rest.
LEMMA TaskRest ==
    ASSUME Types, Rest, NEW t \in Tasks, TaskStep(t)
    PROVE  Rest' /\ doomed' \subseteq doomed
<1> USE DEF Rest
<1>1. t \in Alive => task[t].event \in Events /\ task[t].from \in Sockets
    BY RecordIs
<1>2. ASSUME NEW n \in 0 .. MaxChunks, Reply(t, n)
      PROVE  queue' \in Seq(Tasks) /\ slots' \in Nat /\ pending' \subseteq Echoes
    <2>1. queue' \in Seq(Tasks) /\ slots' \in Nat
        BY <1>2, ReleaseRest DEF Reply
    <2>2. NowPending(pending, t, 1) \subseteq Echoes
        BY BoundsAre, RegisterRest
    <2> QED
        BY <1>2, <2>1, <2>2 DEF Reply
<1>3. CASE Begin(t)
    <2>1. ASSUME NEW e \in Events
          PROVE  /\ Append(claims, e) \in Seq(Events) /\ Len(Append(claims, e)) = Len(claims) + 1
                 /\ Tail(Append(claims, e)) \in Seq(Events) /\ Len(Tail(Append(claims, e))) = Len(claims)
        BY AppendProperties, HeadTailProperties
    <2>2. claims' \in Seq(Events) /\ Len(claims') <= MaxClaims
        <3> DEFINE e == task[t].event
                   longer == Append(claims, e)
        <3>1. e \in Events
            BY <1>1, <1>3 DEF Begin, Runs
        <3>2. claims' = claims \/ claims' = (IF Len(longer) > MaxClaims THEN Tail(longer) ELSE longer)
            BY <1>3 DEF Begin
        <3>3. /\ longer \in Seq(Events) /\ Len(longer) = Len(claims) + 1
              /\ Tail(longer) \in Seq(Events) /\ Len(Tail(longer)) = Len(claims)
            BY <2>1, <3>1
        <3> HIDE DEF longer
        <3>4. CASE claims' = claims
            BY <3>4
        <3>5. CASE claims' = (IF Len(longer) > MaxClaims THEN Tail(longer) ELSE longer)
            <4>1. CASE Len(longer) > MaxClaims
                BY <3>3, <3>5, <4>1
            <4>2. CASE ~(Len(longer) > MaxClaims)
                BY <3>3, <3>5, <4>2, BoundsAre
            <4> QED
                BY <4>1, <4>2
        <3> QED
            BY <3>2, <3>4, <3>5
    <2> QED
        BY <1>3, <2>2 DEF Begin
<1>4. CASE CheckFails(t)
    <2>1. claims' \in Seq(Events) /\ Len(claims') <= Len(claims)
        BY <1>4, RemovedIs DEF CheckFails, Unclaim
    <2> QED
        BY <1>4, <2>1, BoundsAre DEF CheckFails, Ends
<1>5. CASE Dropped(t)
    BY <1>5 DEF Dropped, Ends
<1>6. CASE Admit(t)
    <2>1. Append(queue, t) \in Seq(Tasks)
        OBVIOUS
    <2>2. \/ slots > 0 /\ slots' = slots - 1 /\ queue' = queue
          \/ slots' = slots /\ queue' = Append(queue, t)
        BY <1>6 DEF Admit
    <2>3. slots' \in Nat
        <3>1. slots \in Nat
            OBVIOUS
        <3> QED
            BY <2>2, <3>1
    <2>4. queue' \in Seq(Tasks)
        BY <2>1, <2>2
    <2> QED
        BY <1>6, <2>3, <2>4 DEF Admit
<1>7. CASE Ask(t)
    BY <1>1, <1>7 DEF Ask, Runs
<1>8. CASE Replay(t)
    <2> PICK n \in (IF row[task[t].event] = "answered" THEN 0 .. MaxChunks ELSE {1}) : Reply(t, n)
        BY <1>8 DEF Replay
    <2>1. n \in 0 .. MaxChunks
        BY BoundsAre
    <2> QED
        BY <1>2, <1>8, <2>1 DEF Replay
<1>9. CASE Answered(t)
    BY <1>2, <1>9 DEF Answered
<1>10. CASE ProcessFails(t)
    BY <1>10, ReleaseRest DEF ProcessFails
<1>11. CASE Sent(t)
    <2>1. task[t] \in Senders
        BY <1>11, RecordIs DEF Sent, Runs, Sending
    <2>2. [echo |-> <<t, task[t].chunk>>, on |-> task[t].via] \in [echo : Echoes, on : Sockets]
        BY <2>1 DEF Senders, Echoes
    <2> QED
        BY <1>11, <2>2 DEF Sent
<1>12. CASE SendFails(t)
    BY <1>12 DEF SendFails, Detach
<1>13. CASE Resume(t)
    <2>1. task[t] \in Senders
        BY <1>13, RecordIs DEF Resume, Runs, Sending
    <2>2. ASSUME task[t].chunk + 1 <= task[t].of
          PROVE  NowPending(Withdrawn(t), t, task[t].chunk + 1) \subseteq Echoes
        <3>1. task[t].chunk + 1 \in 1 .. MaxChunks /\ Withdrawn(t) \subseteq pending
            BY <2>1, <2>2, BoundsAre DEF Senders, Withdrawn
        <3> QED
            BY <3>1, RegisterRest
    <2> QED
        BY <1>13, <2>2 DEF Resume, Withdrawn
<1>14. CASE TimeOut(t)
    BY <1>14 DEF TimeOut, Withdrawn
<1>15. CASE Cancelled(t)
    <2>1. queue' \in Seq(Tasks) /\ slots' \in Nat
        BY <1>15, ReleaseRest, RemovedIs DEF Cancelled
    <2>2. pending' \subseteq Echoes /\ late' \subseteq Events
        BY <1>1, <1>15 DEF Cancelled, Withdrawn
    <2> QED
        BY <1>15, <2>1, <2>2 DEF Cancelled
<1> QED
    BY <1>3, <1>4, <1>5, <1>6, <1>7, <1>8, <1>9, <1>10, <1>11, <1>12, <1>13, <1>14, <1>15
    DEF TaskStep, Runs1, Runs2, Runs3

\* Every step keeps the types.
LEMMA TypesStep == Types /\ Queues /\ [Next]_vars => Types' /\ AllMove
<1> SUFFICES ASSUME Types, Queues, [Next]_vars PROVE Types' /\ AllMove
    OBVIOUS
<1>1. AllMove
    BY Moves
<1>2. Rest
    BY DEF Types, Rest
<1>3. Rest' /\ doomed' \subseteq Alive
    <2> USE DEF Rest
    <2>1. doomed \subseteq Alive
        BY DEF Types
    <2>2. CASE \E t \in Tasks : TaskStep(t)
        BY <1>2, <2>1, <2>2, TaskRest
    <2>3. CASE \E s \in Sockets : Attach(s) \/ Gathered(s)
        BY <1>2, <2>1, <2>3 DEF Attach, Gathered
    <2>4. CASE \E s \in Sockets : HangUp(s) \/ Close(s)
        BY <1>2, <2>1, <2>4 DEF HangUp, Close, Detach, From
    <2>5. CASE \E s \in Sockets, e \in Events : Deliver(s, e)
        BY <1>2, <2>1, <2>5 DEF Deliver
    <2>6. CASE \E f \in frames, ok \in BOOLEAN : Answer(f, ok)
        BY <1>2, <2>1, <2>6 DEF Answer
    <2>7. CASE \E e \in Events : LateRow(e)
        BY <1>2, <2>1, <2>7 DEF LateRow
    <2>8. CASE Expire
        <3>1. Tail(claims) \in Seq(Events) /\ Len(Tail(claims)) = Len(claims) - 1
            BY <1>2, <2>8, HeadTailProperties DEF Expire
        <3> QED
            BY <1>2, <2>1, <2>8, <3>1, BoundsAre DEF Expire
    <2>9. CASE Crash
        BY <1>2, <2>9, BoundsAre DEF Crash
    <2>10. CASE UNCHANGED vars
        BY <1>2, <2>1, <2>10 DEF vars, volatile
    <2> QED
        BY <2>2, <2>3, <2>4, <2>5, <2>6, <2>7, <2>8, <2>9, <2>10 DEF Next
<1> QED
    BY <1>1, <1>3, MovesKeep DEF Types, Rest

-----------------------------------------------------------------------------
(* The semaphore                                                           *)

Holders == {t \in Tasks : task[t].at \in Holding}
Semaphore ==
    /\ Queues
    /\ slots + Cardinality(Holders) = MaxConcurrency
    /\ queue # <<>> => slots = 0

\* Holders are as many as a number says, with one more or one less as well.
LEMMA HoldersAre ==
    /\ IsFiniteSet(Holders) /\ Cardinality(Holders) \in Nat
    /\ \A t \in Holders : IsFiniteSet(Holders \ {t}) /\ Cardinality(Holders \ {t}) = Cardinality(Holders) - 1
    /\ \A t : t \notin Holders => Cardinality(Holders \cup {t}) = Cardinality(Holders) + 1
    /\ \A t \in Holders : \A u : u \notin Holders =>
           Cardinality((Holders \ {t}) \cup {u}) = Cardinality(Holders)
<1>1. IsFiniteSet(Tasks) /\ Holders \subseteq Tasks
    BY BoundsAre, FS_Interval DEF Tasks, Holders
<1> HIDE DEF Holders
<1>2. IsFiniteSet(Holders) /\ Cardinality(Holders) \in Nat
    BY <1>1, FS_Subset, FS_CardinalityType
<1>3. ASSUME NEW t \in Holders
      PROVE  /\ IsFiniteSet(Holders \ {t}) /\ Cardinality(Holders \ {t}) = Cardinality(Holders) - 1
             /\ Cardinality(Holders \ {t}) \in Nat
    BY <1>2, FS_RemoveElement, FS_CardinalityType
<1>4. ASSUME NEW t, t \notin Holders PROVE Cardinality(Holders \cup {t}) = Cardinality(Holders) + 1
    BY <1>2, <1>4, FS_AddElement
<1>5. ASSUME NEW t \in Holders, NEW u, u \notin Holders
      PROVE  Cardinality((Holders \ {t}) \cup {u}) = Cardinality(Holders)
    <2>1. Cardinality((Holders \ {t}) \cup {u}) = Cardinality(Holders \ {t}) + 1
        BY <1>3, <1>5, FS_AddElement
    <2> DEFINE c == Cardinality(Holders \ {t})
               d == Cardinality(Holders)
               e == Cardinality((Holders \ {t}) \cup {u})
    <2>2. c = d - 1 /\ e = c + 1 /\ c \in Nat /\ d \in Nat /\ e \in Nat
        BY <1>2, <1>3, <2>1
    <2> HIDE DEF c, d, e
    <2>3. e = d
        BY <2>2
    <2> QED
        BY <2>3 DEF d, e
<1> QED
    BY <1>2, <1>3, <1>4, <1>5

\* A step in which nobody takes a slot, gives one up, or leaves the queue.
LEMMA SemaphoreStill ==
    ASSUME Types, Semaphore, queue' = queue, slots' = slots,
           \A u \in Tasks : /\ task'[u].at \in Holding <=> task[u].at \in Holding
                            /\ task[u].at = "queued" => task'[u].at = "queued"
    PROVE  Semaphore'
<1>1. Holders' = Holders
    BY DEF Holders
<1>2. Queues'
    BY DEF Semaphore, Queues, Types
<1> QED
    BY <1>1, <1>2 DEF Semaphore

\* A slot that is given up is free, or taken by the first of the queue.
LEMMA ReleaseKeeps ==
    ASSUME Types, Semaphore, NEW t \in Tasks, NEW tk, NEW r, ReleaseSlot(tk, queue),
           task[t].at \in Holding, tk = [task EXCEPT ![t] = r],
           r.at \notin Holding
    PROVE  Semaphore'
<1>1. t \in Holders /\ slots \in Nat
    BY DEF Holders, Types
<1>2. CASE queue = <<>>
    <2>1. task' = tk /\ queue' = <<>> /\ slots' = slots + 1
        BY <1>2 DEF ReleaseSlot
    <2>2. Holders' = Holders \ {t}
        BY <2>1 DEF Holders, Types
    <2>3. Cardinality(Holders') = Cardinality(Holders) - 1
        BY <1>1, <2>2, HoldersAre
    <2>4. Queues'
        BY <2>1 DEF Queues, Distinct
    <2> QED
        BY <1>1, <2>1, <2>3, <2>4, HoldersAre DEF Semaphore
<1>3. CASE queue # <<>>
    <2> DEFINE h == Head(queue)
    <2>1. h = queue[1] /\ h \in Tasks /\ 1 \in 1..Len(queue) /\ Len(queue) \in Nat
        BY <1>3 DEF Types
    <2>2. task[h].at = "queued"
        BY <2>1 DEF Semaphore, Queues
    <2>3. task' = [tk EXCEPT ![h] = Hold(@)] /\ queue' = Tail(queue) /\ slots' = slots
        BY <1>3 DEF ReleaseSlot
    <2> HIDE DEF h
    <2>4. h # t /\ h \notin Holders /\ task[h] \in Handlers
        BY <2>1, <2>2, RecordIs DEF Holders, Holding, Stages
    <2>5. /\ task'[h].at = "entering" /\ task'[t] = r
          /\ \A u \in Tasks \ {h, t} : task'[u] = task[u]
        BY <2>1, <2>3, <2>4 DEF Types, Hold, Handlers
    <2>6. Holders' = (Holders \ {t}) \cup {h}
        BY <2>1, <2>5 DEF Holders, Holding
    <2>7. Cardinality(Holders') = Cardinality(Holders)
        BY <1>1, <2>4, <2>6, HoldersAre
    <2>8. /\ Len(queue') = Len(queue) - 1 /\ Len(queue') \in Nat
          /\ \A i \in 1..Len(queue') : queue'[i] = queue[i+1] /\ i+1 \in 1..Len(queue)
        BY <1>3, <2>1, <2>3, HeadTailProperties DEF Types
    <2>9. ASSUME NEW i \in 1..Len(queue') PROVE task'[queue'[i]].at = "queued"
        <3>1. /\ queue'[i] = queue[i+1] /\ i+1 \in 1..Len(queue) /\ i+1 # 1
              /\ queue[i+1] \in Tasks
            BY <2>8 DEF Types
        <3>2. queue[i+1] # h /\ task[queue[i+1]].at = "queued"
            BY <2>1, <3>1 DEF Semaphore, Queues, Distinct
        <3>3. queue[i+1] # t
            BY <3>2 DEF Holding
        <3> QED
            BY <2>5, <3>1, <3>2, <3>3
    <2>10. Distinct(queue')
        BY <2>1, <2>8 DEF Semaphore, Queues, Distinct
    <2> QED
        BY <1>3, <2>3, <2>7, <2>9, <2>10 DEF Semaphore, Queues
<1> QED
    BY <1>2, <1>3

\* Steps of a task keep the semaphore's account.
LEMMA TaskSemaphore ==
    ASSUME Types, Semaphore, NEW t \in Tasks, TaskStep(t)
    PROVE  Semaphore'
<1> USE DEF Holding
<1>1. ASSUME NEW r, task' = [task EXCEPT ![t] = r], queue' = queue, slots' = slots,
             r.at \in Holding <=> task[t].at \in Holding, task[t].at = "queued" => r.at = "queued"
      PROVE  Semaphore'
    BY <1>1, SemaphoreStill DEF Types
<1>2. ASSUME task' = End(t), queue' = queue, slots' = slots, task[t].at \notin {"entering", "asking", "queued"}
      PROVE  Semaphore'
    BY <1>1, <1>2 DEF End, Done
<1>3. ASSUME NEW from, NEW to, Runs(t, from), task' = [task EXCEPT ![t].at = to], queue' = queue, slots' = slots,
             from \in Holding <=> to \in Holding, from # "queued"
      PROVE  Semaphore'
    <2> DEFINE r == [task[t] EXCEPT !.at = to]
    <2>1. task' = [task EXCEPT ![t] = r] /\ task[t].at = from /\ task[t].at \notin {"unborn", "done"}
        BY <1>3 DEF Runs, Alive
    <2>2. r.at = to
        BY <2>1, RecordIs DEF Handlers, Senders
    <2> QED
        BY <1>1, <1>3, <2>1, <2>2
<1>4. ASSUME NEW n \in 0 .. MaxChunks, Reply(t, n), task[t].at \in Holding PROVE Semaphore'
    <2> DEFINE r == IF n = 0 \/ current = NoSocket THEN Done
                    ELSE [at |-> "sending", event |-> task[t].event, from |-> task[t].from,
                          via |-> current, chunk |-> 1, of |-> n, future |-> "open"]
    <2>1. ReleaseSlot([task EXCEPT ![t] = r], queue)
        BY <1>4 DEF Reply, Registered, End
    <2>2. r.at \notin Holding
        BY DEF Done
    <2> HIDE DEF r
    <2> QED
        BY <1>4, <2>1, <2>2, ReleaseKeeps
<1>5. ASSUME ReleaseSlot(End(t), queue), task[t].at \in Holding PROVE Semaphore'
    <2>1. End(t) = [task EXCEPT ![t] = Done] /\ Done.at \notin Holding
        BY DEF End, Done
    <2> HIDE DEF Holding
    <2> QED
        BY <1>5, <2>1, ReleaseKeeps
<1>6. CASE Begin(t)
    BY <1>2, <1>3, <1>6 DEF Begin, Runs
<1>7. CASE CheckFails(t) \/ Dropped(t)
    BY <1>2, <1>7 DEF CheckFails, Dropped, Ends, Runs
<1>8. CASE Admit(t)
    <2>1. task[t].at = "checking" /\ t \notin Holders /\ task[t] \in Handlers /\ slots \in Nat
        BY <1>8, RecordIs DEF Admit, Runs, Holders, Stages, Types
    <2>2. CASE slots > 0
        <3>1. /\ task' = [task EXCEPT ![t] = Hold(task[t])] /\ slots' = slots - 1 /\ queue' = queue
            BY <1>8, <2>2 DEF Admit
        <3>2. queue = <<>>
            BY <2>1, <2>2 DEF Semaphore
        <3>3. task'[t].at = "entering"
            BY <2>1, <3>1 DEF Types, Hold, Handlers
        <3>4. Holders' = Holders \cup {t}
            BY <3>1, <3>3 DEF Holders, Types
        <3>5. Queues'
            BY <3>1, <3>2 DEF Queues, Distinct
        <3> QED
            BY <2>1, <3>1, <3>2, <3>4, <3>5, HoldersAre DEF Semaphore
    <2>3. CASE ~(slots > 0)
        <3>1. task' = [task EXCEPT ![t].at = "queued"] /\ slots' = slots /\ queue' = Append(queue, t)
            BY <1>8, <2>3 DEF Admit
        <3>2. task'[t].at = "queued" /\ \A u \in Tasks \ {t} : task'[u] = task[u]
            BY <2>1, <3>1 DEF Types, Handlers
        <3>3. Holders' = Holders
            BY <2>1, <3>2 DEF Holders
        <3>4. /\ Len(queue') = Len(queue) + 1 /\ Len(queue) \in Nat
              /\ queue'[Len(queue) + 1] = t
              /\ \A i \in 1..Len(queue) : queue'[i] = queue[i] /\ queue[i] \in Tasks
                                          /\ task[queue[i]].at = "queued" /\ queue[i] # t
            BY <2>1, <3>1, AppendProperties DEF Types, Semaphore, Queues
        <3>5. \A i \in 1..Len(queue') : task'[queue'[i]].at = "queued"
            BY <3>2, <3>4
        <3>6. Distinct(queue')
            BY <3>4 DEF Semaphore, Queues, Distinct
        <3> QED
            BY <2>1, <2>3, <3>1, <3>3, <3>5, <3>6 DEF Semaphore, Queues
    <2> QED
        BY <2>2, <2>3
<1>9. CASE Ask(t)
    BY <1>3, <1>9 DEF Ask
<1>10. CASE Replay(t)
    <2> PICK n \in (IF row[task[t].event] = "answered" THEN 0 .. MaxChunks ELSE {1}) : Reply(t, n)
        BY <1>10 DEF Replay
    <2>1. n \in 0 .. MaxChunks
        BY BoundsAre
    <2> QED
        BY <1>4, <1>10, <2>1 DEF Replay, Runs
<1>11. CASE Answered(t)
    BY <1>4, <1>11 DEF Answered, Runs
<1>12. CASE ProcessFails(t)
    BY <1>5, <1>12 DEF ProcessFails, Runs
<1>13. CASE Sent(t)
    BY <1>3, <1>13 DEF Sent
<1>14. CASE SendFails(t)
    <2>1. /\ task[t].at = "sending" /\ queue' = queue /\ slots' = slots
          /\ Detach(task[t].via, End(t), pending \ Mine(t))
        BY <1>14 DEF SendFails, Runs
    <2>2. \A u \in Tasks : task'[u].at = (IF u = t THEN "done" ELSE task[u].at)
        BY <2>1 DEF Detach, Fail, End, Done, Types, Sending, Records, Senders, Handlers
    <2> QED
        BY <2>1, <2>2, SemaphoreStill
<1>15. CASE Resume(t)
    <2>1. task[t].at = "awaiting" /\ queue' = queue /\ slots' = slots
        BY <1>15 DEF Resume, Runs
    <2>2. CASE task' = End(t)
        BY <1>2, <2>1, <2>2
    <2>3. CASE task' # End(t)
        BY <1>1, <1>15, <2>1, <2>3 DEF Resume, Registered, End
    <2> QED
        BY <2>2, <2>3
<1>16. CASE TimeOut(t)
    BY <1>2, <1>16 DEF TimeOut, Runs
<1>17. CASE Cancelled(t)
    <2>1. CASE task[t].at \in Holding
        BY <1>5, <1>17, <2>1 DEF Cancelled
    <2>2. CASE task[t].at \notin Holding
        <3>1. task' = End(t) /\ queue' = RemoveFirst(queue, t) /\ slots' = slots
            BY <1>17, <2>2 DEF Cancelled
        <3>2. task'[t] = Done /\ \A u \in Tasks \ {t} : task'[u] = task[u]
            BY <3>1 DEF End, Types
        <3>3. Holders' = Holders
            BY <2>2, <3>2 DEF Holders, Done
        <3>4. /\ Distinct(queue') /\ ~In(queue', t) /\ Len(queue') <= Len(queue) /\ queue' \in Seq(Tasks)
              /\ \A x : x # t => (In(queue', x) <=> In(queue, x))
            BY <3>1, RemovedIs DEF Types, Semaphore, Queues
        <3>5. ASSUME NEW i \in 1..Len(queue') PROVE task'[queue'[i]].at = "queued"
            <4>1. queue'[i] \in Tasks /\ queue'[i] # t /\ In(queue, queue'[i])
                BY <3>4 DEF In
            <4> QED
                BY <3>2, <4>1 DEF Semaphore, Queues, In
        <3>6. queue' # <<>> => queue # <<>>
            BY <3>4 DEF Types
        <3> QED
            BY <3>1, <3>3, <3>4, <3>5, <3>6 DEF Semaphore, Queues
    <2> QED
        BY <2>1, <2>2
<1> QED
    BY <1>6, <1>7, <1>8, <1>9, <1>10, <1>11, <1>12, <1>13, <1>14, <1>15, <1>16, <1>17
    DEF TaskStep, Runs1, Runs2, Runs3

\* So does every other step.
LEMMA SemaphoreStep == Types /\ Semaphore /\ [Next]_vars => Semaphore'
<1> SUFFICES ASSUME Types, Semaphore, [Next]_vars PROVE Semaphore'
    OBVIOUS
<1>1. ASSUME task' = task, queue' = queue, slots' = slots PROVE Semaphore'
    BY <1>1, SemaphoreStill
<1>2. CASE \E t \in Tasks : TaskStep(t)
    BY <1>2, TaskSemaphore
<1>3. CASE \E s \in Sockets : Attach(s) \/ Gathered(s)
    BY <1>1, <1>3 DEF Attach, Gathered
<1>4. CASE \E s \in Sockets : HangUp(s) \/ Close(s)
    <2>1. queue' = queue /\ slots' = slots /\ \A u \in Tasks : task'[u].at = task[u].at
        BY <1>4 DEF HangUp, Close, Detach, Fail, Types, Records, Senders, Handlers
    <2> QED
        BY <2>1, SemaphoreStill
<1>5. CASE \E s \in Sockets, e \in Events : Deliver(s, e)
    <2> PICK s \in Sockets, e \in Events, t \in Tasks :
               /\ task[t].at = "unborn" /\ UNCHANGED <<queue, slots>>
               /\ task' = [task EXCEPT ![t] = [at |-> "started", event |-> e, from |-> s]]
        BY <1>5 DEF Deliver
    <2>1. \A u \in Tasks : task'[u].at = (IF u = t THEN "started" ELSE task[u].at)
        BY DEF Types
    <2> QED
        BY <2>1, SemaphoreStill DEF Holding
<1>6. CASE \E f \in frames, ok \in BOOLEAN : Answer(f, ok)
    <2>1. queue' = queue /\ slots' = slots /\ \A u \in Tasks : task'[u].at = task[u].at
        BY <1>6 DEF Answer, Types, Records, Senders, Handlers
    <2> QED
        BY <2>1, SemaphoreStill
<1>7. CASE (\E e \in Events : LateRow(e)) \/ Expire
    BY <1>1, <1>7 DEF LateRow, Expire
<1>8. CASE Crash
    <2>1. Holders' = {}
        BY <1>8 DEF Crash, Holders, Holding, Done, Alive, Types
    <2>2. Cardinality(Holders') = 0
        BY <2>1, FS_EmptySet
    <2> QED
        BY <1>8, <2>2, BoundsAre DEF Crash, Semaphore, Queues, Distinct
<1>9. CASE UNCHANGED vars
    BY <1>1, <1>9 DEF vars, volatile
<1> QED
    BY <1>2, <1>3, <1>4, <1>5, <1>6, <1>7, <1>8, <1>9 DEF Next

-----------------------------------------------------------------------------
(* Actions, futures and sockets                                            *)

\* What is registered of a task is what it sends, or waits for.
Wired(u, ps) ==
    /\ \A k : <<u, k>> \in ps => task[u].at \in Sending /\ k = task[u].chunk
    /\ u \notin doomed /\ task[u].at \in Sending /\ task[u].future = "open"
         => <<u, task[u].chunk>> \in ps /\ task[u].via = current

Wires == AttachedIsServed /\ \A u \in Tasks : Wired(u, pending)

\* That is what the invariants of the module say of tasks and actions.
LEMMA WiresAre ==
    ASSUME Types
    PROVE  Wires <=> AttachedIsServed /\ ActionsOwned /\ NobodyWaitsInVain
<1>1. ASSUME \A u \in Tasks : Wired(u, pending) PROVE ActionsOwned /\ NobodyWaitsInVain
    <2>1. ASSUME NEW echo \in pending
          PROVE  task[echo[1]].at \in Sending /\ task[echo[1]].chunk = echo[2]
        <3>1. echo = <<echo[1], echo[2]>> /\ echo[1] \in Tasks
            BY DEF Types, Echoes
        <3>2. Wired(echo[1], pending)
            BY <1>1, <3>1
        <3> QED
            BY <3>1, <3>2 DEF Wired
    <2> QED
        BY <1>1, <2>1 DEF ActionsOwned, NobodyWaitsInVain, Wired, Alive
<1>2. ASSUME ActionsOwned, NobodyWaitsInVain PROVE \A u \in Tasks : Wired(u, pending)
    BY <1>2 DEF ActionsOwned, NobodyWaitsInVain, Wired, Alive, Sending
<1> QED
    BY <1>1, <1>2 DEF Wires

\* A step that touches the actions of one task only.
LEMMA WiredStill ==
    ASSUME Types, Wires, AttachedIsServed', NEW t \in Tasks, current' = current,
           doomed \ {t} \subseteq doomed',
           \A u \in Tasks \ {t} : /\ task'[u] = task[u] \/ Advances(u) \/ GoesOn(u)
                                  /\ \A k : <<u, k>> \in pending' <=> <<u, k>> \in pending,
           Wired(t, pending)'
    PROVE  Wires'
<1>1. ASSUME NEW u \in Tasks, u # t PROVE Wired(u, pending)'
    <2>1. Wired(u, pending) /\ (u \in doomed => u \in doomed')
        BY <1>1 DEF Wires
    <2>2. CASE task'[u] = task[u]
        BY <1>1, <2>1, <2>2 DEF Wired
    <2>3. CASE Advances(u)
        <3>1. task[u].at \notin Sending /\ task'[u].at \notin Sending
            BY <2>3 DEF Advances, Course, Sending
        <3> QED
            BY <1>1, <2>1, <3>1 DEF Wired
    <2>4. CASE GoesOn(u)
        <3>1. task[u].at \in Sending /\ task'[u].at \in Sending
            BY <2>4 DEF GoesOn, Senders
        <3> QED
            BY <1>1, <2>1, <2>4, <3>1 DEF Wired, GoesOn
    <2> QED
        BY <1>1, <2>2, <2>3, <2>4
<1> QED
    BY <1>1 DEF Wires

\* A socket that is detached fails every action that is registered.
LEMMA DetachWires ==
    ASSUME Types, Wires, NEW tk, NEW ps, NEW s, Detach(s, tk, ps), AttachedIsServed', NEW t \in Tasks,
           doomed \subseteq doomed',
           \/ tk = task /\ ps = pending
           \/ tk = End(t) /\ ps = pending \ Mine(t)
    PROVE  Wires'
<1>1. /\ tk = [u \in Tasks |-> tk[u]]
      /\ \A u \in Tasks : \/ tk[u] = task[u] /\ \A k : <<u, k>> \in ps <=> <<u, k>> \in pending
                          \/ tk[u] = Done /\ \A k : <<u, k>> \notin ps
    <2>1. CASE tk = task /\ ps = pending
        BY <2>1 DEF Types
    <2>2. CASE tk = End(t) /\ ps = pending \ Mine(t)
        <3>1. \A u \in Tasks : tk[u] = (IF u = t THEN Done ELSE task[u])
            BY <2>2 DEF Types, End
        <3>2. tk = [u \in Tasks |-> tk[u]]
            BY <2>2 DEF Types, End
        <3> QED
            BY <2>2, <3>1, <3>2 DEF Mine
    <2> QED
        BY <2>1, <2>2
<1>2. CASE ~Attached(s)
    <2>1. task' = tk /\ pending' = ps /\ current' = current
        BY <1>2 DEF Detach
    <2>2. ASSUME NEW u \in Tasks PROVE Wired(u, pending)'
        <3>1. CASE tk[u] = task[u] /\ \A k : <<u, k>> \in ps <=> <<u, k>> \in pending
            BY <2>1, <3>1 DEF Wires, Wired
        <3>2. CASE tk[u] = Done /\ \A k : <<u, k>> \notin ps
            BY <2>1, <3>2 DEF Wired, Done, Sending
        <3> QED
            BY <1>1, <3>1, <3>2
    <2> QED
        BY <2>2 DEF Wires
<1>3. CASE Attached(s)
    <2>1. task' = Fail(tk, ps) /\ pending' = {}
        BY <1>3 DEF Detach
    <2>2. ASSUME NEW u \in Tasks PROVE Wired(u, pending)'
        <3>1. CASE tk[u] = Done
            BY <2>1, <3>1 DEF Fail, Done, Wired, Sending
        <3>2. CASE tk[u] = task[u] /\ \A k : <<u, k>> \in ps <=> <<u, k>> \in pending
            <4>1. CASE task[u].at \in Sending /\ task[u].future = "open" /\ u \notin doomed
                <5>1. <<u, task[u].chunk>> \in ps
                    BY <3>2, <4>1 DEF Wires, Wired
                <5>2. u \in {echo[1] : echo \in ps}
                    BY <5>1
                <5>3. task'[u] = [task[u] EXCEPT !.future = "lost"] /\ task[u] \in Senders
                    BY <2>1, <3>2, <4>1, <5>2, RecordIs DEF Fail
                <5>4. task'[u].future = "lost"
                    BY <5>3 DEF Senders
                <5> QED
                    BY <2>1, <5>4 DEF Wired
            <4>2. CASE ~(task[u].at \in Sending /\ task[u].future = "open" /\ u \notin doomed)
                <5>1. CASE task'[u] = task[u]
                    BY <2>1, <4>2, <5>1 DEF Wired
                <5>2. CASE task'[u] # task[u]
                    <6>1. task'[u] = [task[u] EXCEPT !.future = "lost"] /\ task[u].at \in Sending
                        BY <2>1, <3>2, <5>2 DEF Fail
                    <6>2. task'[u].future = "lost"
                        BY <6>1, RecordIs DEF Senders
                    <6> QED
                        BY <2>1, <6>2 DEF Wired
                <5> QED
                    BY <5>1, <5>2
            <4> QED
                BY <4>1, <4>2
        <3> QED
            BY <1>1, <3>1, <3>2
    <2> QED
        BY <2>2 DEF Wires
<1> QED
    BY <1>2, <1>3

\* The attached socket stays one whose loop runs.
LEMMA AttachedStep == Types /\ AttachedIsServed /\ [Next]_vars => AttachedIsServed'
<1> SUFFICES ASSUME Types, AttachedIsServed, [Next]_vars PROVE AttachedIsServed'
    OBVIOUS
<1> USE DEF AttachedIsServed
<1>1. ASSUME sock' = sock, current' \in {current, NoSocket} PROVE AttachedIsServed'
    BY <1>1
<1>2. CASE \E s \in Sockets : Attach(s)
    BY <1>2 DEF Attach, Types
<1>3. CASE \E s \in Sockets : HangUp(s)
    BY <1>3 DEF HangUp, Detach, Attached, Types
<1>4. CASE \E s \in Sockets : Gathered(s)
    BY <1>4 DEF Gathered, Types
<1>5. CASE \E s \in Sockets : Close(s)
    BY <1>5 DEF Close, Detach, Attached
<1>6. CASE \E s \in Sockets, e \in Events : Deliver(s, e)
    BY <1>1, <1>6 DEF Deliver
<1>7. CASE \E f \in frames, ok \in BOOLEAN : Answer(f, ok)
    BY <1>1, <1>7 DEF Answer
<1>8. CASE \E t \in Tasks : TaskStep(t)
    <2> PICK t \in Tasks : TaskStep(t)
        BY <1>8
    <2>1. CASE Runs1(t)
        BY <1>1, <2>1 DEF Runs1, Begin, CheckFails, Dropped, Admit
    <2>2. CASE Runs2(t)
        BY <1>1, <2>2 DEF Runs2, Ask, Replay, Answered, ProcessFails
    <2>3. CASE SendFails(t)
        BY <1>1, <2>3 DEF SendFails, Detach
    <2>4. CASE Sent(t) \/ Resume(t) \/ TimeOut(t) \/ Cancelled(t)
        BY <1>1, <2>4 DEF Sent, Resume, TimeOut, Cancelled
    <2> QED
        BY <2>1, <2>2, <2>3, <2>4 DEF TaskStep, Runs3
<1>9. CASE (\E e \in Events : LateRow(e)) \/ Expire
    BY <1>1, <1>9 DEF LateRow, Expire
<1>10. CASE Crash
    BY <1>10 DEF Crash
<1>11. CASE UNCHANGED vars
    BY <1>1, <1>11 DEF vars, volatile
<1> QED
    BY <1>2, <1>3, <1>4, <1>5, <1>6, <1>7, <1>8, <1>9, <1>10, <1>11 DEF Next

\* The steps of a task leave its actions as they should be.
LEMMA TaskWires ==
    ASSUME Types, Queues, Wires, AttachedIsServed', NEW t \in Tasks, TaskStep(t)
    PROVE  Wires'
<1>1. ASSUME NEW r, task' = [task EXCEPT ![t] = r]
      PROVE  /\ task'[t] = r
             /\ \A u \in Tasks \ {t} : task'[u] = task[u] \/ Advances(u) \/ GoesOn(u)
    BY <1>1 DEF Types
<1>2. ASSUME NEW r, ReleaseSlot([task EXCEPT ![t] = r], queue), task[t].at \in Holding
      PROVE  /\ task'[t] = r
             /\ \A u \in Tasks \ {t} : task'[u] = task[u] \/ Advances(u) \/ GoesOn(u)
    <2> DEFINE tk == [task EXCEPT ![t] = r]
    <2>1. tk = [task EXCEPT ![t] = r] /\ ReleaseSlot(tk, queue)
        BY <1>2
    <2> HIDE DEF tk
    <2> QED
        BY <1>2, <2>1, ReleaseIs
<1>3. task[t].at \notin Sending => \A k : <<t, k>> \notin pending
    BY DEF Wires, Wired
<1>4. ASSUME \A u \in Tasks \ {t} : task'[u] = task[u] \/ Advances(u) \/ GoesOn(u),
             current' = current, doomed \ {t} \subseteq doomed',
             pending' = Withdrawn(t) \/ (pending' = pending /\ task[t].at \notin Sending),
             task'[t].at \notin Sending
      PROVE  Wires'
    <2>1. /\ \A k : <<t, k>> \notin pending'
          /\ \A u \in Tasks \ {t} : \A k : <<u, k>> \in pending' <=> <<u, k>> \in pending
        BY <1>3, <1>4 DEF Withdrawn, Mine
    <2>2. Wired(t, pending)'
        BY <1>4, <2>1 DEF Wired
    <2> QED
        BY <1>4, <2>1, <2>2, WiredStill
<1>5. ASSUME \A u \in Tasks \ {t} : task'[u] = task[u] \/ Advances(u) \/ GoesOn(u),
             current' = current, doomed \ {t} \subseteq doomed',
             NEW ps, ps = Withdrawn(t) \/ (ps = pending /\ task[t].at \notin Sending),
             NEW k, NEW n, pending' = NowPending(ps, t, k),
             task'[t] = IF current = NoSocket THEN Done
                        ELSE [at |-> "sending", event |-> task[t].event, from |-> task[t].from,
                              via |-> current, chunk |-> k, of |-> n, future |-> "open"]
      PROVE  Wires'
    <2>1. CASE current = NoSocket
        <3>1. pending' = ps /\ task'[t].at \notin Sending
            BY <1>5, <2>1 DEF NowPending, Done, Sending
        <3> QED
            BY <1>4, <1>5, <3>1
    <2>2. CASE current # NoSocket
        <3>1. pending' = ps \cup {<<t, k>>}
            BY <1>5, <2>2 DEF NowPending
        <3>2. /\ \A m : <<t, m>> \in pending' <=> m = k
              /\ \A u \in Tasks \ {t} : \A m : <<u, m>> \in pending' <=> <<u, m>> \in pending
            BY <1>3, <1>5, <3>1 DEF Withdrawn, Mine
        <3>3. task'[t].at \in Sending /\ task'[t].chunk = k /\ task'[t].via = current'
            BY <1>5, <2>2 DEF Sending
        <3>4. Wired(t, pending)'
            BY <3>2, <3>3 DEF Wired
        <3> QED
            BY <1>5, <3>2, <3>4, WiredStill
    <2> QED
        BY <2>1, <2>2
<1>6. ASSUME NEW n \in 0 .. MaxChunks, Reply(t, n), Runs(t, "entering") \/ Runs(t, "asking"),
             current' = current, doomed' = doomed
      PROVE  Wires'
    <2>1. task[t].at \in Holding /\ task[t].at \notin Sending
        BY <1>6 DEF Runs, Holding, Sending
    <2>2. CASE n = 0
        <3>1. ReleaseSlot([task EXCEPT ![t] = Done], queue) /\ pending' = pending
            BY <1>6, <2>2 DEF Reply, End
        <3>2. /\ task'[t] = Done
              /\ \A u \in Tasks \ {t} : task'[u] = task[u] \/ Advances(u) \/ GoesOn(u)
            BY <1>2, <2>1, <3>1
        <3>3. task'[t].at \notin Sending
            BY <3>2 DEF Done, Sending
        <3> QED
            BY <1>4, <1>6, <2>1, <3>1, <3>2, <3>3
    <2>3. CASE n # 0
        <3> DEFINE r == IF current = NoSocket THEN Done
                        ELSE [at |-> "sending", event |-> task[t].event, from |-> task[t].from,
                              via |-> current, chunk |-> 1, of |-> n, future |-> "open"]
        <3>1. ReleaseSlot([task EXCEPT ![t] = r], queue) /\ pending' = NowPending(pending, t, 1)
            BY <1>6, <2>3 DEF Reply, Registered
        <3>2. /\ task'[t] = r
              /\ \A u \in Tasks \ {t} : task'[u] = task[u] \/ Advances(u) \/ GoesOn(u)
            <4> HIDE DEF r
            <4> QED
                BY <1>2, <2>1, <3>1
        <3> QED
            BY <1>5, <1>6, <2>1, <3>1, <3>2
    <2> QED
        BY <2>2, <2>3
<1>7. ASSUME ReleaseSlot(End(t), queue), task[t].at \in Holding, current' = current,
             doomed \ {t} \subseteq doomed', pending' \in {pending, Withdrawn(t)}
      PROVE  Wires'
    <2>1. /\ task'[t] = Done
          /\ \A u \in Tasks \ {t} : task'[u] = task[u] \/ Advances(u) \/ GoesOn(u)
        BY <1>2, <1>7 DEF End
    <2>2. task'[t].at \notin Sending /\ task[t].at \notin Sending
        BY <1>7, <2>1 DEF Done, Sending, Holding
    <2> QED
        BY <1>4, <1>7, <2>1, <2>2
<1>8. ASSUME task' = End(t), current' = current, doomed \ {t} \subseteq doomed',
             pending' = Withdrawn(t) \/ (pending' = pending /\ task[t].at \notin Sending)
      PROVE  Wires'
    <2>1. task' = [task EXCEPT ![t] = Done]
        BY <1>8 DEF End
    <2>2. task'[t] = Done
        BY <1>1, <2>1
    <2>3. task'[t].at \notin Sending
        BY <2>2 DEF Done, Sending
    <2> QED
        BY <1>1, <1>4, <1>8, <2>1, <2>3
<1>9. ASSUME NEW from, NEW to, Runs(t, from), task' = [task EXCEPT ![t].at = to],
             <<from, to>> \in Course, current' = current, doomed' = doomed, pending' = pending
      PROVE  Wires'
    <2> DEFINE r == [task[t] EXCEPT !.at = to]
    <2>1. task' = [task EXCEPT ![t] = r] /\ task[t].at = from
        BY <1>9 DEF Runs
    <2>2. from \in Stages /\ to \in Stages \ Sending /\ from \notin Sending
        BY <1>9 DEF Course, Stages, Sending
    <2>3. r.at = to
        BY <2>1, <2>2, RecordIs DEF Handlers
    <2>4. task'[t] = r /\ task'[t].at \notin Sending
        BY <1>1, <2>1, <2>2, <2>3
    <2> QED
        BY <1>1, <1>4, <1>9, <2>1, <2>2, <2>4
<1>10. CASE Begin(t)
    <2>1. task[t].at \notin Sending
        BY <1>10 DEF Begin, Runs, Sending
    <2> QED
        BY <1>8, <1>9, <1>10, <2>1 DEF Begin, Course
<1>11. CASE CheckFails(t) \/ Dropped(t)
    BY <1>8, <1>11 DEF CheckFails, Dropped, Ends, Runs, Sending
<1>12. CASE Admit(t)
    <2>1. \/ task' = [task EXCEPT ![t].at = "entering"]
          \/ task' = [task EXCEPT ![t].at = "queued"]
        BY <1>12 DEF Admit, Hold
    <2> QED
        BY <1>9, <1>12, <2>1 DEF Admit, Course
<1>13. CASE Ask(t)
    BY <1>9, <1>13 DEF Ask, Course
<1>14. CASE Replay(t)
    <2> PICK n \in (IF row[task[t].event] = "answered" THEN 0 .. MaxChunks ELSE {1}) : Reply(t, n)
        BY <1>14 DEF Replay
    <2>1. n \in 0 .. MaxChunks
        BY BoundsAre
    <2> QED
        BY <1>6, <1>14, <2>1 DEF Replay
<1>15. CASE Answered(t)
    BY <1>6, <1>15 DEF Answered
<1>16. CASE ProcessFails(t)
    BY <1>7, <1>16 DEF ProcessFails, Runs, Holding
<1>17. CASE Sent(t)
    <2>1. /\ task' = [task EXCEPT ![t] = [task[t] EXCEPT !.at = "awaiting"]] /\ task[t].at = "sending"
          /\ doomed' = doomed /\ current' = current /\ pending' = pending
        BY <1>17 DEF Sent, Runs
    <2>2. task[t] \in Senders
        BY <2>1, RecordIs DEF Sending
    <2>3. /\ task'[t].at \in Sending /\ task'[t].chunk = task[t].chunk /\ task'[t].via = task[t].via
          /\ task'[t].future = task[t].future
        BY <1>1, <2>1, <2>2 DEF Senders, Sending
    <2>4. Wired(t, pending)
        BY DEF Wires
    <2>5. Wired(t, pending)'
        BY <2>1, <2>2, <2>3, <2>4 DEF Wired, Senders
    <2> QED
        BY <1>1, <2>1, <2>5, WiredStill
<1>18. CASE SendFails(t)
    BY <1>18, DetachWires DEF SendFails
<1>19. CASE Resume(t)
    <2> DEFINE k == task[t].chunk + 1
               n == task[t].of
    <2>1. CASE task[t].future = "ok" /\ k <= n
        <3> DEFINE r == IF current = NoSocket THEN Done
                        ELSE [at |-> "sending", event |-> task[t].event, from |-> task[t].from,
                              via |-> current, chunk |-> k, of |-> n, future |-> "open"]
        <3>1. task' = [task EXCEPT ![t] = r] /\ pending' = NowPending(Withdrawn(t), t, k)
            BY <1>19, <2>1 DEF Resume, Registered
        <3>2. /\ task'[t] = r
              /\ \A u \in Tasks \ {t} : task'[u] = task[u] \/ Advances(u) \/ GoesOn(u)
            <4> HIDE DEF r
            <4> QED
                BY <1>1, <3>1
        <3>3. current' = current /\ doomed' = doomed
            BY <1>19 DEF Resume
        <3> HIDE DEF k, n
        <3> QED
            BY <1>5, <3>1, <3>2, <3>3
    <2>2. CASE ~(task[t].future = "ok" /\ k <= n)
        BY <1>8, <1>19, <2>2 DEF Resume
    <2> QED
        BY <2>1, <2>2
<1>20. CASE TimeOut(t)
    BY <1>8, <1>20 DEF TimeOut
<1>21. CASE Cancelled(t)
    BY <1>7, <1>8, <1>21 DEF Cancelled
<1> QED
    BY <1>10, <1>11, <1>12, <1>13, <1>14, <1>15, <1>16, <1>17, <1>18, <1>19, <1>20, <1>21
    DEF TaskStep, Runs1, Runs2, Runs3

\* Every step does.
LEMMA WiresStep == Types /\ Queues /\ Wires /\ [Next]_vars => Wires'
<1> SUFFICES ASSUME Types, Queues, Wires, [Next]_vars PROVE Wires'
    OBVIOUS
<1>1. AttachedIsServed'
    BY AttachedStep DEF Wires
<1>2. 1 \in Tasks
    BY BoundsAre DEF Tasks
<1>3. ASSUME task' = task, current' = current, doomed' = doomed, pending' = pending PROVE Wires'
    BY <1>1, <1>3 DEF Wires, Wired
<1>4. CASE \E s \in Sockets : Attach(s)
    <2>1. task' = task /\ doomed' = doomed /\ pending' = pending /\ current = NoSocket
        BY <1>4 DEF Attach
    <2>2. ASSUME NEW u \in Tasks PROVE Wired(u, pending)'
        <3>1. Wired(u, pending) /\ (task[u].at \in Sending => task[u].via \in Sockets)
            BY RecordIs DEF Wires, Senders
        <3> QED
            BY <2>1, <3>1, BoundsAre DEF Wired
    <2> QED
        BY <1>1, <2>2 DEF Wires
<1>5. CASE \E s \in Sockets : HangUp(s) \/ Close(s)
    BY <1>1, <1>2, <1>5, DetachWires DEF HangUp, Close
<1>6. CASE \E s \in Sockets : Gathered(s)
    BY <1>3, <1>6 DEF Gathered
<1>7. CASE \E s \in Sockets, e \in Events : Deliver(s, e)
    <2> PICK s \in Sockets, e \in Events, t \in Tasks :
               /\ task[t].at = "unborn" /\ UNCHANGED <<current, doomed, pending>>
               /\ task' = [task EXCEPT ![t] = [at |-> "started", event |-> e, from |-> s]]
        BY <1>7 DEF Deliver
    <2>1. task'[t].at = "started" /\ \A u \in Tasks \ {t} : task'[u] = task[u]
        BY DEF Types
    <2>2. \A k : <<t, k>> \notin pending
        BY DEF Wires, Wired, Sending
    <2>3. Wired(t, pending)'
        BY <2>1, <2>2 DEF Wired, Sending
    <2> QED
        BY <1>1, <2>1, <2>3, WiredStill
<1>8. CASE \E f \in frames, ok \in BOOLEAN : Answer(f, ok)
    <2> PICK f \in frames, ok \in BOOLEAN : Answer(f, ok)
        BY <1>8
    <2> DEFINE t == f.echo[1]
    <2>1. t \in Tasks /\ f.echo = <<t, f.echo[2]>>
        BY DEF Types, Echoes
    <2>2. CASE f.echo \in pending /\ task[t].future = "open"
        <3> DEFINE a == IF ok THEN "ok" ELSE "bad"
        <3> HIDE DEF t
        <3>1. Wired(t, pending)
            BY <2>1 DEF Wires
        <3>2. task[t].at \in Sending /\ task[t] \in Senders
            BY <2>1, <2>2, <3>1, RecordIs DEF Wired
        <3>3. /\ task' = [task EXCEPT ![t] = [task[t] EXCEPT !.future = a]]
              /\ UNCHANGED <<current, doomed, pending>>
            BY <2>2 DEF Answer, t
        <3>4. /\ task'[t].at \in Sending /\ task'[t].chunk = task[t].chunk /\ task'[t].future # "open"
              /\ \A u \in Tasks \ {t} : task'[u] = task[u]
            BY <2>1, <3>2, <3>3 DEF Senders, Types
        <3>5. Wired(t, pending)'
            BY <3>1, <3>3, <3>4 DEF Wired
        <3> QED
            BY <1>1, <2>1, <3>3, <3>4, <3>5, WiredStill
    <2>3. CASE ~(f.echo \in pending /\ task[t].future = "open")
        BY <1>3, <2>3 DEF Answer
    <2> QED
        BY <2>2, <2>3
<1>9. CASE \E t \in Tasks : TaskStep(t)
    BY <1>1, <1>9, TaskWires
<1>10. CASE (\E e \in Events : LateRow(e)) \/ Expire
    BY <1>3, <1>10 DEF LateRow, Expire
<1>11. CASE Crash
    <2>1. pending' = {} /\ \A u \in Tasks : task'[u].at \notin Sending
        BY <1>11 DEF Crash, Alive, Done, Sending
    <2> QED
        BY <1>1, <2>1 DEF Wires, Wired
<1>12. CASE UNCHANGED vars
    BY <1>3, <1>12 DEF vars, volatile
<1> QED
    BY <1>4, <1>5, <1>6, <1>7, <1>8, <1>9, <1>10, <1>11, <1>12 DEF Next

-----------------------------------------------------------------------------
(* Claims                                                                  *)

\* A task begins to handle its event in one step only.
LEMMA BeginsAre ==
    ASSUME Types, Queues, [Next]_vars, NEW u \in Tasks, task[u].at = "started", task'[u].at = "checking"
    PROVE  Begin(u)
<1>1. task'[u] # task[u]
    OBVIOUS
<1>2. ASSUME NEW t \in Tasks, NEW r, task' = [task EXCEPT ![t] = r], r.at # "checking" PROVE FALSE
    BY <1>1, <1>2 DEF Types
<1>3. ASSUME NEW t \in Tasks, NEW r, ReleaseSlot([task EXCEPT ![t] = r], queue), task[t].at \in Holding
      PROVE  FALSE
    <2> DEFINE tk == [task EXCEPT ![t] = r]
    <2>1. tk = [task EXCEPT ![t] = r] /\ ReleaseSlot(tk, queue)
        BY <1>3
    <2>2. task'[u] = task[u] \/ task[u].at = "queued" \/ u = t
        <3> HIDE DEF tk
        <3> QED
            BY <1>3, <2>1, ReleaseIs
    <2> QED
        BY <1>1, <1>3, <2>2 DEF Holding
<1>4. ASSUME NEW t \in Tasks, NEW n, Reply(t, n), task[t].at \in Holding PROVE FALSE
    <2> DEFINE r == IF n = 0 \/ current = NoSocket THEN Done
                    ELSE [at |-> "sending", event |-> task[t].event, from |-> task[t].from,
                          via |-> current, chunk |-> 1, of |-> n, future |-> "open"]
    <2>1. ReleaseSlot([task EXCEPT ![t] = r], queue)
        BY <1>4 DEF Reply, Registered, End
    <2> HIDE DEF r
    <2> QED
        BY <1>3, <1>4, <2>1
<1>5. ASSUME NEW t \in Tasks, task' = End(t) PROVE FALSE
    BY <1>2, <1>5 DEF End, Done
<1>6. ASSUME NEW t \in Tasks, NEW s, NEW ps, Detach(s, task, ps) \/ Detach(s, End(t), ps) PROVE FALSE
    <2>1. CASE u = t /\ ~Detach(s, task, ps)
        BY <1>6, <2>1 DEF Detach, End, Fail, Done, Sending, Types
    <2>2. CASE ~(u = t /\ ~Detach(s, task, ps))
        BY <1>1, <1>6, <2>2 DEF Detach, End, Fail, Sending, Types
    <2> QED
        BY <2>1, <2>2
<1>7. ASSUME NEW t \in Tasks, TaskStep(t) PROVE Begin(u)
    <2>1. CASE Begin(t)
        BY <1>1, <1>5, <1>7, <2>1 DEF Begin, Types
    <2>2. CASE CheckFails(t) \/ Dropped(t) \/ TimeOut(t)
        BY <1>5, <2>2 DEF CheckFails, Dropped, Ends, TimeOut
    <2>3. CASE Admit(t) \/ Ask(t) \/ Sent(t)
        BY <2>3 DEF Admit, Ask, Sent, Hold, Runs, Types
    <2>4. CASE Replay(t) \/ Answered(t)
        BY <1>4, <2>4 DEF Replay, Answered, Runs, Holding
    <2>5. CASE ProcessFails(t)
        BY <1>3, <2>5 DEF ProcessFails, Runs, Holding, End
    <2>6. CASE SendFails(t)
        BY <1>6, <2>6 DEF SendFails
    <2>7. CASE Resume(t)
        BY <1>1, <1>5, <2>7 DEF Resume, Registered, Runs, Types
    <2>8. CASE Cancelled(t)
        BY <1>3, <1>5, <2>8 DEF Cancelled, End
    <2> QED
        BY <1>7, <2>1, <2>2, <2>3, <2>4, <2>5, <2>6, <2>7, <2>8 DEF TaskStep, Runs1, Runs2, Runs3
<1>8. CASE \E s \in Sockets : Attach(s) \/ Gathered(s)
    BY <1>1, <1>8 DEF Attach, Gathered
<1>9. CASE \E s \in Sockets : HangUp(s) \/ Close(s)
    BY <1>6, <1>9 DEF HangUp, Close
<1>10. CASE \E s \in Sockets, e \in Events : Deliver(s, e)
    BY <1>2, <1>10 DEF Deliver
<1>11. CASE \E f \in frames, ok \in BOOLEAN : Answer(f, ok)
    <2>1. task'[u].at = task[u].at
        BY <1>11 DEF Answer, Types, Records, Senders, Handlers
    <2> QED
        BY <2>1
<1>12. CASE (\E e \in Events : LateRow(e)) \/ Expire
    BY <1>1, <1>12 DEF LateRow, Expire
<1>13. CASE Crash
    BY <1>1, <1>13 DEF Crash, Done
<1>14. CASE UNCHANGED vars
    BY <1>1, <1>14 DEF vars, volatile
<1> QED
    BY <1>7, <1>8, <1>9, <1>10, <1>11, <1>12, <1>13, <1>14 DEF Next

\* A task handles its event from its claim on.
Handling(t, e) == task[t].at \notin {"unborn", "done", "started"} /\ task[t].event = e

\* An event whose claim has not lapsed is handled by one task, which has it claimed.
Sole ==
    \A e \in Events \ lapsed : \A t \in Tasks : Handling(t, e) =>
        In(claims, e) /\ \A u \in Tasks : Handling(u, e) => u = t

\* Nobody comes to handle an event but by beginning.
LEMMA HandlingComes ==
    ASSUME Types, Queues, [Next]_vars, NEW u \in Tasks, NEW e, Handling(u, e)'
    PROVE  Handling(u, e) \/ (Begin(u) /\ task[u].event = e)
<1>1. Move(u)
    BY TypesStep DEF AllMove
<1>2. CASE task'[u] = task[u]
    BY <1>2 DEF Handling
<1>3. CASE task'[u] = Done \/ (task'[u] \in Handlers /\ task'[u].at = "started")
    BY <1>3 DEF Handling, Done
<1>4. CASE Advances(u)
    <2>1. CASE task[u].at = "started"
        <3>1. task'[u].at = "checking" /\ task'[u].event = task[u].event
            BY <1>4, <2>1 DEF Advances, Course
        <3> QED
            BY <2>1, <3>1, BeginsAre DEF Handling
    <2>2. CASE task[u].at # "started"
        BY <1>4, <2>2 DEF Advances, Course, Handling
    <2> QED
        BY <2>1, <2>2
<1>5. CASE Registers(u)
    BY <1>5 DEF Registers, Handling
<1>6. CASE GoesOn(u)
    BY <1>6 DEF GoesOn, Senders, Sending, Handling
<1> QED
    BY <1>1, <1>2, <1>3, <1>4, <1>5, <1>6 DEF Move

\* What a step leaves of the rows and of the histories.
LEMMA HistoryStep ==
    ASSUME Types, [Next]_vars
    PROVE  /\ lapsed \subseteq lapsed'
           /\ \A e \in Events : row[e] # "none" => row'[e] # "none"
           /\ \/ spoke' = spoke
              \/ \E t \in Tasks : task[t].at = "sending" /\ spoke' = spoke \cup {<<task[t].event, t>>}
<1>1. ASSUME UNCHANGED <<lapsed, row, spoke>>
      PROVE  /\ lapsed \subseteq lapsed'
             /\ \A e \in Events : row[e] # "none" => row'[e] # "none"
             /\ \/ spoke' = spoke
                \/ \E t \in Tasks : task[t].at = "sending" /\ spoke' = spoke \cup {<<task[t].event, t>>}
    BY <1>1
<1>2. CASE \E t \in Tasks : TaskStep(t)
    <2> PICK t \in Tasks : TaskStep(t)
        BY <1>2
    <2>1. CASE Begin(t)
        BY <2>1 DEF Begin
    <2>2. CASE CheckFails(t) \/ Dropped(t) \/ Admit(t) \/ Replay(t) \/ ProcessFails(t)
        BY <1>1, <2>2 DEF CheckFails, Dropped, Admit, Replay, ProcessFails
    <2>3. CASE Ask(t)
        BY <2>3 DEF Ask, Types
    <2>4. CASE Answered(t)
        BY <2>4 DEF Answered, Types
    <2>5. CASE Sent(t)
        BY <2>5 DEF Sent, Runs
    <2>6. CASE SendFails(t) \/ Resume(t) \/ TimeOut(t) \/ Cancelled(t)
        BY <1>1, <2>6 DEF SendFails, Resume, TimeOut, Cancelled
    <2> QED
        BY <2>1, <2>2, <2>3, <2>4, <2>5, <2>6 DEF TaskStep, Runs1, Runs2, Runs3
<1>3. CASE \E s \in Sockets : Attach(s) \/ HangUp(s) \/ Gathered(s) \/ Close(s)
    BY <1>1, <1>3 DEF Attach, HangUp, Gathered, Close
<1>4. CASE \E s \in Sockets, e \in Events : Deliver(s, e)
    BY <1>1, <1>4 DEF Deliver
<1>5. CASE \E f \in frames, ok \in BOOLEAN : Answer(f, ok)
    BY <1>1, <1>5 DEF Answer
<1>6. CASE \E e \in Events : LateRow(e)
    BY <1>6 DEF LateRow, Types
<1>7. CASE Expire
    BY <1>7 DEF Expire
<1>8. CASE Crash
    BY <1>1, <1>8 DEF Crash
<1>9. CASE UNCHANGED vars
    BY <1>1, <1>9 DEF vars, volatile
<1> QED
    BY <1>2, <1>3, <1>4, <1>5, <1>6, <1>7, <1>8, <1>9 DEF Next

\* What is left of a queue of claims without its oldest.
LEMMA TailKeeps ==
    ASSUME NEW S, NEW s \in Seq(S), s # <<>>, NEW x, x # Head(s), In(s, x)
    PROVE  In(Tail(s), x)
<1> PICK i \in 1..Len(s) : s[i] = x
    BY DEF In
<1>1. i - 1 \in 1..Len(Tail(s)) /\ Tail(s)[i-1] = x
    BY HeadTailProperties
<1> QED
    BY <1>1 DEF In

\* Every step keeps an event to the task that claimed it.
LEMMA SoleStep == Types /\ Queues /\ Sole /\ [Next]_vars => Sole'
<1> SUFFICES ASSUME Types, Queues, Sole, [Next]_vars PROVE Sole'
    OBVIOUS
<1>1. lapsed \subseteq lapsed'
    BY HistoryStep
<1>2. ASSUME \A u \in Tasks, e \in Events : Handling(u, e)' => Handling(u, e),
             \A u \in Tasks, e \in Events \ lapsed' :
                 Handling(u, e) /\ Handling(u, e)' /\ In(claims, e) => In(claims, e)'
      PROVE  Sole'
    BY <1>1, <1>2 DEF Sole
<1>3. CASE \E t \in Tasks : Begin(t)
    <2> PICK t \in Tasks : Begin(t)
        BY <1>3
    <2> DEFINE e == task[t].event
               longer == Append(claims, e)
    <2>1. e \in Events /\ task[t].at = "started"
        BY <1>3, RecordIs DEF Begin, Runs
    <2> HIDE DEF e
    <2>2. CASE task' = End(t)
        <3>1. claims' = claims
            BY <2>1, <2>2 DEF Begin, End, Done, Types
        <3>2. \A u \in Tasks, d \in Events : Handling(u, d)' => Handling(u, d)
            BY <2>2 DEF End, Done, Handling, Types
        <3> QED
            BY <1>2, <3>1, <3>2
    <2>3. CASE task' # End(t)
        <3>1. /\ MayClaim(e) /\ task' = [task EXCEPT ![t].at = "checking"]
              /\ \/ /\ Len(longer) > MaxClaims /\ claims' = Tail(longer)
                    /\ Handled(Head(longer)) => Head(longer) \in lapsed'
                 \/ claims' = longer
            BY <2>3 DEF Begin, e
        <3>2. ASSUME NEW u \in Tasks PROVE ~Handling(u, e) \/ e \in lapsed
            BY <2>1, <3>1 DEF Sole, MayClaim, Claimed, In
        <3>3. \A u \in Tasks, d \in Events : Handling(u, d)' => Handling(u, d) \/ (u = t /\ d = e)
            BY <2>1, <3>1, RecordIs DEF Handling, Types, Handlers, Stages, e
        <3>4. /\ longer \in Seq(Events) /\ Len(longer) = Len(claims) + 1 /\ Len(claims) \in Nat
              /\ longer[Len(longer)] = e
              /\ \A i \in 1..Len(claims) : longer[i] = claims[i]
            BY <2>1, AppendProperties DEF Types
        <3> HIDE DEF longer
        <3>5. ASSUME NEW d \in Events, In(longer, d), d \notin lapsed',
                     d = e \/ \E u \in Tasks : Handling(u, d)
              PROVE  In(claims, d)'
            <4>1. CASE claims' = longer
                BY <3>5, <4>1 DEF In
            <4>2. CASE claims' # longer
                <5>1. Len(longer) > MaxClaims /\ claims' = Tail(longer) /\ longer # <<>>
                    BY <3>1, <3>4, <4>2
                <5>2. CASE d = e
                    <6>1. Len(longer) >= 2 /\ Len(longer) \in Nat
                        BY <3>4, <5>1, BoundsAre
                    <6>2. Len(longer) - 1 \in 1..Len(Tail(longer)) /\ Tail(longer)[Len(longer) - 1] = e
                        BY <3>4, <5>1, <6>1, HeadTailProperties
                    <6> QED
                        BY <5>1, <5>2, <6>2 DEF In
                <5>3. CASE \E u \in Tasks : Handling(u, d)
                    <6>1. Handled(d)
                        BY <5>3 DEF Handled, Handling, Alive
                    <6>2. d # Head(longer)
                        BY <3>1, <3>5, <4>2, <6>1
                    <6>3. In(Tail(longer), d)
                        BY <3>4, <3>5, <5>1, <6>2, TailKeeps
                    <6> QED
                        BY <5>1, <6>3 DEF In
                <5> QED
                    BY <3>5, <5>2, <5>3
            <4> QED
                BY <4>1, <4>2
        <3>6. ASSUME NEW d \in Events, In(claims, d) PROVE In(longer, d)
            BY <3>4, <3>6 DEF In
        <3>7. In(longer, e)
            BY <3>4 DEF In
        <3>8. ASSUME NEW d \in Events \ lapsed', NEW u \in Tasks, Handling(u, d)'
              PROVE  In(claims, d)' /\ \A v \in Tasks : Handling(v, d)' => v = u
            <4>1. CASE d = e
                <5>1. In(claims, d)'
                    BY <3>5, <3>7, <3>8, <4>1
                <5>2. \A v \in Tasks : Handling(v, d)' => v = t
                    BY <1>1, <3>2, <3>3, <3>8, <4>1
                <5> QED
                    BY <3>8, <5>1, <5>2
            <4>2. CASE d # e
                <5>1. Handling(u, d) /\ \A v \in Tasks : Handling(v, d)' => Handling(v, d)
                    BY <3>3, <3>8, <4>2
                <5>2. In(claims, d) /\ \A v \in Tasks : Handling(v, d) => v = u
                    BY <1>1, <3>8, <5>1 DEF Sole
                <5>3. In(claims, d)'
                    BY <3>5, <3>6, <3>8, <5>1, <5>2
                <5> QED
                    BY <5>1, <5>2, <5>3
            <4> QED
                BY <4>1, <4>2
        <3> QED
            BY <3>8 DEF Sole
    <2> QED
        BY <2>2, <2>3
<1>4. CASE \A t \in Tasks : ~Begin(t)
    <2>1. \A u \in Tasks, e \in Events : Handling(u, e)' => Handling(u, e)
        BY <1>4, HandlingComes
    <2>2. ASSUME claims' = claims PROVE Sole'
        BY <1>2, <2>1, <2>2
    <2>3. CASE \E t \in Tasks : TaskStep(t)
        <3> PICK t \in Tasks : TaskStep(t)
            BY <2>3
        <3>1. CASE CheckFails(t)
            <4> DEFINE e == task[t].event
            <4>1. claims' = RemoveFirst(claims, e) /\ task' = End(t) /\ task[t].at = "checking"
                BY <3>1 DEF CheckFails, Ends, Unclaim, Runs
            <4> HIDE DEF e
            <4>2. \A x : x # e => (In(claims', x) <=> In(claims, x))
                BY <4>1, RemovedIs DEF Types
            <4>3. Handling(t, e) /\ \A d \in Events : ~Handling(t, d)'
                BY <4>1 DEF Handling, e, End, Done, Types
            <4>4. ASSUME NEW u \in Tasks, NEW d \in Events \ lapsed',
                         Handling(u, d), Handling(u, d)', In(claims, d)
                  PROVE  In(claims', d)
                BY <1>1, <4>2, <4>3, <4>4 DEF Sole
            <4>5. \A d : In(claims, d)' <=> In(claims', d)
                BY DEF In
            <4> QED
                BY <1>2, <2>1, <4>4, <4>5
        <3>2. CASE Dropped(t) \/ Admit(t) \/ Runs2(t) \/ Runs3(t)
            BY <2>2, <3>2 DEF Dropped, Admit, Runs2, Ask, Replay, Answered, ProcessFails,
                              Runs3, Sent, SendFails, Resume, TimeOut, Cancelled
        <3> QED
            BY <1>4, <3>1, <3>2 DEF TaskStep, Runs1
    <2>4. CASE \E s \in Sockets : Attach(s) \/ HangUp(s) \/ Gathered(s) \/ Close(s)
        BY <2>2, <2>4 DEF Attach, HangUp, Gathered, Close
    <2>5. CASE \E s \in Sockets, e \in Events : Deliver(s, e)
        BY <2>2, <2>5 DEF Deliver
    <2>6. CASE \E f \in frames, ok \in BOOLEAN : Answer(f, ok)
        BY <2>2, <2>6 DEF Answer
    <2>7. CASE \E e \in Events : LateRow(e)
        BY <2>2, <2>7 DEF LateRow
    <2>8. CASE Expire
        <3>1. ASSUME NEW u \in Tasks, NEW d \in Events \ lapsed', Handling(u, d), In(claims, d)
              PROVE  In(claims, d)'
            <4>1. Handled(d)
                BY <3>1 DEF Handled, Handling, Alive
            <4>2. d # Head(claims) /\ claims # <<>> /\ claims' = Tail(claims)
                BY <2>8, <3>1, <4>1 DEF Expire
            <4>3. In(Tail(claims), d)
                BY <3>1, <4>2, TailKeeps DEF Types
            <4> QED
                BY <4>2, <4>3 DEF In
        <3> QED
            BY <1>2, <2>1, <3>1
    <2>9. CASE Crash
        BY <2>9 DEF Crash, Sole, Handling, Alive, Done
    <2>10. CASE UNCHANGED vars
        BY <2>2, <2>10 DEF vars, volatile
    <2> QED
        BY <2>3, <2>4, <2>5, <2>6, <2>7, <2>8, <2>9, <2>10 DEF Next
<1> QED
    BY <1>3, <1>4

-----------------------------------------------------------------------------
(* Replies                                                                 *)

\* Who may have sent a reply, or may yet send one.
Past == {"queued", "entering", "asking", "sending", "awaiting"}

\* A reply is to a stored message.  Beside one that is past the store's test
\* nobody else has replied, unless the claim went in between.
Spoken ==
    /\ spoke \subseteq Events \X Tasks
    /\ \A x \in spoke : row[x[1]] # "none"
    /\ \A t \in Tasks : task[t].at \in Sending => row[task[t].event] # "none"
    /\ \A t \in Tasks, x \in spoke :
           task[t].at \in Past /\ x[1] = task[t].event /\ x[1] \notin lapsed => x[2] = t
    /\ RepliedOnce

\* Every step keeps the account of the replies.
LEMMA SpokenStep == Types /\ Queues /\ Sole /\ Spoken /\ [Next]_vars => Spoken'
<1> SUFFICES ASSUME Types, Queues, Sole, Spoken, [Next]_vars PROVE Spoken'
    OBVIOUS
<1>1. Types' /\ \A t \in Tasks : Move(t)
    BY TypesStep DEF AllMove
<1>2. /\ lapsed \subseteq lapsed'
      /\ \A e \in Events : row[e] # "none" => row'[e] # "none"
    BY HistoryStep
<1>3. \/ spoke' = spoke
      \/ \E t \in Tasks : task[t].at = "sending" /\ spoke' = spoke \cup {<<task[t].event, t>>}
    BY HistoryStep
<1>4. ASSUME NEW x \in spoke', x \notin spoke
      PROVE  /\ x \in Events \X Tasks /\ task[x[2]].at = "sending" /\ x[1] = task[x[2]].event
             /\ row[x[1]] # "none" /\ Handling(x[2], x[1])
    <2> PICK t \in Tasks : task[t].at = "sending" /\ x = <<task[t].event, t>>
        BY <1>3, <1>4
    <2>1. task[t].event \in Events /\ row[task[t].event] # "none"
        BY RecordIs DEF Sending, Senders, Spoken
    <2> QED
        BY <2>1 DEF Handling
<1>5. spoke' \subseteq Events \X Tasks /\ \A x \in spoke' : row'[x[1]] # "none" /\ row[x[1]] # "none"
    <2>1. ASSUME NEW x \in spoke'
          PROVE  x \in Events \X Tasks /\ row[x[1]] # "none"
        BY <1>4 DEF Spoken
    <2> QED
        BY <1>2, <2>1
<1>6. ASSUME NEW t \in Tasks, task'[t].at \in Sending PROVE row'[task'[t].event] # "none"
    <2>1. CASE task'[t] = task[t]
        <3>1. task[t].event \in Events /\ row[task[t].event] # "none"
            BY <1>6, <2>1, RecordIs DEF Senders, Spoken
        <3> QED
            BY <1>2, <2>1, <3>1
    <2>2. CASE task'[t] = Done \/ (task'[t] \in Handlers /\ task'[t].at = "started") \/ Advances(t)
        BY <1>6, <2>2 DEF Done, Sending, Advances, Handlers, Stages
    <2>3. CASE Registers(t)
        <3>1. CASE task[t].at = "awaiting"
            <4>1. task[t].event \in Events /\ row[task[t].event] # "none"
                BY <3>1, RecordIs DEF Senders, Sending, Spoken
            <4> QED
                BY <1>2, <2>3, <4>1 DEF Registers
        <3>2. CASE task[t].at # "awaiting"
            BY <2>3, <3>2 DEF Registers
        <3> QED
            BY <3>1, <3>2
    <2>4. CASE GoesOn(t)
        <3>1. task[t].event \in Events /\ row[task[t].event] # "none"
            BY <2>4 DEF GoesOn, Senders, Spoken
        <3> QED
            BY <1>2, <2>4, <3>1 DEF GoesOn
    <2> QED
        BY <1>1, <2>1, <2>2, <2>3, <2>4 DEF Move
<1>7. ASSUME NEW t \in Tasks, task'[t].at \in Past
      PROVE  \/ task[t].at \in Past /\ task'[t].event = task[t].event
             \/ row[task'[t].event] = "none"
    <2>1. CASE task'[t] = task[t]
        BY <1>7, <2>1
    <2>2. CASE task'[t] = Done \/ (task'[t] \in Handlers /\ task'[t].at = "started")
        BY <1>7, <2>2 DEF Done, Past
    <2>3. CASE Advances(t)
        BY <1>7, <2>3 DEF Advances, Course, Past
    <2>4. CASE Registers(t)
        BY <2>4 DEF Registers, Past
    <2>5. CASE GoesOn(t)
        BY <2>5 DEF GoesOn, Senders, Sending, Past
    <2> QED
        BY <1>1, <2>1, <2>2, <2>3, <2>4, <2>5 DEF Move
<1>8. ASSUME NEW t \in Tasks, NEW x \in spoke',
             task[t].at \in Past, x[1] = task[t].event, x[1] \notin lapsed'
      PROVE  x[2] = t
    <2>1. CASE x \in spoke
        BY <1>2, <1>8, <2>1 DEF Spoken
    <2>2. CASE x \notin spoke
        <3>1. x[1] \in Events \ lapsed /\ x[2] \in Tasks /\ Handling(x[2], x[1])
            BY <1>2, <1>4, <1>8, <2>2
        <3>2. Handling(t, x[1])
            BY <1>8 DEF Handling, Past
        <3> QED
            BY <3>1, <3>2 DEF Sole
    <2> QED
        BY <2>1, <2>2
<1>9. ASSUME NEW t \in Tasks, NEW x \in spoke',
             task'[t].at \in Past, x[1] = task'[t].event, x[1] \notin lapsed'
      PROVE  x[2] = t
    BY <1>5, <1>7, <1>8, <1>9
<1>10. ASSUME NEW x \in spoke', NEW y \in spoke', x[1] = y[1], x[1] \notin lapsed', x \notin spoke
       PROVE  x = y
    <2>1. x \in Events \X Tasks /\ y \in Events \X Tasks /\ task[x[2]].at \in Past /\ x[1] = task[x[2]].event
        BY <1>4, <1>5, <1>10 DEF Past
    <2>2. y[2] = x[2]
        BY <1>8, <1>10, <2>1
    <2>3. x = <<x[1], x[2]>> /\ y = <<y[1], y[2]>>
        BY <2>1
    <2> QED
        BY <1>10, <2>2, <2>3
<1>11. RepliedOnce'
    <2>1. ASSUME NEW x \in spoke', NEW y \in spoke', x[1] = y[1], x[1] \notin lapsed' PROVE x = y
        <3>1. CASE x \in spoke /\ y \in spoke
            BY <1>2, <2>1, <3>1 DEF Spoken, RepliedOnce
        <3>2. CASE x \notin spoke \/ y \notin spoke
            BY <1>10, <2>1, <3>2
        <3> QED
            BY <3>1, <3>2
    <2> QED
        BY <2>1 DEF RepliedOnce
<1> QED
    BY <1>5, <1>6, <1>9, <1>11 DEF Spoken

-----------------------------------------------------------------------------
(* Theorems                                                                *)

\* The semaphore's queue and account, the actions of each task, the claims and
\* the replies, with the types of everything.
IInv == Types /\ Semaphore /\ Wires /\ Sole /\ Spoken

\* Nothing has happened yet.
LEMMA InitIInv == Init => IInv
<1> SUFFICES ASSUME Init PROVE IInv
    OBVIOUS
<1>1. Types
    BY BoundsAre DEF Init, Types, Records, Alive, Sending
<1>2. Semaphore
    <2>1. Holders = {}
        BY DEF Init, Holders, Holding
    <2>2. Cardinality(Holders) = 0
        BY <2>1, FS_EmptySet
    <2> QED
        BY <2>2, BoundsAre DEF Init, Semaphore, Queues, Distinct
<1>3. Wires
    BY DEF Init, Wires, Wired, AttachedIsServed, Sending
<1>4. Sole
    BY DEF Init, Sole, Handling
<1>5. Spoken
    BY DEF Init, Spoken, RepliedOnce, Sending
<1> QED
    BY <1>1, <1>2, <1>3, <1>4, <1>5 DEF IInv

\* Every step keeps it.
LEMMA NextIInv == IInv /\ [Next]_vars => IInv'
BY TypesStep, SemaphoreStep, WiresStep, SoleStep, SpokenStep DEF IInv, Semaphore

\* It holds of every state.
LEMMA Invariance == Spec => []IInv
<1>1. Init => IInv
    BY InitIInv
<1>2. IInv /\ [Next]_vars => IInv'
    BY NextIInv
<1> QED
    BY <1>1, <1>2, PTL DEF Spec

\* Two deliveries of one message never both reply, whatever is redelivered,
\* expires, is evicted, cancelled, timed out or crashes in between, unless the
\* claim goes while the message is still handled (claim, has_seen_message).
THEOREM RepliesTheorem == Spec => []RepliedOnce
<1>1. IInv => RepliedOnce
    BY DEF IInv, Spoken
<1> QED
    BY <1>1, Invariance, PTL

\* Sockets, registered actions, slots and tasks agree with each other: nobody
\* waits for an answer that cannot come, no action outlives its task, no slot
\* is lost or made, and the attached socket is one that will be detached
\* (send_action, detach, the semaphore, qq_websocket's finally).
THEOREM ConsistencyTheorem == Spec => []Consistent
<1>1. ASSUME IInv PROVE Consistent
    <2> USE <1>1 DEF IInv
    <2>1. SlotsKept
        <3>1. {t \in Alive : task[t].at \in Holding} = Holders
            BY DEF Alive, Holders, Holding
        <3> QED
            BY <3>1 DEF Semaphore, SlotsKept
    <2>2. slots \in 0 .. MaxConcurrency
        <3>1. Cardinality(Holders) \in Nat /\ slots \in Nat /\ slots + Cardinality(Holders) = MaxConcurrency
            BY HoldersAre DEF Types, Semaphore
        <3> QED
            BY <3>1, BoundsAre
    <2>3. ASSUME NEW t \in Tasks, task[t].at \in Sending
          PROVE  /\ task[t].via \in Sockets /\ task[t].chunk \in 1 .. task[t].of
                 /\ task[t].of \in 1 .. MaxChunks /\ task[t].future \in {"open", "ok", "bad", "lost"}
        <3>1. task[t] \in Senders /\ task[t].chunk <= task[t].of
            BY <2>3, RecordIs DEF Types
        <3> QED
            BY <3>1, BoundsAre DEF Senders
    <2>4. \A t \in Alive : task[t].event \in Events /\ task[t].from \in Sockets
        BY RecordIs DEF Alive
    <2>5. TypeOK
        BY <2>2, <2>3, <2>4 DEF TypeOK, Types
    <2> QED
        BY <2>1, <2>5, WiresAre DEF Wires, Consistent
<1> QED
    BY <1>1, Invariance, PTL

\* A socket that ends or fails drops no connection but itself, even when
\* another took its place meanwhile (detach).
THEOREM DropsTheorem == Spec => DropsOnlyItself
<1>1. ASSUME IInv, [Next]_vars, NEW s \in Sockets, current = s, current' # s
      PROVE  sock'[s] # "open" \/ s \in severed'
    <2>1. sock[s] = "open" /\ s # NoSocket
        BY <1>1, BoundsAre DEF IInv, Wires, AttachedIsServed
    <2>2. CASE \E x \in Sockets : Attach(x) \/ Gathered(x)
        BY <1>1, <2>1, <2>2 DEF Attach, Gathered
    <2>3. CASE \E x \in Sockets : HangUp(x)
        BY <1>1, <2>3 DEF HangUp, Detach, Attached, IInv, Types
    <2>4. CASE \E x \in Sockets : Close(x)
        BY <1>1, <2>4 DEF Close
    <2>5. CASE \E x \in Sockets, e \in Events : Deliver(x, e)
        BY <1>1, <2>5 DEF Deliver
    <2>6. CASE \E f \in frames, ok \in BOOLEAN : Answer(f, ok)
        BY <1>1, <2>6 DEF Answer
    <2>7. CASE \E t \in Tasks : TaskStep(t)
        <3> PICK t \in Tasks : TaskStep(t)
            BY <2>7
        <3>1. CASE SendFails(t)
            BY <1>1, <3>1 DEF SendFails, Detach, Attached
        <3>2. CASE Runs1(t) \/ Runs2(t)
            BY <1>1, <3>2 DEF Runs1, Begin, CheckFails, Dropped, Admit,
                              Runs2, Ask, Replay, Answered, ProcessFails
        <3>3. CASE Sent(t) \/ Resume(t) \/ TimeOut(t) \/ Cancelled(t)
            BY <1>1, <3>3 DEF Sent, Resume, TimeOut, Cancelled
        <3> QED
            BY <3>1, <3>2, <3>3 DEF TaskStep, Runs3
    <2>8. CASE (\E e \in Events : LateRow(e)) \/ Expire
        BY <1>1, <2>8 DEF LateRow, Expire
    <2>9. CASE Crash
        BY <2>1, <2>9 DEF Crash
    <2>10. CASE UNCHANGED vars
        BY <1>1, <2>10 DEF vars, volatile
    <2> QED
        BY <1>1, <2>2, <2>3, <2>4, <2>5, <2>6, <2>7, <2>8, <2>9, <2>10 DEF Next
<1>2. IInv /\ [Next]_vars =>
          [\A s \in Sockets : current = s /\ current' # s => sock'[s] # "open" \/ s \in severed']_vars
    BY <1>1
<1> QED
    BY <1>2, Invariance, PTL DEF Spec, DropsOnlyItself
=============================================================================
