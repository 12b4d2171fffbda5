-------------------------- MODULE ConfirmationQueue --------------------------
(***************************************************************************)
(* The confirmations as the desktop app shows them: a queue of cards that  *)
(* messages of the WebSocket and the list asked for at every connection    *)
(* fill, and that the user's decisions and other messages empty.           *)
(*                                                                         *)
(* The backend is modelled from what it stores, answers and publishes; the *)
(* tool service behind it is ToolExecution's subject.  A publication is    *)
(* sent some time after the change it reports, in no fixed order; a socket *)
(* keeps the order of what was sent on it and loses what is on it when it  *)
(* closes; an HTTP answer takes its own time.                              *)
(***************************************************************************)
EXTENDS Naturals, Sequences, FiniteSets, SequencesExt

CONSTANTS
    Cards,           \* confirmation ids
    NoCard,
    MaxConnections,  \* times the socket opens, and so lists that are asked for
    MaxClicks        \* decisions the user submits

ASSUME QueueAssumption ==
    /\ NoCard \notin Cards
    /\ MaxConnections \in Nat \ {0} /\ MaxClicks \in Nat

VARIABLES
    conf,        \* the stored confirmation: none, pending, closed
    unsent,      \* publications not broadcast yet
    online,      \* the socket is open
    wire,        \* messages on it, oldest first
    lists,       \* per connection, the request for the pending confirmations
    queue,       \* tool-confirmation.js: the cards
    shown,       \* what the view shows: a card, nothing, or that it cannot tell
    submitting,  \* the card whose decision is on its way
    reply,       \* what the backend made of it: none, done, failed
    clicks,
    blind        \* history: a list that was asked for never came

backend == <<conf, unsent>>
socket == <<online, wire, lists>>
view == <<queue, shown>>
queueVars == <<backend, socket, view, submitting, reply, clicks, blind>>

Lists == 1 .. MaxConnections
NotAsked == [at |-> "new"]
Pending == {c \in Cards : conf[c] = "pending"}
InQueue(c) == \E i \in DOMAIN queue : queue[i] = c

QueueInit ==
    /\ conf = [c \in Cards |-> "none"] /\ unsent = {}
    /\ online = FALSE /\ wire = <<>> /\ lists = [l \in Lists |-> NotAsked]
    /\ queue = <<>> /\ shown = NoCard
    /\ submitting = NoCard /\ reply = "none" /\ clicks = 0 /\ blind = FALSE

-----------------------------------------------------------------------------
(* The backend.                                                            *)

\* A confirmation is stored, and announced afterwards.
Require(c) ==
    /\ conf[c] = "none" /\ conf' = [conf EXCEPT ![c] = "pending"]
    /\ unsent' = unsent \cup {[is |-> "required", card |-> c]}
    /\ UNCHANGED <<socket, view, submitting, reply, clicks, blind>>

\* It is cancelled, expires under its waiter or fails with its session.
Close(c) ==
    /\ conf[c] = "pending" /\ conf' = [conf EXCEPT ![c] = "closed"]
    /\ unsent' = unsent \cup {[is |-> "updated", card |-> c]}
    /\ UNCHANGED <<socket, view, submitting, reply, clicks, blind>>

\* broadcast_tool_event
Broadcast(m) ==
    /\ m \in unsent /\ unsent' = unsent \ {m}
    /\ wire' = IF online THEN Append(wire, m) ELSE wire
    /\ UNCHANGED <<conf, online, lists, view, submitting, reply, clicks, blind>>

\* The sequences that list every element of a set once.
Orders(S) == Bijection(1 .. Cardinality(S), S)

\* GET /tools/confirmations: what is overdue expires without a word, what is
\* pending is listed, oldest first.
List(l) ==
    /\ lists[l].at = "asked"
    /\ \E overdue \in SUBSET Pending :
          /\ conf' = [c \in Cards |-> IF c \in overdue THEN "closed" ELSE conf[c]]
          /\ \E cards \in Orders(Pending \ overdue) :
                lists' = [lists EXCEPT ![l] = [at |-> "answered", cards |-> cards]]
    /\ UNCHANGED <<unsent, online, wire, view, submitting, reply, clicks, blind>>

\* POST /tools/confirmations/{id}/decision: the first one counts and is
\* announced, any other one is answered with what is stored.
Decide ==
    /\ submitting # NoCard /\ reply = "none"
    /\ IF conf[submitting] = "pending"
       THEN /\ conf' = [conf EXCEPT ![submitting] = "closed"]
            /\ unsent' = unsent \cup {[is |-> "updated", card |-> submitting]}
       ELSE UNCHANGED backend
    /\ reply' \in {"done", "failed"}
    /\ UNCHANGED <<socket, view, submitting, clicks, blind>>

\* The request or its answer is lost, or the backend refuses it.
DecideFails ==
    /\ submitting # NoCard /\ reply = "none" /\ reply' = "failed"
    /\ UNCHANGED <<backend, socket, view, submitting, clicks, blind>>

-----------------------------------------------------------------------------
(* tool-confirmation.js.                                                   *)

\* renderNextConfirmation
Render(q) == shown' = IF q = <<>> THEN NoCard ELSE Head(q)

\* enqueueConfirmation
Add(q, c) == IF \E i \in DOMAIN q : q[i] = c THEN q ELSE Append(q, c)

\* A list's cards, one after the other.
AddAll(q, cards) ==
    LET joined[i \in 0 .. Len(cards)] == IF i = 0 THEN q ELSE Add(joined[i - 1], cards[i])
    IN joined[Len(cards)]

\* Variant: the first card goes, whichever it is.
DropFirst(q, c) == IF q = <<>> THEN q ELSE Tail(q)
\* removeConfirmation
Drop(q, c) == RemoveFirst(q, c)

\* Variant: the pending confirmations are asked for once, at the start.
AskFirst(l) == IF l = 1 THEN [at |-> "asked"] ELSE [at |-> "read"]
\* restorePendingConfirmations, on every open
Ask(l) == [at |-> "asked"]

\* connectWebSocket succeeds
Open ==
    /\ ~online /\ online' = TRUE
    /\ \E l \in Lists :
          /\ lists[l] = NotAsked /\ \A k \in Lists : lists[k] = NotAsked => l <= k
          /\ lists' = [lists EXCEPT ![l] = Ask(l)]
    /\ UNCHANGED <<backend, wire, view, submitting, reply, clicks, blind>>

\* The socket closes, with what is on it.
Lose ==
    /\ online /\ online' = FALSE /\ wire' = <<>>
    /\ UNCHANGED <<backend, lists, view, submitting, reply, clicks, blind>>

\* onmessage
Receive ==
    /\ wire # <<>> /\ wire' = Tail(wire)
    /\ LET m == Head(wire) IN
       queue' = IF m.is = "required" THEN Add(queue, m.card) ELSE Drop(queue, m.card)
    /\ Render(queue')
    /\ UNCHANGED <<backend, online, lists, submitting, reply, clicks, blind>>

\* The list arrives; its cards join the queue.
Restore(l) ==
    /\ lists[l].at = "answered"
    /\ queue' = AddAll(queue, lists[l].cards)
    /\ Render(queue')
    /\ lists' = [lists EXCEPT ![l] = [at |-> "read"]]
    /\ UNCHANGED <<backend, online, wire, submitting, reply, clicks, blind>>

\* It does not: with no card to show, the view says so.
RestoreFails(l) ==
    /\ lists[l].at \in {"asked", "answered"}
    /\ shown' = IF queue = <<>> THEN "unknown" ELSE shown
    /\ lists' = [lists EXCEPT ![l] = [at |-> "read"]] /\ blind' = TRUE
    /\ UNCHANGED <<backend, online, wire, queue, submitting, reply, clicks>>

\* submitDecision, up to its await: the first card
Click ==
    /\ queue # <<>> /\ submitting = NoCard /\ clicks < MaxClicks
    /\ clicks' = clicks + 1
    /\ submitting' = Head(queue) /\ Render(queue)
    /\ UNCHANGED <<backend, socket, queue, reply, blind>>

\* submitDecision, after it: the card that was decided goes, or stays
Submitted ==
    /\ submitting # NoCard /\ reply # "none"
    /\ queue' = IF reply = "done" THEN Drop(queue, submitting) ELSE queue
    /\ Render(queue')
    /\ submitting' = NoCard /\ reply' = "none"
    /\ UNCHANGED <<backend, socket, clicks, blind>>

-----------------------------------------------------------------------------
QueueNext ==
    \/ \E c \in Cards : Require(c) \/ Close(c)
    \/ \E m \in unsent : Broadcast(m)
    \/ \E l \in Lists : List(l) \/ Restore(l) \/ RestoreFails(l)
    \/ Open \/ Lose \/ Receive \/ Decide \/ DecideFails \/ Click \/ Submitted

QueueSpec == QueueInit /\ [][QueueNext]_queueVars

-----------------------------------------------------------------------------
(* Properties.                                                             *)

Messages == [is : {"required", "updated"}, card : Cards]

QueueTypeOK ==
    /\ conf \in [Cards -> {"none", "pending", "closed"}]
    /\ unsent \subseteq Messages /\ wire \in Seq(Messages)
    /\ online \in BOOLEAN /\ blind \in BOOLEAN /\ clicks \in 0 .. MaxClicks
    /\ lists \in [Lists -> [at : {"new", "asked", "read"}]
                           \cup [at : {"answered"}, cards : Seq(Cards)]]
    /\ queue \in Seq(Cards) /\ IsInjective(queue)
    /\ shown \in Cards \cup {NoCard, "unknown"}
    /\ submitting \in Cards \cup {NoCard} /\ reply \in {"none", "done", "failed"}

\* All that was sent has arrived.
Quiet ==
    /\ online /\ unsent = {} /\ wire = <<>>
    /\ \A l \in Lists : lists[l].at \in {"new", "read"}

\* No pending confirmation stays hidden: once everything has arrived, each has
\* its card, whatever was lost while the socket was down and in whatever order
\* the list and the messages came.  A list that never arrived is the one excuse
\* (restorePendingConfirmations, enqueueConfirmation).
NothingHidden == Quiet /\ ~blind => \A c \in Pending : InQueue(c)

\* The queue has one card of each confirmation that is pending.
CardsAgree == QueueTypeOK /\ NothingHidden

\* A card leaves the queue only when its confirmation is no longer pending: a
\* decision that arrives after its card is gone takes no other card with it
\* (submitDecision, removeConfirmation).
DropsClosed == \A c \in Cards : InQueue(c) /\ ~InQueue(c)' => conf[c] = "closed"

\* The user decides on the card he sees: the first one, and it stays the first
\* while newer ones come in (renderNextConfirmation, enqueueConfirmation).
KeepsFirst ==
    queue # <<>> =>
        /\ shown = Head(queue)
        /\ (\E i \in DOMAIN queue' : queue'[i] = Head(queue)) => Head(queue') = Head(queue)

\* No step takes the card from under the user: cards go when they are settled,
\* and others wait behind the one that is shown.
QueueKeeps == [][DropsClosed /\ KeepsFirst]_queueVars
=============================================================================
