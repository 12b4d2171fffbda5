--------------------------- MODULE SettingsAccess ---------------------------
(***************************************************************************)
(* SettingsService of backend/settings/service.py with SettingsAuthService *)
(* of auth.py: the password is set up once, logins are limited per client  *)
(* address, and a browser with a session replaces the settings it has      *)
(* read.  Requests run in threads.  _LIFECYCLE_LOCK covers a set-up and a  *)
(* save; a login takes only the lock of SettingsAuthService, and not while *)
(* it computes scrypt.  A save is one step here: SettingsTransaction shows *)
(* why it may be, and that it may raise although it took effect.           *)
(***************************************************************************)
EXTENDS Naturals, Sequences, SequencesExt, FiniteSets

CONSTANTS
    Browsers,       \* each makes one request at a time and keeps one cookie
    Clients,        \* the addresses requests come from
    Passwords, NoPassword,
    Bodies,         \* the settings but for the password
    MaxFailures,    \* _MAX_FAILURES_PER_WINDOW
    MaxClients,     \* _MAX_FAILURE_CLIENTS
    MaxSessions,    \* _MAX_ACTIVE_SESSIONS
    Window,         \* _FAILURE_WINDOW_SECONDS
    Lifetime,       \* _SESSION_LIFETIME_SECONDS
    MaxTime,        \* bound on the clock
    MaxTokens       \* bound on the sessions ever opened

Nobody == "nobody"

ASSUME AccessAssumption ==
    /\ NoPassword \notin Passwords
    /\ Nobody \notin Browsers \cup Clients
    /\ {MaxFailures, MaxClients, MaxSessions, Window, Lifetime} \subseteq Nat \ {0}
    /\ {MaxTime, MaxTokens} \subseteq Nat

VARIABLES
    stored,      \* the settings file: [password, body]
    lifecycle,   \* who holds _LIFECYCLE_LOCK
    failures,    \* _login_failures: when the logins of each client failed
    reserved,    \* _login_reservations
    sessions,    \* _sessions: [token, expires]
    now, minted, \* the clock; tokens made
    pc, typed,   \* where each browser's request stands; the password it carries
    from,        \* the address a login comes from
    record,      \* the password a login has loaded
    cookie,      \* the token each browser was given, 0 for none
    seen,        \* the settings each browser has read (their revision is their hash)
    told,        \* what the last set-up answered
    guesses      \* history: when each client's logins began to be verified

authVars == <<failures, reserved, sessions, minted>>
browserVars == <<pc, typed, from, record, cookie, seen, told>>
vars == <<stored, lifecycle, authVars, now, browserVars, guesses>>

Init ==
    /\ stored \in [password : {NoPassword}, body : Bodies]
    /\ lifecycle = Nobody
    /\ failures = [a \in Clients |-> <<>>] /\ reserved = [a \in Clients |-> 0]
    /\ sessions = {} /\ minted = 0 /\ now = 0
    /\ pc = [b \in Browsers |-> "idle"] /\ typed = [b \in Browsers |-> NoPassword] /\ record = typed
    /\ cookie = [b \in Browsers |-> 0] /\ seen = [b \in Browsers |-> stored]
    /\ told = "nothing" /\ from = [b \in Browsers |-> Nobody]
    /\ guesses = [a \in Clients |-> <<>>]

\* The times popleft() leaves: it stops at the first that is in the window.
Fresh(times) == {i \in DOMAIN times : times[i] + Window > now}
Within(times) == IF Fresh(times) = {} THEN <<>> ELSE SubSeq(times, Min(Fresh(times)), Len(times))

\* A request is over; the password is not kept.
Done(b) == pc' = [pc EXCEPT ![b] = "idle"] /\ typed' = [typed EXCEPT ![b] = NoPassword]
                                           /\ from' = [from EXCEPT ![b] = Nobody]
                                           /\ record' = [record EXCEPT ![b] = NoPassword]
At(b, p) == pc[b] = p
Goes(b, p) == pc' = [pc EXCEPT ![b] = p] /\ UNCHANGED <<typed, from, record>>

-----------------------------------------------------------------------------
(* SettingsAuthService                                                     *)

\* _prune_login_failures()
Pruned == [a \in Clients |-> Within(failures[a])]

\* Variant: verifications under way are not counted.
MayVerifyAlone(a) == Len(Pruned[a]) < MaxFailures

Active == {a \in Clients : Pruned[a] # <<>> \/ reserved[a] > 0}

\* _reserve_login_verification()
MayVerify(a) ==
    /\ Len(Pruned[a]) + reserved[a] < MaxFailures
    /\ a \in Active \/ Cardinality(Active) < MaxClients

Live == {s \in sessions : now < s.expires}

\* _create_session_locked() for browser b; no token may also be made.
OpensSession(b) ==
    /\ Cardinality(Live) < MaxSessions /\ minted < MaxTokens
    /\ minted' = minted + 1
    /\ sessions' = Live \cup {[token |-> minted + 1, expires |-> now + Lifetime]}
    /\ cookie' = [cookie EXCEPT ![b] = minted + 1]
NoSession(b) == sessions' = Live /\ UNCHANGED <<minted, cookie>>

HasSession(b) == \E s \in Live : s.token = cookie[b]

\* get_session() drops what has expired.
Looked(b) == sessions' = sessions \ {s \in sessions \ Live : s.token = cookie[b]}

-----------------------------------------------------------------------------
(* login()                                                                 *)

LoadRecord(b) ==
    /\ At(b, "login")
    /\ IF stored.password = NoPassword THEN Done(b)
       ELSE /\ pc' = [pc EXCEPT ![b] = "reserve"] /\ UNCHANGED <<typed, from>>
            /\ record' = [record EXCEPT ![b] = stored.password]
    /\ UNCHANGED <<stored, lifecycle, authVars, now, cookie, seen, told, guesses>>

Reserve(b) ==
    /\ At(b, "reserve") /\ failures' = Pruned
    /\ LET a == from[b] IN
       \/ /\ MayVerify(a) /\ Goes(b, "verify")
          /\ reserved' = [reserved EXCEPT ![a] = @ + 1]
          /\ guesses' = [guesses EXCEPT ![a] = Append(Within(@), now)]
       \/ ~MayVerify(a) /\ Done(b) /\ UNCHANGED <<reserved, guesses>>
    /\ UNCHANGED <<stored, lifecycle, sessions, minted, now, cookie, seen, told>>

Settle(b) ==
    /\ At(b, "verify") /\ Done(b)
    /\ LET a == from[b] IN
       /\ reserved' = [reserved EXCEPT ![a] = @ - 1]
       /\ \/ /\ typed[b] # record[b]
             /\ failures' = [Pruned EXCEPT ![a] = Append(@, now)]
             /\ UNCHANGED <<sessions, minted, cookie, guesses>>
          \/ /\ typed[b] = record[b]
             /\ failures' = [Pruned EXCEPT ![a] = <<>>]
             /\ guesses' = [guesses EXCEPT ![a] = <<>>]
             /\ OpensSession(b) \/ NoSession(b)
    /\ UNCHANGED <<stored, lifecycle, now, seen, told>>

-----------------------------------------------------------------------------
(* setup(), under _LIFECYCLE_LOCK                                          *)

Released == lifecycle' = Nobody
Answers(b, what) == told' = what /\ Done(b) /\ Released

\* Variant: a set-up does not look whether another came first.
AlwaysUninitialised == TRUE

Uninitialised == stored.password = NoPassword

Setup(b) ==
    /\ At(b, "setup") /\ lifecycle = Nobody
    /\ \/ Uninitialised /\ lifecycle' = b /\ Goes(b, "save") /\ UNCHANGED told
       \/ ~Uninitialised /\ Answers(b, "already")
    /\ UNCHANGED <<stored, authVars, now, cookie, seen, guesses>>

\* The transaction saves, or raises with or without having saved.
SavePassword(b) ==
    /\ At(b, "save")
    /\ stored' \in {stored, [stored EXCEPT !.password = typed[b]]}
    /\ \/ stored'.password = typed[b] /\ Goes(b, "open") /\ UNCHANGED <<told, lifecycle>>
       \/ Answers(b, "not saved")
    /\ UNCHANGED <<authVars, now, cookie, seen, guesses>>

Open(b) ==
    /\ At(b, "open")
    /\ \/ OpensSession(b) /\ Answers(b, "set up")
       \/ NoSession(b) /\ Goes(b, "roll back") /\ UNCHANGED <<told, lifecycle>>
    /\ UNCHANGED <<stored, failures, reserved, now, seen, guesses>>

\* Variant: a roll-back that raises is not told from one that worked.
RollBackSilently(b) ==
    /\ At(b, "roll back")
    /\ stored' \in {stored, [stored EXCEPT !.password = NoPassword]}
    /\ Answers(b, "undone")
    /\ UNCHANGED <<authVars, now, cookie, seen, guesses>>

RollBack(b) ==
    /\ At(b, "roll back")
    /\ stored' \in {stored, [stored EXCEPT !.password = NoPassword]}
    /\ \/ stored'.password = NoPassword /\ Answers(b, "undone")
       \/ Answers(b, "uncertain")
    /\ UNCHANGED <<authVars, now, cookie, seen, guesses>>

-----------------------------------------------------------------------------
(* What a browser may request.                                             *)

Login(b, a) ==
    /\ At(b, "idle")
    /\ \E word \in Passwords : typed' = [typed EXCEPT ![b] = word]
    /\ pc' = [pc EXCEPT ![b] = "login"] /\ from' = [from EXCEPT ![b] = a]
    /\ UNCHANGED <<stored, lifecycle, authVars, now, record, cookie, seen, told, guesses>>

SetUp(b) ==
    /\ At(b, "idle")
    /\ \E word \in Passwords : typed' = [typed EXCEPT ![b] = word]
    /\ pc' = [pc EXCEPT ![b] = "setup"] /\ told' = "nothing"
    /\ UNCHANGED <<stored, lifecycle, authVars, now, from, record, cookie, seen, guesses>>

\* GET /session, which revokes what no password stands behind.
GetSession(b) ==
    /\ At(b, "idle")
    /\ sessions' = IF Uninitialised THEN {s \in sessions : s.token # cookie[b]}
                   ELSE sessions \ {s \in sessions \ Live : s.token = cookie[b]}
    /\ UNCHANGED <<stored, lifecycle, failures, reserved, minted, now, browserVars, guesses>>

\* GET /config
GetConfig(b) ==
    /\ At(b, "idle") /\ Looked(b)
    /\ \/ /\ HasSession(b) /\ lifecycle = Nobody
          /\ seen' = [seen EXCEPT ![b] = stored]
       \/ ~HasSession(b) /\ UNCHANGED seen
    /\ UNCHANGED <<stored, lifecycle, failures, reserved, minted, now, pc, typed, from, record, cookie, told, guesses>>

\* PUT /config: authorised now, saved when the lock is free.
PutConfig(b) ==
    /\ At(b, "idle") /\ Looked(b)
    /\ IF HasSession(b) THEN Goes(b, "put") ELSE Done(b)
    /\ UNCHANGED <<stored, lifecycle, failures, reserved, minted, now, cookie, seen, told, guesses>>

UpToDate(b) == seen[b] = stored

\* _save_locked(); the answer carries what was saved.
SaveConfig(b) ==
    /\ At(b, "put") /\ lifecycle = Nobody /\ Done(b)
    /\ \/ /\ UpToDate(b)
          /\ \E body \in Bodies :
                /\ stored' \in {stored, [stored EXCEPT !.body = body]}
                /\ \/ stored'.body = body /\ seen' = [seen EXCEPT ![b] = stored']
                   \/ UNCHANGED seen
       \/ ~UpToDate(b) /\ UNCHANGED <<stored, seen>>
    /\ UNCHANGED <<lifecycle, authVars, now, cookie, told, guesses>>

\* POST /test/llm and /test/qq: authorised now, prepared when the lock is free.
PostTest(b) ==
    /\ At(b, "idle") /\ Looked(b)
    /\ IF HasSession(b) THEN Goes(b, "prepare") ELSE Done(b)
    /\ UNCHANGED <<stored, lifecycle, failures, reserved, minted, now, cookie, seen, told, guesses>>

\* _resolve_probe_secret(): the secret a test may go on with, by what it asks
\* to do with the secret.  There may be none, or no key chain to read it from.
ProbeSecret(operation) ==
    {"none"} \cup CASE operation = "retain" -> {"stored secret"}
                    [] operation = "replace" -> {"own secret"}
                    [] operation = "delete" -> {}

\* _prepare_llm_probe() and _prepare_qq_probe()
PrepareTest(b) ==
    /\ At(b, "prepare") /\ lifecycle = Nobody
    /\ \E operation \in {"retain", "replace", "delete"} : \E secret \in ProbeSecret(operation) :
          \/ UpToDate(b) /\ secret # "none" /\ Goes(b, secret)
          \/ (UpToDate(b) => secret = "none") /\ Done(b)
    /\ UNCHANGED <<stored, lifecycle, authVars, now, cookie, seen, told, guesses>>

\* The gateway answered, refused or did not answer in time; no lock is held.
Tested(b) ==
    /\ pc[b] \in {"stored secret", "own secret"} /\ Done(b)
    /\ UNCHANGED <<stored, lifecycle, authVars, now, cookie, seen, told, guesses>>

Logout(b) ==
    /\ At(b, "idle") /\ HasSession(b)
    /\ sessions' = {s \in sessions : s.token # cookie[b]}
    /\ cookie' = [cookie EXCEPT ![b] = 0]
    /\ UNCHANGED <<stored, lifecycle, failures, reserved, minted, now, pc, typed, from, record, seen, told, guesses>>

Tick == now < MaxTime /\ now' = now + 1
        /\ UNCHANGED <<stored, lifecycle, authVars, browserVars, guesses>>

\* What is in memory is lost, browsers keep their cookies.
Restart ==
    /\ lifecycle' = Nobody
    /\ failures' = [a \in Clients |-> <<>>] /\ reserved' = [a \in Clients |-> 0] /\ sessions' = {}
    /\ guesses' = failures'
    /\ pc' = [b \in Browsers |-> "idle"] /\ typed' = [b \in Browsers |-> NoPassword] /\ record' = typed'
    /\ from' = [b \in Browsers |-> Nobody]
    /\ told' = "nothing"
    /\ UNCHANGED <<stored, minted, now, cookie, seen>>

Step(b) == LoadRecord(b) \/ Reserve(b) \/ Settle(b) \/ Setup(b) \/ SavePassword(b) \/ Open(b) \/ RollBack(b)
           \/ SaveConfig(b) \/ PrepareTest(b) \/ Tested(b)

Next ==
    \/ \E b \in Browsers :
          \/ Step(b) \/ SetUp(b) \/ \E a \in Clients : Login(b, a)
          \/ GetSession(b) \/ GetConfig(b) \/ PutConfig(b) \/ PostTest(b) \/ Logout(b)
    \/ Tick \/ Restart

Spec == Init /\ [][Next]_vars

-----------------------------------------------------------------------------
Settings == [password : Passwords \cup {NoPassword}, body : Bodies]
Times == Seq(0..MaxTime)

TypeOK ==
    /\ stored \in Settings /\ lifecycle \in Browsers \cup {Nobody}
    /\ failures \in [Clients -> Times] /\ reserved \in [Clients -> 0..MaxFailures]
    /\ sessions \subseteq [token : 1..MaxTokens, expires : 0..MaxTime + Lifetime]
    /\ now \in 0..MaxTime /\ minted \in 0..MaxTokens
    /\ pc \in [Browsers -> {"idle", "login", "reserve", "verify", "setup", "save", "open", "roll back", "put",
                       "prepare", "stored secret", "own secret"}]
    /\ typed \in [Browsers -> Passwords \cup {NoPassword}] /\ record \in [Browsers -> Passwords \cup {NoPassword}]
    /\ cookie \in [Browsers -> 0..MaxTokens] /\ seen \in [Browsers -> Settings]
    /\ told \in {"nothing", "already", "not saved", "set up", "undone", "uncertain"}
    /\ from \in [Browsers -> Clients \cup {Nobody}]
    /\ guesses \in [Clients -> Times]

\* However many logins of a client run at once and however long each takes to
\* verify, no window of time sees more passwords tried from one address than
\* the limit allows, until one of them was right.
GuessesBounded == \A a \in Clients : Cardinality(Fresh(guesses[a])) <= MaxFailures

\* The clients the limiter remembers are bounded, and so are the sessions,
\* those that nobody asks for again included.
TablesBounded ==
    /\ Cardinality({a \in Clients : failures[a] # <<>> \/ reserved[a] > 0}) <= MaxClients
    /\ Cardinality(sessions) <= MaxSessions

\* What a client can make the login try or keep is bounded.
Bounded == TypeOK /\ GuessesBounded /\ TablesBounded

\* "Once a password exists, set-up is refused for ever" (docs/superpowers/specs/
\* 2026-08-01-web-settings-interface-design.md:276): a password is never
\* replaced, and goes only with the set-up that stored it, when it cannot open
\* its session.
PasswordStands ==
    [][stored'.password # stored.password =>
         IF stored.password = NoPassword THEN \E b \in Browsers : pc[b] = "save" /\ lifecycle = b
         ELSE /\ stored'.password = NoPassword
              /\ \E b \in Browsers : pc[b] = "roll back" /\ typed[b] = stored.password]_vars

\* A set-up says what became of it: undone, it has left no password behind,
\* and done, its browser has a live session under the password it chose.
SetupIsTruthful ==
    [][\A b \in Browsers : lifecycle = b /\ lifecycle' = Nobody =>
          /\ told' = "undone" => stored'.password = NoPassword
          /\ told' = "set up" => stored'.password = typed[b] /\ HasSession(b)']_vars

=============================================================================
