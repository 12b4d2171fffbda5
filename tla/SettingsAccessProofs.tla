------------------------ MODULE SettingsAccessProofs ------------------------
(***************************************************************************)
(* Theorems about SettingsAccess, for every set of browsers, clients,      *)
(* passwords and settings: who holds the lifecycle lock is the only one to *)
(* change the password, and what it read of it still stands; and what the  *)
(* login counts of its clients covers every password they may have tried.  *)
(***************************************************************************)
EXTENDS SettingsAccess, FiniteSetTheorems, WellFoundedInduction, TLAPS

\* Where a request may stand.
Places ==
    {"idle", "login", "reserve", "verify", "setup", "save", "open", "roll back", "put",
     "prepare", "stored secret", "own secret"}

\* The types the theorems rest on.
Typed ==
    /\ stored \in Settings /\ lifecycle \in Browsers \cup {Nobody}
    /\ now \in Nat /\ minted \in Nat
    /\ pc \in [Browsers -> Places]
    /\ typed \in [Browsers -> Passwords \cup {NoPassword}]
    /\ cookie \in [Browsers -> Nat] /\ seen \in [Browsers -> Settings]

\* A set-up under way holds the lock; before it saves there is no password, and
\* afterwards it is the one it chose.
SetupInv ==
    \A b \in Browsers :
       /\ pc[b] \in {"setup", "save", "open", "roll back"} => typed[b] \in Passwords
       /\ pc[b] \in {"save", "open", "roll back"} => lifecycle = b
       /\ pc[b] = "save" => stored.password = NoPassword
       /\ pc[b] \in {"open", "roll back"} => stored.password = typed[b]

\* What a step does to the places and passwords of browsers other than b: nothing.
OnlyOf(b) ==
    /\ \E p \in Places : pc' = [pc EXCEPT ![b] = p]
    /\ \E w \in Passwords \cup {NoPassword} : typed' = [typed EXCEPT ![b] = w]

\* Every step is of one browser, of the clock or of the service.
LEMMA EachStepIsOf ==
    ASSUME Typed, [Next]_vars
    PROVE  \/ \E b \in Browsers :
                \/ Step(b) \/ SetUp(b) \/ (\E a \in Clients : Login(b, a))
                \/ PutConfig(b) \/ PostTest(b)
           \/ Restart
           \/ UNCHANGED <<pc, typed, stored, lifecycle>>
<1>1. ASSUME NEW b \in Browsers, GetSession(b) \/ GetConfig(b) \/ Logout(b)
      PROVE  UNCHANGED <<pc, typed, stored, lifecycle>>
  BY <1>1 DEF GetSession, GetConfig, Logout, browserVars
<1>2. Tick => UNCHANGED <<pc, typed, stored, lifecycle>>
  BY DEF Tick, browserVars
<1>3. UNCHANGED vars => UNCHANGED <<pc, typed, stored, lifecycle>>
  BY DEF vars, browserVars
<1> QED
  BY <1>1, <1>2, <1>3 DEF Next

\* A request's own steps touch no other browser's place or password.
LEMMA StepsOfOne ==
    ASSUME Typed, NEW b \in Browsers,
           \/ Step(b) \/ SetUp(b) \/ (\E a \in Clients : Login(b, a))
           \/ PutConfig(b) \/ PostTest(b)
    PROVE  OnlyOf(b)
<1>0. typed = [typed EXCEPT ![b] = typed[b]] /\ typed[b] \in Passwords \cup {NoPassword}
  BY DEF Typed
<1>1. \A p \in Places : Goes(b, p) => OnlyOf(b)
  BY <1>0 DEF Goes, OnlyOf
<1>2. Done(b) => OnlyOf(b)
  BY DEF Done, OnlyOf, Places
<1>3. CASE LoadRecord(b)
  <2>1. Done(b) \/ (pc' = [pc EXCEPT ![b] = "reserve"] /\ typed' = typed)
    BY <1>3 DEF LoadRecord
  <2> QED
    BY <2>1, <1>0, <1>2 DEF OnlyOf, Places
<1>4. CASE Reserve(b) \/ Settle(b) \/ Setup(b) \/ SavePassword(b) \/ Open(b) \/ RollBack(b)
           \/ SaveConfig(b) \/ Tested(b) \/ PutConfig(b) \/ PostTest(b)
  <2>1. Done(b) \/ \E p \in Places : Goes(b, p)
    BY <1>4 DEF Reserve, Settle, Setup, SavePassword, Open, RollBack, SaveConfig, Tested, PutConfig,
       PostTest, Answers, Places
  <2> QED
    BY <2>1, <1>1, <1>2
<1>5. CASE PrepareTest(b)
  <2>1. Done(b) \/ \E p \in Places : Goes(b, p)
    <3>a. PICK operation \in {"retain", "replace", "delete"} : \E secret \in ProbeSecret(operation) :
            (secret # "none" /\ Goes(b, secret)) \/ Done(b)
      BY <1>5 DEF PrepareTest
    <3>1. PICK secret \in ProbeSecret(operation) : (secret # "none" /\ Goes(b, secret)) \/ Done(b)
      BY <3>a
    <3>2. secret \in {"none", "stored secret", "own secret"}
      BY DEF ProbeSecret
    <3> QED
      BY <3>1, <3>2 DEF Places
  <2> QED
    BY <2>1, <1>1, <1>2
<1>6. CASE SetUp(b) \/ \E a \in Clients : Login(b, a)
  BY <1>6 DEF SetUp, Login, OnlyOf, Places
<1> QED
  BY <1>3, <1>4, <1>5, <1>6 DEF Step

\* Only a save, a roll-back and a set-up's own save change the settings, each one
\* field of them.
LEMMA StoredSteps ==
    ASSUME Typed, [Next]_vars
    PROVE  \/ stored' = stored
           \/ \E b \in Browsers :
                \/ SavePassword(b) /\ stored' = [stored EXCEPT !.password = typed[b]]
                \/ RollBack(b) /\ stored' = [stored EXCEPT !.password = NoPassword]
                \/ /\ SaveConfig(b) /\ UpToDate(b)
                   /\ \E body \in Bodies : stored' = [stored EXCEPT !.body = body]
<1>1. ASSUME NEW b \in Browsers, Step(b) \/ SetUp(b) \/ (\E a \in Clients : Login(b, a)) \/ PutConfig(b) \/ PostTest(b)
      PROVE  \/ stored' = stored
             \/ SavePassword(b) /\ stored' = [stored EXCEPT !.password = typed[b]]
             \/ RollBack(b) /\ stored' = [stored EXCEPT !.password = NoPassword]
             \/ /\ SaveConfig(b) /\ UpToDate(b)
                /\ \E body \in Bodies : stored' = [stored EXCEPT !.body = body]
  <2>1. CASE SavePassword(b)
    BY <2>1 DEF SavePassword
  <2>2. CASE RollBack(b)
    BY <2>2 DEF RollBack
  <2>3. CASE SaveConfig(b)
    BY <2>3 DEF SaveConfig
  <2>4. CASE LoadRecord(b) \/ Reserve(b) \/ Settle(b) \/ Setup(b) \/ Open(b) \/ PrepareTest(b) \/ Tested(b)
             \/ SetUp(b) \/ (\E a \in Clients : Login(b, a)) \/ PutConfig(b) \/ PostTest(b)
    BY <2>4 DEF LoadRecord, Reserve, Settle, Setup, Open, PrepareTest, Tested, SetUp, Login, PutConfig, PostTest
  <2> QED
    BY <1>1, <2>1, <2>2, <2>3, <2>4 DEF Step
<1>2. Restart => stored' = stored
  BY DEF Restart
<1> QED
  BY <1>1, <1>2, EachStepIsOf

\* The types hold at the start.
LEMMA InitTyped == Init => Typed
<1> SUFFICES ASSUME Init PROVE Typed
  OBVIOUS
<1>1. stored \in Settings
  BY DEF Init, Settings
<1> QED
  BY <1>1 DEF Init, Typed, Places

\* And after every step.
LEMMA StepTyped == Typed /\ [Next]_vars => Typed'
<1> SUFFICES ASSUME Typed, [Next]_vars PROVE Typed'
  OBVIOUS
<1>1. (stored \in Settings)'
  BY StoredSteps DEF Typed, Settings
<1>2. (pc \in [Browsers -> Places] /\ typed \in [Browsers -> Passwords \cup {NoPassword}])'
  <2>1. ASSUME NEW b \in Browsers, OnlyOf(b)
        PROVE  (pc \in [Browsers -> Places] /\ typed \in [Browsers -> Passwords \cup {NoPassword}])'
    BY <2>1 DEF OnlyOf, Typed
  <2>2. CASE Restart
    BY <2>2 DEF Restart, Places
  <2> QED
    BY <2>1, <2>2, EachStepIsOf, StepsOfOne DEF Typed
<1>3. (lifecycle \in Browsers \cup {Nobody})'
  BY DEF Typed, Next, Step, LoadRecord, Reserve, Settle, Setup, SavePassword, Open, RollBack, Answers, Released,
     SaveConfig, PrepareTest, Tested, SetUp, Login, GetSession, GetConfig, PutConfig, PostTest, Logout, Tick,
     Restart, vars
<1>4. (now \in Nat)'
  <2>1. CASE Tick
    BY <2>1 DEF Tick, Typed
  <2>2. CASE now' = now
    BY <2>2 DEF Typed
  <2> QED
    BY <2>1, <2>2 DEF Next, Step, LoadRecord, Reserve, Settle, Setup, SavePassword, Open, RollBack,
       SaveConfig, PrepareTest, Tested, SetUp, Login, GetSession, GetConfig, PutConfig, PostTest, Logout,
       Restart, vars
<1>5. (minted \in Nat /\ cookie \in [Browsers -> Nat])'
  <2>1. ASSUME NEW b \in Browsers, OpensSession(b) PROVE minted' \in Nat /\ cookie' \in [Browsers -> Nat]
    BY <2>1 DEF OpensSession, Typed
  <2>2. ASSUME NEW b \in Browsers, NoSession(b) PROVE minted' \in Nat /\ cookie' \in [Browsers -> Nat]
    BY <2>2 DEF NoSession, Typed
  <2>3. ASSUME NEW b \in Browsers, Settle(b) \/ Open(b)
        PROVE  \/ OpensSession(b) \/ NoSession(b) \/ UNCHANGED <<minted, cookie>>
    BY <2>3 DEF Settle, Open
  <2>4. ASSUME NEW b \in Browsers, Logout(b) PROVE minted' \in Nat /\ cookie' \in [Browsers -> Nat]
    BY <2>4 DEF Logout, Typed
  <2>5. CASE UNCHANGED <<minted, cookie>>
    BY <2>5 DEF Typed
  <2> QED
    BY <2>1, <2>2, <2>3, <2>4, <2>5 DEF Next, Step, LoadRecord, Reserve, Setup, SavePassword, RollBack,
       SaveConfig, PrepareTest, Tested, SetUp, Login, GetSession, GetConfig, PutConfig, PostTest, Tick,
       Restart, vars, authVars, browserVars
<1>6. (seen \in [Browsers -> Settings])'
  <2>1. CASE \E b \in Browsers : GetConfig(b)
    BY <2>1 DEF GetConfig, Typed
  <2>2. CASE \E b \in Browsers : SaveConfig(b)
    <3>1. stored' \in Settings
      BY <1>1
    <3> QED
      BY <2>2, <3>1 DEF SaveConfig, Typed
  <2>3. CASE seen' = seen
    BY <2>3 DEF Typed
  <2> QED
    BY <2>1, <2>2, <2>3 DEF Next, Step, LoadRecord, Reserve, Settle, Setup, SavePassword, Open, RollBack,
       PrepareTest, Tested, SetUp, Login, GetSession, PutConfig, PostTest, Logout, Tick,
       Restart, vars, browserVars
<1> QED
  BY <1>1, <1>2, <1>3, <1>4, <1>5, <1>6 DEF Typed

\* Who holds the lock keeps what it read of the password.
LEMMA StepSetupInv == Typed /\ SetupInv /\ [Next]_vars => SetupInv'
<1> SUFFICES ASSUME Typed, SetupInv, [Next]_vars PROVE SetupInv'
  OBVIOUS
<1>1. CASE Restart
  BY <1>1 DEF Restart, SetupInv
<1>2. CASE UNCHANGED <<pc, typed, stored, lifecycle>>
  BY <1>2 DEF SetupInv
<1>3. ASSUME NEW b \in Browsers,
             \/ Step(b) \/ SetUp(b) \/ (\E a \in Clients : Login(b, a))
             \/ PutConfig(b) \/ PostTest(b)
      PROVE  SetupInv'
  <2>1. \A d \in Browsers : d # b => pc'[d] = pc[d] /\ typed'[d] = typed[d]
    BY <1>3, StepsOfOne DEF OnlyOf, Typed
  <2>2. Nobody \notin Browsers
    BY AccessAssumption
  <2> DEFINE Kept(d) ==
        /\ pc'[d] \in {"setup", "save", "open", "roll back"} => typed'[d] \in Passwords
        /\ pc'[d] \in {"save", "open", "roll back"} => lifecycle' = d
        /\ pc'[d] = "save" => stored'.password = NoPassword
        /\ pc'[d] \in {"open", "roll back"} => stored'.password = typed'[d]
  <2>3. ASSUME NEW d \in Browsers, d # b PROVE Kept(d)
    <3>1. CASE pc[d] \in {"save", "open", "roll back"}
      <4>1. lifecycle = d
        BY <3>1 DEF SetupInv
      <4>2. ~(pc[b] \in {"save", "open", "roll back"}) /\ lifecycle # Nobody
        BY <4>1, <2>2, <2>3 DEF SetupInv
      <4>3. lifecycle' = lifecycle /\ stored' = stored
        BY <1>3, <4>2 DEF Step, At, LoadRecord, Reserve, Settle, Setup, SavePassword, Open, RollBack, SaveConfig,
           PrepareTest, Tested, SetUp, Login, PutConfig, PostTest, authVars
      <4> QED
        BY <2>1, <2>3, <4>1, <4>3 DEF SetupInv
    <3>2. CASE pc[d] \notin {"save", "open", "roll back"}
      BY <3>2, <2>1, <2>3 DEF SetupInv
    <3> QED
      BY <3>1, <3>2
  <2>4. Kept(b)
    <3>1. ASSUME Done(b) PROVE Kept(b)
      <4> pc'[b] = "idle"
        BY <3>1 DEF Done, Typed
      <4> QED
        OBVIOUS
    <3>2. CASE Setup(b)
      <4>1. CASE Uninitialised /\ lifecycle' = b /\ Goes(b, "save")
        <5> pc'[b] = "save" /\ typed' = typed /\ stored' = stored /\ pc[b] = "setup"
          BY <3>2, <4>1 DEF Setup, Goes, Typed, At
        <5> QED
          BY <4>1 DEF SetupInv, Uninitialised
      <4>2. CASE Done(b)
        BY <4>2, <3>1
      <4> QED
        BY <3>2, <4>1, <4>2 DEF Setup, Answers
    <3>3. CASE SavePassword(b)
      <4>1. CASE stored'.password = typed[b] /\ Goes(b, "open") /\ UNCHANGED lifecycle
        <5> pc'[b] = "open" /\ typed' = typed /\ pc[b] = "save"
          BY <3>3, <4>1 DEF SavePassword, Goes, Typed, At
        <5> QED
          BY <4>1 DEF SetupInv
      <4>2. CASE Done(b)
        BY <4>2, <3>1
      <4> QED
        BY <3>3, <4>1, <4>2 DEF SavePassword, Answers
    <3>4. CASE Open(b)
      <4>1. CASE Goes(b, "roll back") /\ UNCHANGED lifecycle
        <5> pc'[b] = "roll back" /\ typed' = typed /\ pc[b] = "open" /\ stored' = stored
          BY <3>4, <4>1 DEF Open, Goes, Typed, At
        <5> QED
          BY <4>1 DEF SetupInv
      <4>2. CASE Done(b)
        BY <4>2, <3>1
      <4> QED
        BY <3>4, <4>1, <4>2 DEF Open, Answers
    <3>5. CASE RollBack(b)
      BY <3>5, <3>1 DEF RollBack, Answers
    <3>6. CASE SetUp(b)
      <4>1. pc'[b] = "setup" /\ typed'[b] \in Passwords
        BY <3>6 DEF SetUp, Typed
      <4> QED
        BY <4>1
    <3>7. CASE pc'[b] \in Places \ {"setup", "save", "open", "roll back"}
      BY <3>7
    <3>8. CASE LoadRecord(b) \/ Reserve(b) \/ Settle(b) \/ SaveConfig(b) \/ Tested(b) \/ PutConfig(b) \/ PostTest(b)
      <4>1. Done(b) \/ pc'[b] \in {"reserve", "verify", "put", "prepare"}
        BY <3>8 DEF LoadRecord, Reserve, Settle, SaveConfig, Tested, PutConfig, PostTest, Goes, Typed
      <4> QED
        BY <4>1, <3>1
    <3>9. CASE PrepareTest(b)
      <4>1. Done(b) \/ pc'[b] \in {"none", "stored secret", "own secret"}
        BY <3>9 DEF PrepareTest, ProbeSecret, Goes, Typed
      <4> QED
        BY <4>1, <3>1
    <3>10. CASE \E a \in Clients : Login(b, a)
      <4>1. pc'[b] = "login"
        BY <3>10 DEF Login, Typed
      <4> QED
        BY <4>1
    <3> QED
      BY <1>3, <3>2, <3>3, <3>4, <3>5, <3>6, <3>8, <3>9, <3>10 DEF Step
  <2>5. \A d \in Browsers : Kept(d)
    BY <2>3, <2>4
  <2> QED
    BY <2>5 DEF SetupInv
<1> QED
  BY <1>1, <1>2, <1>3, EachStepIsOf

\* The set-ups under way are in order throughout.
LEMMA SetupInvariant == Spec => [](Typed /\ SetupInv)
<1>1. Init => SetupInv
  BY DEF Init, SetupInv
<1> QED
  BY <1>1, InitTyped, StepTyped, StepSetupInv, PTL DEF Spec

-----------------------------------------------------------------------------
\* A password is set up once; only the set-up that stored it takes it back, and
\* nothing replaces it (setup, _save_locked).
THEOREM PasswordTheorem == Spec => PasswordStands
<1> DEFINE A == stored'.password # stored.password =>
         IF stored.password = NoPassword THEN \E b \in Browsers : pc[b] = "save" /\ lifecycle = b
         ELSE /\ stored'.password = NoPassword
              /\ \E b \in Browsers : pc[b] = "roll back" /\ typed[b] = stored.password
<1>1. Typed /\ SetupInv /\ [Next]_vars => [A]_vars
  <2> SUFFICES ASSUME Typed, SetupInv, [Next]_vars, stored'.password # stored.password PROVE A
    OBVIOUS
  <2>1. stored \in Settings
    BY DEF Typed
  <2>2. ASSUME NEW b \in Browsers, SavePassword(b) PROVE A
    BY <2>2 DEF SavePassword, At, SetupInv
  <2>3. ASSUME NEW b \in Browsers, RollBack(b), stored' = [stored EXCEPT !.password = NoPassword] PROVE A
    <3>1. pc[b] = "roll back" /\ stored.password = typed[b] /\ typed[b] \in Passwords
      BY <2>3 DEF RollBack, At, SetupInv
    <3>2. stored.password # NoPassword /\ stored'.password = NoPassword
      BY <3>1, <2>1, <2>3, AccessAssumption DEF Settings
    <3> QED
      BY <3>1, <3>2
  <2>4. ASSUME NEW body \in Bodies, stored' = [stored EXCEPT !.body = body] PROVE FALSE
    BY <2>1, <2>4 DEF Settings
  <2> QED
    BY <2>2, <2>3, <2>4, StoredSteps
<1> QED
  BY <1>1, SetupInvariant, PTL DEF Spec, PasswordStands

\* The answer to a set-up is true when the lock is let go (setup).
THEOREM SetupTheorem == Spec => SetupIsTruthful
<1> DEFINE A == \A b \in Browsers : lifecycle = b /\ lifecycle' = Nobody =>
          /\ told' = "undone" => stored'.password = NoPassword
          /\ told' = "set up" => stored'.password = typed[b] /\ HasSession(b)'
<1>1. Typed /\ SetupInv /\ [Next]_vars => [A]_vars
  <2> SUFFICES ASSUME Typed, SetupInv, [Next]_vars, NEW b \in Browsers, lifecycle = b, lifecycle' = Nobody
               PROVE  /\ told' = "undone" => stored'.password = NoPassword
                      /\ told' = "set up" => stored'.password = typed[b] /\ HasSession(b)'
    OBVIOUS
  <2>1. lifecycle # Nobody
    BY AccessAssumption
  <2>2. \/ Restart
        \/ \E d \in Browsers : SavePassword(d) \/ Open(d) \/ RollBack(d)
    BY <2>1 DEF Next, Step, LoadRecord, Reserve, Settle, Setup,
     SaveConfig, PrepareTest, Tested, SetUp, Login, GetSession, GetConfig, PutConfig, PostTest, Logout, Tick, vars
  <2>3. CASE Restart
    BY <2>3 DEF Restart
  <2>4. ASSUME NEW d \in Browsers, SavePassword(d) \/ Open(d) \/ RollBack(d) PROVE d = b
    BY <2>4 DEF SavePassword, Open, RollBack, At, SetupInv
  <2>5. CASE SavePassword(b)
    <3> told' = "not saved"
      BY <2>5, <2>1 DEF SavePassword, Answers
    <3> QED
      OBVIOUS
  <2>6. CASE Open(b)
    <3>1. OpensSession(b) /\ told' = "set up" /\ stored' = stored /\ now' = now /\ pc[b] = "open"
      BY <2>6, <2>1 DEF Open, Answers, At
    <3>2. stored.password = typed[b]
      BY <3>1 DEF SetupInv
    <3>3. HasSession(b)'
      <4> DEFINE s == [token |-> minted + 1, expires |-> now + Lifetime]
      <4>1. cookie'[b] = minted + 1 /\ s \in sessions'
        BY <3>1 DEF OpensSession, Typed
      <4>2. now < now + Lifetime
        BY AccessAssumption DEF Typed
      <4>3. s.token = cookie'[b] /\ now' < s.expires
        BY <3>1, <4>1, <4>2
      <4> HIDE DEF s
      <4> QED
        BY <4>1, <4>3 DEF HasSession, Live
    <3> QED
      BY <3>1, <3>2, <3>3
  <2>7. CASE RollBack(b)
    BY <2>7 DEF RollBack, Answers
  <2> QED
    BY <2>2, <2>3, <2>4, <2>5, <2>6, <2>7
<1> QED
  BY <1>1, SetupInvariant, PTL DEF Spec, SetupIsTruthful

-----------------------------------------------------------------------------
(* What a client can make the login try or keep.                           *)

\* The bounds are numbers, and nobody is no browser or client.
LEMMA LimitsAre ==
    /\ MaxFailures \in Nat /\ MaxFailures > 0 /\ MaxClients \in Nat /\ MaxSessions \in Nat
    /\ Window \in Nat /\ Window > 0 /\ Lifetime \in Nat /\ MaxTime \in Nat /\ MaxTokens \in Nat
    /\ Nobody \notin Clients
<1>1. \A n \in {MaxFailures, MaxClients, MaxSessions, Window, Lifetime} : n \in Nat /\ n > 0
    <2>1. {MaxFailures, MaxClients, MaxSessions, Window, Lifetime} \subseteq Nat \ {0}
        BY AccessAssumption
    <2>2. \A n \in Nat \ {0} : n \in Nat /\ n > 0
        OBVIOUS
    <2> QED
        BY <2>1, <2>2
<1>2. \A n \in {MaxTime, MaxTokens} : n \in Nat
    BY AccessAssumption
<1>3. Nobody \notin Clients
    <2>1. Nobody \notin Browsers \cup Clients
        BY AccessAssumption
    <2> QED
        BY <2>1
<1>4. /\ MaxFailures \in Nat /\ MaxFailures > 0 /\ MaxClients \in Nat /\ MaxSessions \in Nat
      /\ Window \in Nat /\ Window > 0 /\ Lifetime \in Nat
    BY <1>1
<1>5. MaxTime \in Nat /\ MaxTokens \in Nat
    BY <1>2
<1> QED
    BY <1>3, <1>4, <1>5

\* A set of numbers has a least one, and Min is that.
LEMMA MinIs ==
    ASSUME NEW S \in SUBSET Nat, S # {}
    PROVE  Min(S) \in S /\ \A n \in S : Min(S) <= n
<1> DEFINE Less == {ss \in Nat \X Nat : ss[1] < ss[2]}
<1>1. IsWellFoundedOn(Less, Nat)
    BY NatLessThanWellFounded, Zenon DEF OpToRel
<1>2. PICK m \in S : \A n \in S : <<n, m>> \notin Less
    <2> HIDE DEF Less
    <2> QED
        BY <1>1, WFMin
<1>3. ASSUME NEW n \in S PROVE m <= n
    <2>1. <<n, m>> \notin Less /\ <<n, m>> \in Nat \X Nat
        BY <1>2
    <2> QED
        BY <2>1
<1> QED
    BY <1>3 DEF Min

\* How many of the times are later than t.
Later(s, t) == Cardinality({i \in DOMAIN s : s[i] > t})

\* They are no more than there are times.
LEMMA LaterType ==
    ASSUME NEW s \in Seq(Nat), NEW t \in Int
    PROVE  /\ Later(s, t) \in Nat /\ Later(s, t) <= Len(s)
           /\ (\A i \in 1 .. Len(s) : s[i] <= t) => Later(s, t) = 0
           /\ \A u \in Int : t <= u => Later(s, u) \in Nat /\ Later(s, u) <= Later(s, t)
<1> DEFINE A(u) == {i \in DOMAIN s : s[i] > u}
<1>1. DOMAIN s = 1 .. Len(s) /\ Len(s) \in Nat /\ \A i \in 1 .. Len(s) : s[i] \in Nat
    OBVIOUS
<1>2. IsFiniteSet(DOMAIN s) /\ Cardinality(DOMAIN s) = Len(s)
    BY <1>1, FS_Interval
<1>3. ASSUME NEW u \in Int
      PROVE  IsFiniteSet(A(u)) /\ Cardinality(A(u)) \in Nat /\ Cardinality(A(u)) <= Len(s)
    <2>1. A(u) \subseteq DOMAIN s
        OBVIOUS
    <2> HIDE DEF A
    <2> QED
        BY <1>2, <2>1, FS_Subset, FS_CardinalityType
<1>4. ASSUME NEW u \in Int, t <= u PROVE Cardinality(A(u)) <= Cardinality(A(t))
    <2>1. A(u) \subseteq A(t)
        BY <1>1, <1>4
    <2>2. IsFiniteSet(A(t))
        BY <1>3
    <2> HIDE DEF A
    <2> QED
        BY <2>1, <2>2, FS_Subset
<1>5. ASSUME \A i \in 1 .. Len(s) : s[i] <= t PROVE Cardinality(A(t)) = 0
    <2>1. A(t) = {}
        BY <1>1, <1>5
    <2> QED
        BY <2>1, FS_EmptySet
<1> QED
    BY <1>3, <1>4, <1>5 DEF Later

\* One more time is one more to count, if it is later.
LEMMA LaterAppend ==
    ASSUME NEW s \in Seq(Nat), NEW a \in Nat, NEW t \in Int
    PROVE  Later(Append(s, a), t) = Later(s, t) + (IF a > t THEN 1 ELSE 0)
<1> DEFINE q == Append(s, a)
           A == {i \in DOMAIN s : s[i] > t}
           B == {i \in DOMAIN q : q[i] > t}
           n == Len(s) + 1
<1>1. DOMAIN s = 1 .. Len(s) /\ Len(s) \in Nat /\ \A i \in 1 .. Len(s) : s[i] \in Nat
    OBVIOUS
<1>2. DOMAIN q = 1 .. n /\ (\A i \in 1 .. Len(s) : q[i] = s[i]) /\ q[n] = a
    OBVIOUS
<1>3. IsFiniteSet(A) /\ n \notin A
    <2>1. IsFiniteSet(DOMAIN s) /\ A \subseteq DOMAIN s
        BY <1>1, FS_Interval
    <2> QED
        BY <1>1, <2>1, FS_Subset
<1>4. CASE a > t
    <2>1. B = A \cup {n}
        BY <1>1, <1>2, <1>4
    <2> HIDE DEF A, B
    <2>2. Cardinality(B) = Cardinality(A) + 1
        BY <1>3, <2>1, FS_AddElement
    <2> QED
        BY <1>4, <2>2 DEF Later, A, B
<1>5. CASE ~(a > t)
    <2>1. B = A
        BY <1>1, <1>2, <1>5
    <2>2. Cardinality(A) \in Nat
        BY <1>3, FS_CardinalityType
    <2> HIDE DEF A, B
    <2>3. Later(s, t) = Later(q, t) /\ Later(s, t) \in Nat
        BY <2>1, <2>2 DEF Later, A, B
    <2> QED
        BY <1>5, <2>3
<1> QED
    BY <1>4, <1>5

\* What popleft() takes away is not in the window.
LEMMA WithinIs ==
    ASSUME NEW S, S \subseteq Nat, NEW s \in Seq(S), now \in Nat
    PROVE  /\ Within(s) \in Seq(S) /\ Len(Within(s)) \in Nat /\ Len(Within(s)) <= Len(s)
           /\ \A t \in Int : now - Window <= t => Later(Within(s), t) = Later(s, t)
           /\ s = <<>> => Within(s) = <<>>
<1> DEFINE n == Len(s)
<1>1. /\ DOMAIN s = 1 .. n /\ n \in Nat /\ \A i \in 1 .. n : s[i] \in S /\ s[i] \in Nat
      /\ s \in Seq(Nat)
    <2>1. DOMAIN s = 1 .. n /\ n \in Nat /\ \A i \in 1 .. n : s[i] \in S
        OBVIOUS
    <2>2. \A i \in 1 .. n : s[i] \in Nat
        BY <2>1
    <2>3. s \in [1 .. n -> Nat]
        BY <2>1, <2>2
    <2> QED
        BY <2>1, <2>2, <2>3
<1>2. CASE Fresh(s) = {}
    <2>1. Within(s) = <<>>
        BY <1>2 DEF Within
    <2>2. ASSUME NEW t \in Int, now - Window <= t PROVE Later(s, t) = 0
        <3>1. \A i \in 1 .. n : s[i] <= t
            BY <1>1, <1>2, <2>2, LimitsAre DEF Fresh
        <3> QED
            BY <1>1, <3>1, LaterType
    <2>3. <<>> \in Seq(Nat) /\ Len(<<>>) = 0 /\ <<>> \in Seq(S)
        OBVIOUS
    <2>4. ASSUME NEW t \in Int PROVE Later(<<>>, t) = 0
        <3>1. Later(<<>>, t) \in Nat /\ Later(<<>>, t) <= Len(<<>>)
            BY <2>3, LaterType
        <3> QED
            BY <2>3, <3>1
    <2> QED
        BY <1>1, <2>1, <2>2, <2>3, <2>4
<1>3. CASE Fresh(s) # {}
    <2> DEFINE m == Min(Fresh(s))
               r == SubSeq(s, m, n)
    <2>1. Fresh(s) \in SUBSET Nat /\ Fresh(s) \subseteq 1 .. n
        BY <1>1 DEF Fresh
    <2>2. m \in 1 .. n /\ \A i \in Fresh(s) : m <= i
        BY <1>3, <2>1, MinIs
    <2>3. Within(s) = r
        BY <1>3 DEF Within
    <2> HIDE DEF m
    <2> DEFINE k == n - m + 1
    <2>4. k \in Nat /\ k <= n /\ (\A i \in 1 .. k : i \in Nat /\ m + i - 1 \in 1 .. n)
          /\ \A j \in 1 .. n : m <= j => j - m + 1 \in 1 .. k /\ m + (j - m + 1) - 1 = j
        BY <1>1, <2>2
    <2>5. r = [i \in 1 .. k |-> s[m + i - 1]]
        BY <1>1, <2>2
    <2> HIDE DEF k, r
    <2>6. r \in Seq(S) /\ Len(r) = k /\ DOMAIN r = 1 .. k /\ \A i \in 1 .. k : r[i] = s[m + i - 1]
        <3>1. r \in [1 .. k -> S]
            BY <1>1, <2>4, <2>5
        <3>2. r \in Seq(S) /\ Len(r) = k
            BY <2>4, <3>1
        <3> QED
            BY <2>5, <3>2
    <2>7. ASSUME NEW t \in Int, now - Window <= t PROVE Later(r, t) = Later(s, t)
        <3> DEFINE A == {i \in DOMAIN r : r[i] > t}
                   B == {i \in DOMAIN s : s[i] > t}
                   f == [i \in A |-> m + i - 1]
        <3>1. \A j \in B : j \in Fresh(s)
            BY <1>1, <2>7, LimitsAre DEF Fresh
        <3>2. \A i \in A : i \in 1 .. k /\ m + i - 1 \in 1 .. n /\ s[m + i - 1] > t
            BY <2>4, <2>6
        <3>3. f \in [A -> B]
            BY <1>1, <3>2
        <3>4. \A i, j \in A : f[i] = f[j] => i = j
            <4>1. ASSUME NEW i \in A, NEW j \in A, f[i] = f[j] PROVE i = j
                <5>1. i \in Nat /\ j \in Nat /\ m \in Nat /\ m + i - 1 = m + j - 1
                    BY <2>2, <2>4, <3>2, <4>1
                <5> QED
                    BY <5>1
            <4> QED
                BY <4>1
        <3>5. ASSUME NEW j \in B PROVE \E i \in A : f[i] = j
            <4>1. j \in 1 .. n /\ m <= j /\ s[j] > t
                BY <1>1, <2>2, <3>1
            <4> DEFINE i == j - m + 1
            <4>2. i \in 1 .. k /\ m + i - 1 = j
                BY <2>4, <4>1
            <4> HIDE DEF i
            <4>3. i \in A
                BY <2>6, <4>1, <4>2
            <4> QED
                BY <4>2, <4>3
        <3>6. IsFiniteSet(A)
            <4>1. A \subseteq 1 .. k
                BY <2>6
            <4> QED
                BY <2>4, <4>1, FS_Interval, FS_Subset
        <3> HIDE DEF A, B, f
        <3>7. f \in Bijection(A, B)
            BY <3>3, <3>4, <3>5 DEF Bijection, Injection, Surjection, IsInjective
        <3>8. Cardinality(B) = Cardinality(A)
            BY <3>6, <3>7, FS_Bijection DEF ExistsBijection
        <3> QED
            BY <3>8 DEF Later, A, B
    <2>8. s # <<>>
        BY <1>1, <2>2
    <2> QED
        BY <1>1, <2>3, <2>4, <2>6, <2>7, <2>8
<1> QED
    BY <1>2, <1>3

\* The verifications under way from one address, and the clients remembered.
Verifying(a) == {b \in Browsers : pc[b] = "verify" /\ from[b] = a}
Remembered == {a \in Clients : failures[a] # <<>> \/ reserved[a] > 0}

\* A login knows its address; what is reserved of a client are its verifications.
Reservations ==
    /\ \A b \in Browsers : pc[b] \in {"login", "reserve", "verify"} => from[b] \in Clients
    /\ \A a \in Clients : IsFiniteSet(Verifying(a)) /\ reserved[a] = Cardinality(Verifying(a))

\* A password tried, as long as it counts, is a failure on record or one of the
\* verifications under way, whichever time the window begins at from now on.
Guessing ==
    \A a \in Clients :
       /\ \A i \in 1 .. Len(guesses[a]) : guesses[a][i] <= now
       /\ \A t \in Int : now - Window <= t =>
             Later(guesses[a], t) <= Later(failures[a], t) + reserved[a]
       /\ Later(guesses[a], now - Window) <= MaxFailures

\* What the limiter goes by, and what else a request may change.
counted == <<failures, reserved, guesses, now>>

\* The steps of a browser that neither reserve nor settle a verification.
OtherStep(b) ==
    \/ LoadRecord(b) \/ Setup(b) \/ SavePassword(b) \/ Open(b) \/ RollBack(b)
    \/ SaveConfig(b) \/ PrepareTest(b) \/ Tested(b) \/ SetUp(b) \/ \E a \in Clients : Login(b, a)
    \/ GetSession(b) \/ GetConfig(b) \/ PutConfig(b) \/ PostTest(b) \/ Logout(b)

\* Where such a step may lead its browser, and from where.
Wanders(b) ==
    /\ pc[b] # "verify"
    /\ \E p \in Places \ {"verify"} : pc' = [pc EXCEPT ![b] = p]
    /\ \E c \in Clients \cup {Nobody} : from' = [from EXCEPT ![b] = c]
    /\ \E w \in Passwords \cup {NoPassword} : record' = [record EXCEPT ![b] = w]
    /\ pc'[b] \in {"login", "reserve"} => from'[b] \in Clients

\* The types that StepTyped does not speak of.
LEMMA TypesSplit ==
    /\ TypeOK => Typed
    /\ TypeOK' <=>
          /\ stored' \in Settings /\ lifecycle' \in Browsers \cup {Nobody}
          /\ failures' \in [Clients -> Times] /\ reserved' \in [Clients -> 0 .. MaxFailures]
          /\ sessions' \subseteq [token : 1 .. MaxTokens, expires : 0 .. MaxTime + Lifetime]
          /\ now' \in 0 .. MaxTime /\ minted' \in 0 .. MaxTokens
          /\ pc' \in [Browsers -> Places]
          /\ typed' \in [Browsers -> Passwords \cup {NoPassword}]
          /\ record' \in [Browsers -> Passwords \cup {NoPassword}]
          /\ cookie' \in [Browsers -> 0 .. MaxTokens] /\ seen' \in [Browsers -> Settings]
          /\ told' \in {"nothing", "already", "not saved", "set up", "undone", "uncertain"}
          /\ from' \in [Browsers -> Clients \cup {Nobody}] /\ guesses' \in [Clients -> Times]
<1>1. TypeOK => Typed
    <2> SUFFICES ASSUME TypeOK PROVE Typed
        OBVIOUS
    <2> DEFINE T == 0 .. MaxTokens
    <2>1. T \subseteq Nat /\ now \in Nat /\ minted \in Nat
        <3>1. now \in 0 .. MaxTime /\ minted \in 0 .. MaxTokens
            BY DEF TypeOK
        <3>2. now \in Nat /\ minted \in Nat
            BY <3>1, LimitsAre
        <3> QED
            BY <3>2
    <2>2. cookie \in [Browsers -> T]
        BY DEF TypeOK
    <2> HIDE DEF T
    <2>3. cookie \in [Browsers -> Nat]
        BY <2>1, <2>2
    <2>4. /\ stored \in Settings /\ lifecycle \in Browsers \cup {Nobody}
          /\ typed \in [Browsers -> Passwords \cup {NoPassword}]
          /\ seen \in [Browsers -> Settings] /\ pc \in [Browsers -> Places]
        BY DEF TypeOK, Places
    <2> QED
        BY <2>1, <2>3, <2>4 DEF Typed
<1> QED
    BY <1>1 DEF TypeOK, Places

\* A step that does not wander off to a verification keeps its place in order.
LEMMA OtherWanders ==
    ASSUME TypeOK, Reservations, NEW b \in Browsers, OtherStep(b)
    PROVE  Wanders(b) /\ UNCHANGED counted
<1>1. /\ pc \in [Browsers -> Places] /\ from \in [Browsers -> Clients \cup {Nobody}]
      /\ record \in [Browsers -> Passwords \cup {NoPassword}]
      /\ stored.password \in Passwords \cup {NoPassword}
    BY DEF TypeOK, Places, Settings
<1>2. /\ pc = [pc EXCEPT ![b] = pc[b]] /\ from = [from EXCEPT ![b] = from[b]]
      /\ record = [record EXCEPT ![b] = record[b]]
      /\ pc[b] \in Places /\ from[b] \in Clients \cup {Nobody}
      /\ record[b] \in Passwords \cup {NoPassword}
    BY <1>1
<1>3. pc[b] # "verify" /\ Done(b) => Wanders(b)
    BY <1>1 DEF Done, Wanders, Places
<1>4. ASSUME NEW p \in Places \ {"verify", "login", "reserve"}, pc[b] # "verify", Goes(b, p)
      PROVE  Wanders(b)
    BY <1>1, <1>2, <1>4 DEF Goes, Wanders
<1>5. pc[b] # "verify" /\ pc[b] \notin {"login", "reserve"} /\ UNCHANGED <<pc, from, record>> => Wanders(b)
    BY <1>1, <1>2 DEF Wanders
<1>6. CASE LoadRecord(b)
    <2>1. pc[b] = "login" /\ UNCHANGED counted
        BY <1>6 DEF LoadRecord, At, authVars, counted
    <2>2. CASE Done(b)
        BY <1>3, <2>1, <2>2
    <2>3. CASE /\ pc' = [pc EXCEPT ![b] = "reserve"] /\ UNCHANGED <<typed, from>>
               /\ record' = [record EXCEPT ![b] = stored.password]
        <3>1. from[b] \in Clients /\ from'[b] = from[b] /\ "reserve" \in Places \ {"verify"}
            BY <2>1, <2>3 DEF Reservations, Places
        <3> QED
            BY <1>1, <1>2, <2>1, <2>3, <3>1 DEF Wanders
    <2> QED
        BY <1>6, <2>1, <2>2, <2>3 DEF LoadRecord
<1>7. CASE Setup(b)
    <2>1. pc[b] = "setup" /\ UNCHANGED counted
        BY <1>7 DEF Setup, At, authVars, counted
    <2> QED
        BY <1>3, <1>4, <1>7, <2>1 DEF Setup, Answers, Places
<1>8. CASE SavePassword(b)
    <2>1. pc[b] = "save" /\ UNCHANGED counted
        BY <1>8 DEF SavePassword, At, authVars, counted
    <2> QED
        BY <1>3, <1>4, <1>8, <2>1 DEF SavePassword, Answers, Places
<1>9. CASE Open(b)
    <2>1. pc[b] = "open" /\ UNCHANGED counted
        BY <1>9 DEF Open, At, counted
    <2> QED
        BY <1>3, <1>4, <1>9, <2>1 DEF Open, Answers, Places
<1>10. CASE RollBack(b)
    <2>1. pc[b] = "roll back" /\ UNCHANGED counted
        BY <1>10 DEF RollBack, At, authVars, counted
    <2> QED
        BY <1>3, <1>10, <2>1 DEF RollBack, Answers
<1>11. CASE SaveConfig(b)
    <2>1. pc[b] = "put" /\ UNCHANGED counted
        BY <1>11 DEF SaveConfig, At, authVars, counted
    <2> QED
        BY <1>3, <1>11, <2>1 DEF SaveConfig
<1>12. CASE PrepareTest(b)
    <2>1. pc[b] = "prepare" /\ UNCHANGED counted
        BY <1>12 DEF PrepareTest, At, authVars, counted
    <2>2. PICK operation \in {"retain", "replace", "delete"} : \E secret \in ProbeSecret(operation) :
              (secret # "none" /\ Goes(b, secret)) \/ Done(b)
        BY <1>12 DEF PrepareTest
    <2>3. PICK secret \in ProbeSecret(operation) : (secret # "none" /\ Goes(b, secret)) \/ Done(b)
        BY <2>2
    <2>4. secret \in {"none", "stored secret", "own secret"}
        BY DEF ProbeSecret
    <2> QED
        BY <1>3, <1>4, <2>1, <2>3, <2>4 DEF Places
<1>13. CASE Tested(b)
    <2>1. pc[b] # "verify" /\ UNCHANGED counted
        BY <1>13 DEF Tested, authVars, counted
    <2> QED
        BY <1>3, <1>13, <2>1 DEF Tested
<1>14. CASE SetUp(b)
    <2>1. pc[b] = "idle" /\ pc' = [pc EXCEPT ![b] = "setup"] /\ UNCHANGED <<from, record, counted>>
        BY <1>14 DEF SetUp, At, authVars, counted
    <2> QED
        BY <1>1, <1>2, <2>1 DEF Wanders, Places
<1>15. ASSUME NEW a \in Clients, Login(b, a) PROVE Wanders(b) /\ UNCHANGED counted
    <2>1. /\ pc[b] = "idle" /\ pc' = [pc EXCEPT ![b] = "login"] /\ from' = [from EXCEPT ![b] = a]
          /\ UNCHANGED <<record, counted>>
        BY <1>15 DEF Login, At, authVars, counted
    <2> QED
        BY <1>1, <1>2, <2>1 DEF Wanders, Places
<1>16. CASE GetSession(b) \/ GetConfig(b) \/ Logout(b)
    <2>1. pc[b] = "idle" /\ UNCHANGED <<pc, from, record, counted>>
        BY <1>16 DEF GetSession, GetConfig, Logout, At, browserVars, counted
    <2> QED
        BY <1>5, <2>1
<1>17. CASE PutConfig(b) \/ PostTest(b)
    <2>1. pc[b] = "idle" /\ UNCHANGED counted
        BY <1>17 DEF PutConfig, PostTest, At, counted
    <2> QED
        BY <1>3, <1>4, <1>17, <2>1 DEF PutConfig, PostTest, Places
<1> QED
    BY <1>6, <1>7, <1>8, <1>9, <1>10, <1>11, <1>12, <1>13, <1>14, <1>15, <1>16, <1>17 DEF OtherStep

\* A session is opened when there is room, and otherwise only lost.
LEMMA SessionsKept ==
    ASSUME TypeOK, IsFiniteSet(sessions), Cardinality(sessions) <= MaxSessions, [Next]_vars
    PROVE  /\ sessions' \subseteq [token : 1 .. MaxTokens, expires : 0 .. MaxTime + Lifetime]
           /\ minted' \in 0 .. MaxTokens /\ cookie' \in [Browsers -> 0 .. MaxTokens]
           /\ IsFiniteSet(sessions') /\ Cardinality(sessions') <= MaxSessions
<1>1. CASE \E b \in Browsers : OpensSession(b)
    <2>1. PICK b \in Browsers : OpensSession(b)
        BY <1>1
    <2> DEFINE new == [token |-> minted + 1, expires |-> now + Lifetime]
    <2>2. /\ Cardinality(Live) < MaxSessions /\ minted < MaxTokens /\ minted' = minted + 1
          /\ sessions' = Live \cup {new} /\ cookie' = [cookie EXCEPT ![b] = minted + 1]
        BY <2>1 DEF OpensSession
    <2>3. /\ minted + 1 \in 1 .. MaxTokens /\ minted + 1 \in 0 .. MaxTokens
          /\ now + Lifetime \in 0 .. MaxTime + Lifetime
        <3>1. now \in 0 .. MaxTime /\ minted \in 0 .. MaxTokens
            BY DEF TypeOK
        <3> QED
            BY <2>2, <3>1, LimitsAre
    <2>4. new \in [token : 1 .. MaxTokens, expires : 0 .. MaxTime + Lifetime]
        BY <2>3
    <2> HIDE DEF new
    <2>5. Live \subseteq sessions
        BY DEF Live
    <2>6. IsFiniteSet(Live) /\ Cardinality(Live) \in Nat
        BY <2>5, FS_Subset, FS_CardinalityType
    <2>7. IsFiniteSet(sessions') /\ Cardinality(sessions') <= Cardinality(Live) + 1
        <3>1. CASE new \in Live
            <4>1. sessions' = Live
                BY <2>2, <3>1
            <4> QED
                BY <2>6, <4>1
        <3>2. CASE new \notin Live
            <4>1. IsFiniteSet(Live \cup {new}) /\ Cardinality(Live \cup {new}) = Cardinality(Live) + 1
                BY <2>6, <3>2, FS_AddElement
            <4> QED
                BY <2>2, <2>6, <4>1
        <3> QED
            BY <3>1, <3>2
    <2>8. Cardinality(sessions') <= MaxSessions
        <3>1. Cardinality(sessions') \in Nat
            BY <2>7, FS_CardinalityType
        <3> QED
            BY <2>2, <2>6, <2>7, <3>1, LimitsAre
    <2>9. sessions' \subseteq [token : 1 .. MaxTokens, expires : 0 .. MaxTime + Lifetime]
        BY <2>2, <2>4, <2>5 DEF TypeOK
    <2>10. cookie' \in [Browsers -> 0 .. MaxTokens]
        <3> DEFINE T == 0 .. MaxTokens
        <3>1. cookie \in [Browsers -> T] /\ minted + 1 \in T
            BY <2>3 DEF TypeOK
        <3> HIDE DEF T
        <3>2. cookie' \in [Browsers -> T]
            BY <2>2, <3>1
        <3> QED
            BY <3>2 DEF T
    <2> QED
        BY <2>2, <2>3, <2>7, <2>8, <2>9, <2>10
<1>2. CASE /\ sessions' \subseteq sessions /\ minted' = minted
           /\ cookie' = cookie \/ \E b \in Browsers : cookie' = [cookie EXCEPT ![b] = 0]
    <2>1. sessions' \subseteq [token : 1 .. MaxTokens, expires : 0 .. MaxTime + Lifetime]
          /\ minted' \in 0 .. MaxTokens
        BY <1>2 DEF TypeOK
    <2>2. cookie' \in [Browsers -> 0 .. MaxTokens]
        <3> DEFINE T == 0 .. MaxTokens
        <3>1. cookie \in [Browsers -> T]
            BY DEF TypeOK
        <3>2. 0 \in T
            BY LimitsAre
        <3> HIDE DEF T
        <3>3. cookie' \in [Browsers -> T]
            BY <1>2, <3>1, <3>2
        <3> QED
            BY <3>3 DEF T
    <2>3. IsFiniteSet(sessions') /\ Cardinality(sessions') <= Cardinality(sessions)
        BY <1>2, FS_Subset
    <2>4. Cardinality(sessions') \in Nat /\ Cardinality(sessions) \in Nat
        BY <2>3, FS_CardinalityType
    <2> QED
        BY <2>1, <2>2, <2>3, <2>4, LimitsAre
<1>3. \/ \E b \in Browsers : OpensSession(b)
      \/ /\ sessions' \subseteq sessions /\ minted' = minted
         /\ cookie' = cookie \/ \E b \in Browsers : cookie' = [cookie EXCEPT ![b] = 0]
    <2>1. CASE UNCHANGED <<sessions, minted, cookie>>
        BY <2>1
    <2>2. CASE Restart
        BY <2>2 DEF Restart
    <2>3. ASSUME NEW b \in Browsers, Settle(b) \/ Open(b)
          PROVE  OpensSession(b) \/ NoSession(b) \/ UNCHANGED <<sessions, minted, cookie>>
        BY <2>3 DEF Settle, Open
    <2>4. ASSUME NEW b \in Browsers, NoSession(b) PROVE sessions' \subseteq sessions /\ UNCHANGED <<minted, cookie>>
        BY <2>4 DEF NoSession, Live
    <2>5. ASSUME NEW b \in Browsers, GetSession(b) PROVE sessions' \subseteq sessions /\ UNCHANGED <<minted, cookie>>
        BY <2>5 DEF GetSession, browserVars
    <2>6. ASSUME NEW b \in Browsers, GetConfig(b) \/ PutConfig(b) \/ PostTest(b)
          PROVE  sessions' \subseteq sessions /\ UNCHANGED <<minted, cookie>>
        BY <2>6 DEF GetConfig, PutConfig, PostTest, Looked
    <2>7. ASSUME NEW b \in Browsers, Logout(b)
          PROVE  sessions' \subseteq sessions /\ minted' = minted /\ cookie' = [cookie EXCEPT ![b] = 0]
        BY <2>7 DEF Logout
    <2>8. ASSUME NEW b \in Browsers,
                 \/ LoadRecord(b) \/ Reserve(b) \/ Setup(b) \/ SavePassword(b) \/ RollBack(b)
                 \/ SaveConfig(b) \/ PrepareTest(b) \/ Tested(b) \/ SetUp(b) \/ \E a \in Clients : Login(b, a)
          PROVE  UNCHANGED <<sessions, minted, cookie>>
        BY <2>8 DEF LoadRecord, Reserve, Setup, SavePassword, RollBack, SaveConfig, PrepareTest, Tested, SetUp,
           Login, authVars
    <2>9. Tick \/ UNCHANGED vars => UNCHANGED <<sessions, minted, cookie>>
        BY DEF Tick, vars, authVars, browserVars
    <2> QED
        BY <2>1, <2>2, <2>3, <2>4, <2>5, <2>6, <2>7, <2>8, <2>9 DEF Next, Step
<1> QED
    BY <1>1, <1>2, <1>3

\* What the last set-up answered is one of its answers.
LEMMA ToldKept ==
    ASSUME TypeOK, [Next]_vars
    PROVE  told' \in {"nothing", "already", "not saved", "set up", "undone", "uncertain"}
<1> DEFINE Answer == told' \in {"nothing", "already", "not saved", "set up", "undone", "uncertain"}
<1>1. told' = told => Answer
    BY DEF TypeOK
<1>2. ASSUME NEW b \in Browsers, Setup(b) \/ SavePassword(b) \/ Open(b) \/ RollBack(b) \/ SetUp(b) PROVE Answer
    BY <1>1, <1>2 DEF Setup, SavePassword, Open, RollBack, SetUp, Answers
<1>3. ASSUME NEW b \in Browsers,
             \/ LoadRecord(b) \/ Reserve(b) \/ Settle(b) \/ SaveConfig(b) \/ PrepareTest(b) \/ Tested(b)
             \/ (\E a \in Clients : Login(b, a)) \/ GetSession(b) \/ GetConfig(b) \/ PutConfig(b) \/ PostTest(b)
             \/ Logout(b)
      PROVE  told' = told
    BY <1>3 DEF LoadRecord, Reserve, Settle, SaveConfig, PrepareTest, Tested, Login, GetSession, GetConfig,
       PutConfig, PostTest, Logout, browserVars
<1>4. Tick \/ UNCHANGED vars => told' = told
    BY DEF Tick, vars, browserVars
<1>5. Restart => Answer
    BY DEF Restart
<1> QED
    BY <1>1, <1>2, <1>3, <1>4, <1>5 DEF Next, Step

\* What reserving and settling keep, with the types they bear on.
RoomInTable == IsFiniteSet(Remembered) /\ Cardinality(Remembered) <= MaxClients

Limits ==
    /\ failures \in [Clients -> Times] /\ reserved \in [Clients -> 0 .. MaxFailures]
    /\ guesses \in [Clients -> Times] /\ now \in 0 .. MaxTime
    /\ pc \in [Browsers -> Places] /\ from \in [Browsers -> Clients \cup {Nobody}]
    /\ record \in [Browsers -> Passwords \cup {NoPassword}]
    /\ Reservations /\ Guessing /\ RoomInTable

\* A browser that wanders leaves the verifications under way as they are.
LEMMA WandersKeeps ==
    ASSUME Limits, NEW b \in Browsers, Wanders(b), UNCHANGED counted
    PROVE  Limits'
<1>1. /\ pc \in [Browsers -> Places] /\ from \in [Browsers -> Clients \cup {Nobody}]
      /\ record \in [Browsers -> Passwords \cup {NoPassword}]
    BY DEF Limits
<1>2. /\ pc' \in [Browsers -> Places] /\ from' \in [Browsers -> Clients \cup {Nobody}]
      /\ record' \in [Browsers -> Passwords \cup {NoPassword}]
      /\ pc'[b] # "verify"
      /\ \A d \in Browsers : d # b => pc'[d] = pc[d] /\ from'[d] = from[d]
    BY <1>1 DEF Wanders
<1>3. \A a \in Clients : Verifying(a)' = Verifying(a)
    BY <1>2 DEF Verifying, Wanders
<1>4. failures' = failures /\ reserved' = reserved /\ guesses' = guesses /\ now' = now
    BY DEF counted
<1>5. Reservations'
    <2>1. \A d \in Browsers : pc'[d] \in {"login", "reserve", "verify"} => from'[d] \in Clients
        BY <1>2 DEF Limits, Reservations, Wanders
    <2> QED
        BY <1>3, <1>4, <2>1 DEF Limits, Reservations
<1>6. Guessing'
    BY <1>4 DEF Limits, Guessing, Later
<1>7. RoomInTable'
    <2>1. Remembered' = Remembered
        BY <1>4 DEF Remembered
    <2> QED
        BY <2>1 DEF Limits, RoomInTable
<1> QED
    BY <1>2, <1>4, <1>5, <1>6, <1>7 DEF Limits

\* What the limiter takes off its record a client need not be remembered for.
LEMMA PrunedIs ==
    ASSUME TypeOK
    PROVE  /\ now \in Nat /\ now - Window \in Int
           /\ \A a \in Clients :
                 /\ failures[a] \in Seq(Nat) /\ guesses[a] \in Seq(Nat)
                 /\ Pruned[a] \in Times /\ Pruned[a] \in Seq(Nat) /\ Len(Pruned[a]) \in Nat
                 /\ Within(guesses[a]) \in Times /\ Within(guesses[a]) \in Seq(Nat)
                 /\ \A t \in Int : now - Window <= t =>
                       /\ Later(Pruned[a], t) = Later(failures[a], t)
                       /\ Later(Within(guesses[a]), t) = Later(guesses[a], t)
                 /\ failures[a] = <<>> => Pruned[a] = <<>>
           /\ Active \subseteq Remembered
<1> DEFINE T == 0 .. MaxTime
<1>1. T \subseteq Nat
    OBVIOUS
<1>2. now \in Nat
    <2>1. now \in 0 .. MaxTime
        BY DEF TypeOK
    <2> QED
        BY <2>1, LimitsAre
<1>3. \A a \in Clients : failures[a] \in Seq(T) /\ guesses[a] \in Seq(T)
    BY DEF TypeOK, Times
<1> HIDE DEF T
<1>4. ASSUME NEW s \in Seq(T) PROVE s \in Seq(Nat)
    <2>1. s \in [1 .. Len(s) -> T] /\ Len(s) \in Nat
        OBVIOUS
    <2>2. s \in [1 .. Len(s) -> Nat]
        BY <1>1, <2>1
    <2> QED
        BY <2>1, <2>2
<1>5. \A s \in Seq(T) :
         /\ Within(s) \in Seq(T) /\ Len(Within(s)) \in Nat
         /\ \A t \in Int : now - Window <= t => Later(Within(s), t) = Later(s, t)
         /\ s = <<>> => Within(s) = <<>>
    BY <1>1, <1>2, WithinIs
<1>6. \A a \in Clients : Pruned[a] = Within(failures[a])
    BY DEF Pruned
<1>7. now - Window \in Int
    BY <1>2, LimitsAre
<1>8. Seq(T) = Times
    BY DEF T, Times
<1>9. \A a \in Clients : failures[a] = <<>> => Pruned[a] = <<>>
    BY <1>3, <1>5, <1>6
<1>10. Active \subseteq Remembered
    BY <1>9 DEF Active, Remembered
<1> QED
    BY <1>2, <1>3, <1>4, <1>5, <1>6, <1>7, <1>8, <1>9, <1>10

\* What is left of times none of which is later than t has none later than t.
LEMMA WithinEarlier ==
    ASSUME NEW s \in Seq(Nat), NEW t \in Nat, now \in Nat, now <= t, \A i \in 1 .. Len(s) : s[i] <= t
    PROVE  \A i \in 1 .. Len(Within(s)) : Within(s)[i] <= t
<1> DEFINE w == Within(s)
           A == {i \in DOMAIN w : w[i] > t}
<1>1. w \in Seq(Nat) /\ Len(w) \in Nat /\ Later(w, t) = Later(s, t)
    <2>1. now - Window <= t
        BY LimitsAre
    <2> QED
        BY <2>1, WithinIs
<1>2. Later(s, t) = 0
    BY LaterType
<1> HIDE DEF w
<1>3. DOMAIN w = 1 .. Len(w) /\ \A i \in 1 .. Len(w) : w[i] \in Nat
    BY <1>1
<1>4. IsFiniteSet(A)
    <2>1. A \subseteq DOMAIN w /\ IsFiniteSet(DOMAIN w)
        BY <1>1, <1>3, FS_Interval
    <2> QED
        BY <2>1, FS_Subset
<1>5. Cardinality(A) = 0
    BY <1>1, <1>2 DEF Later, w
<1>6. A = {}
    <2> HIDE DEF A
    <2> QED
        BY <1>4, <1>5, FS_EmptySet
<1> QED
    BY <1>3, <1>6 DEF w

\* A verification begins only where a failure would still be within the limit,
\* and a client is remembered only where there is room (_reserve_login_verification).
LEMMA ReserveKeeps ==
    ASSUME TypeOK, Limits, NEW b \in Browsers, Reserve(b)
    PROVE  Limits'
<1>0. PICK a \in Clients : a = from[b]
    BY DEF Reserve, At, Limits, Reservations
<1>1. /\ pc[b] = "reserve" /\ a = from[b] /\ failures' = Pruned /\ now' = now
      /\ \/ /\ MayVerify(a) /\ Goes(b, "verify")
            /\ reserved' = [reserved EXCEPT ![a] = @ + 1]
            /\ guesses' = [guesses EXCEPT ![a] = Append(Within(@), now)]
         \/ ~MayVerify(a) /\ Done(b) /\ UNCHANGED <<reserved, guesses>>
    BY <1>0 DEF Reserve, At
<1>2. /\ failures' \in [Clients -> Times] /\ now' \in 0 .. MaxTime
      /\ \A c \in Clients : failures'[c] = Pruned[c]
    <2>1. \A c \in Clients : Pruned[c] \in Times
        BY PrunedIs
    <2>2. Pruned \in [Clients -> Times]
        BY <2>1 DEF Pruned
    <2> QED
        BY <1>1, <2>2 DEF Limits
<1>3. /\ pc \in [Browsers -> Places] /\ from \in [Browsers -> Clients \cup {Nobody}]
      /\ record \in [Browsers -> Passwords \cup {NoPassword}]
      /\ reserved \in [Clients -> 0 .. MaxFailures] /\ guesses \in [Clients -> Times]
      /\ now \in 0 .. MaxTime
    BY DEF Limits
<1>4. \A c \in Clients : reserved[c] \in Nat /\ reserved[c] <= MaxFailures
    BY <1>3, LimitsAre
<1>5. CASE ~MayVerify(a) /\ Done(b) /\ UNCHANGED <<reserved, guesses>>
    <2>1. /\ pc' = [pc EXCEPT ![b] = "idle"] /\ from' = [from EXCEPT ![b] = Nobody]
          /\ record' = [record EXCEPT ![b] = NoPassword]
        BY <1>5 DEF Done
    <2>2. /\ pc' \in [Browsers -> Places] /\ from' \in [Browsers -> Clients \cup {Nobody}]
          /\ record' \in [Browsers -> Passwords \cup {NoPassword}]
          /\ pc'[b] = "idle" /\ \A d \in Browsers : d # b => pc'[d] = pc[d] /\ from'[d] = from[d]
        BY <1>3, <2>1 DEF Places
    <2>3. \A c \in Clients : Verifying(c)' = Verifying(c)
        BY <1>1, <2>2 DEF Verifying
    <2>4. Reservations'
        BY <1>5, <2>2, <2>3 DEF Limits, Reservations
    <2>5. Guessing'
        <3>1. ASSUME NEW c \in Clients
              PROVE  /\ \A i \in 1 .. Len(guesses'[c]) : guesses'[c][i] <= now'
                     /\ \A t \in Int : now' - Window <= t =>
                           Later(guesses'[c], t) <= Later(failures'[c], t) + reserved'[c]
                     /\ Later(guesses'[c], now' - Window) <= MaxFailures
            <4>1. guesses'[c] = guesses[c] /\ reserved'[c] = reserved[c]
                BY <1>5
            <4> QED
                BY <1>1, <1>2, <4>1, PrunedIs DEF Limits, Guessing
        <3> QED
            BY <3>1 DEF Guessing, Later
    <2>6. RoomInTable'
        <3>1. Remembered' = Active
            BY <1>2, <1>5 DEF Remembered, Active
        <3>2. IsFiniteSet(Remembered) /\ Cardinality(Remembered) <= MaxClients /\ Active \subseteq Remembered
            BY PrunedIs DEF Limits, RoomInTable
        <3>3. IsFiniteSet(Active) /\ Cardinality(Active) <= Cardinality(Remembered)
            BY <3>2, FS_Subset
        <3>4. Cardinality(Active) \in Nat /\ Cardinality(Remembered) \in Nat
            BY <3>2, <3>3, FS_CardinalityType
        <3>5. Cardinality(Active) <= MaxClients
            BY <3>2, <3>3, <3>4, LimitsAre
        <3> QED
            BY <3>1, <3>3, <3>5 DEF RoomInTable
    <2> QED
        BY <1>2, <1>3, <1>5, <2>2, <2>4, <2>5, <2>6 DEF Limits
<1>6. CASE /\ MayVerify(a) /\ Goes(b, "verify")
           /\ reserved' = [reserved EXCEPT ![a] = @ + 1]
           /\ guesses' = [guesses EXCEPT ![a] = Append(Within(@), now)]
    <2>1. pc' = [pc EXCEPT ![b] = "verify"] /\ from' = from /\ record' = record
        BY <1>6 DEF Goes
    <2>2. /\ pc' \in [Browsers -> Places] /\ pc'[b] = "verify"
          /\ \A d \in Browsers : d # b => pc'[d] = pc[d]
        BY <1>3, <2>1 DEF Places
    <2>3. Len(Pruned[a]) + reserved[a] < MaxFailures /\ (a \in Active \/ Cardinality(Active) < MaxClients)
        BY <1>6 DEF MayVerify
    <2>4. /\ reserved'[a] = reserved[a] + 1 /\ \A c \in Clients : c # a => reserved'[c] = reserved[c]
          /\ guesses'[a] = Append(Within(guesses[a]), now)
          /\ \A c \in Clients : c # a => guesses'[c] = guesses[c]
        BY <1>1, <1>3, <1>6
    <2>5. reserved' \in [Clients -> 0 .. MaxFailures]
        <3> DEFINE R == 0 .. MaxFailures
        <3>1. reserved[a] + 1 \in R
            BY <1>1, <1>4, <2>3, LimitsAre, PrunedIs
        <3>2. reserved \in [Clients -> R]
            BY <1>3
        <3> HIDE DEF R
        <3>3. reserved' \in [Clients -> R]
            BY <1>6, <3>1, <3>2
        <3> QED
            BY <3>3 DEF R
    <2>6. guesses' \in [Clients -> Times]
        <3> DEFINE T == 0 .. MaxTime
        <3>1. Within(guesses[a]) \in Times /\ now \in T
            BY <1>1, <1>3, PrunedIs
        <3> HIDE DEF T
        <3>2. Append(Within(guesses[a]), now) \in Seq(T)
            BY <3>1 DEF Times, T
        <3>3. Append(Within(guesses[a]), now) \in Times
            BY <3>2 DEF Times, T
        <3> QED
            BY <1>3, <1>6, <3>3
    <2>7. Verifying(a)' = Verifying(a) \cup {b} /\ b \notin Verifying(a)
        BY <1>1, <2>1, <2>2 DEF Verifying
    <2>8. \A c \in Clients : c # a => Verifying(c)' = Verifying(c)
        BY <1>1, <2>1, <2>2 DEF Verifying
    <2>9. Reservations'
        <3>1. \A d \in Browsers : pc'[d] \in {"login", "reserve", "verify"} => from'[d] \in Clients
            BY <1>1, <2>1, <2>2 DEF Limits, Reservations
        <3>2. IsFiniteSet(Verifying(a)') /\ reserved'[a] = Cardinality(Verifying(a)')
            <4>1. IsFiniteSet(Verifying(a)) /\ reserved[a] = Cardinality(Verifying(a))
                BY <1>1 DEF Limits, Reservations
            <4>2. IsFiniteSet(Verifying(a) \cup {b})
                  /\ Cardinality(Verifying(a) \cup {b}) = Cardinality(Verifying(a)) + 1
                BY <2>7, <4>1, FS_AddElement
            <4> QED
                BY <2>4, <2>7, <4>1, <4>2
        <3>3. \A c \in Clients : c # a => IsFiniteSet(Verifying(c)') /\ reserved'[c] = Cardinality(Verifying(c)')
            BY <2>4, <2>8 DEF Limits, Reservations
        <3>4. ASSUME NEW c \in Clients
              PROVE  IsFiniteSet(Verifying(c)') /\ reserved'[c] = Cardinality(Verifying(c)')
            BY <3>2, <3>3
        <3>5. \A c \in Clients : IsFiniteSet(Verifying(c))' /\ (reserved[c] = Cardinality(Verifying(c)))'
            BY <3>4
        <3> QED
            BY <3>1, <3>5 DEF Reservations
    <2>10. Guessing'
        <3>1. ASSUME NEW c \in Clients, c # a
              PROVE  /\ \A i \in 1 .. Len(guesses'[c]) : guesses'[c][i] <= now'
                     /\ \A t \in Int : now' - Window <= t =>
                           Later(guesses'[c], t) <= Later(failures'[c], t) + reserved'[c]
                     /\ Later(guesses'[c], now' - Window) <= MaxFailures
            BY <1>1, <1>2, <2>4, <3>1, PrunedIs DEF Limits, Guessing
        <3>2. \A i \in 1 .. Len(guesses'[a]) : guesses'[a][i] <= now'
            <4> DEFINE w == Within(guesses[a])
            <4>1. w \in Seq(Nat) /\ guesses[a] \in Seq(Nat) /\ now \in Nat
                BY <1>1, PrunedIs
            <4>2. \A i \in 1 .. Len(w) : w[i] <= now
                <5>1. \A i \in 1 .. Len(guesses[a]) : guesses[a][i] <= now
                    BY <1>1 DEF Limits, Guessing
                <5>2. now <= now
                    BY <4>1
                <5> QED
                    BY <4>1, <5>1, <5>2, WithinEarlier
            <4> HIDE DEF w
            <4>3. \A i \in 1 .. Len(Append(w, now)) : Append(w, now)[i] <= now
                BY <4>1, <4>2
            <4> QED
                BY <1>1, <2>4, <4>3 DEF w
        <3>3. \A t \in Int : now - Window <= t =>
                 Later(guesses'[a], t) <= Later(guesses[a], t) + 1 /\ Later(guesses'[a], t) \in Nat
            <4> DEFINE w == Within(guesses[a])
            <4>1. w \in Seq(Nat) /\ now \in Nat /\ \A t \in Int : now - Window <= t => Later(w, t) = Later(guesses[a], t)
                BY <1>1, PrunedIs
            <4>2. \A t \in Int : Later(w, t) \in Nat
                BY <4>1, LaterType
            <4> HIDE DEF w
            <4>3. \A t \in Int : Later(Append(w, now), t) = Later(w, t) + (IF now > t THEN 1 ELSE 0)
                BY <4>1, LaterAppend
            <4>4. \A t \in Int : Later(Append(w, now), t) <= Later(w, t) + 1 /\ Later(Append(w, now), t) \in Nat
                BY <4>2, <4>3
            <4>5. guesses'[a] = Append(w, now)
                BY <2>4 DEF w
            <4> QED
                BY <4>1, <4>4, <4>5
        <3>4. \A t \in Int : Later(failures[a], t) \in Nat /\ Later(guesses[a], t) \in Nat
            BY <1>1, PrunedIs, LaterType
        <3>5. \A t \in Int : now - Window <= t =>
                 /\ Later(failures'[a], t) = Later(failures[a], t)
                 /\ Later(guesses[a], t) <= Later(failures[a], t) + reserved[a]
            BY <1>1, <1>2, PrunedIs DEF Limits, Guessing
        <3>6. \A t \in Int : now - Window <= t =>
                 Later(guesses'[a], t) <= Later(failures'[a], t) + reserved'[a]
            <4>1. reserved[a] \in Nat /\ reserved'[a] = reserved[a] + 1
                BY <1>1, <1>4, <2>4
            <4> QED
                BY <3>3, <3>4, <3>5, <4>1
        <3>7. Later(guesses'[a], now - Window) <= MaxFailures
            <4> DEFINE t == now - Window
            <4>1. /\ t \in Int /\ now - Window <= t
                  /\ Pruned[a] \in Seq(Nat) /\ Later(Pruned[a], t) = Later(failures[a], t)
                BY <1>1, PrunedIs, LimitsAre
            <4> HIDE DEF t
            <4>2. Later(Pruned[a], t) <= Len(Pruned[a]) /\ Later(Pruned[a], t) \in Nat /\ Len(Pruned[a]) \in Nat
                BY <4>1, LaterType
            <4>3. Later(guesses'[a], t) <= Later(guesses[a], t) + 1 /\ Later(guesses'[a], t) \in Nat
                  /\ Later(guesses[a], t) <= Later(failures[a], t) + reserved[a] /\ Later(guesses[a], t) \in Nat
                BY <3>3, <3>4, <3>5, <4>1 DEF t
            <4>4. reserved[a] \in Nat /\ MaxFailures \in Nat
                BY <1>1, <1>4, LimitsAre
            <4>5. Later(guesses'[a], t) <= MaxFailures
                BY <2>3, <4>1, <4>2, <4>3, <4>4
            <4> QED
                BY <4>5 DEF t
        <3>8. ASSUME NEW c \in Clients
              PROVE  /\ \A i \in 1 .. Len(guesses'[c]) : guesses'[c][i] <= now'
                     /\ \A t \in Int : now' - Window <= t =>
                           Later(guesses'[c], t) <= Later(failures'[c], t) + reserved'[c]
                     /\ Later(guesses'[c], now' - Window) <= MaxFailures
            BY <1>1, <3>1, <3>2, <3>6, <3>7
        <3> QED
            BY <3>8 DEF Guessing, Later
    <2>11. RoomInTable'
        <3>1. Remembered' = Active \cup {a}
            BY <1>1, <1>2, <1>4, <2>4 DEF Remembered, Active
        <3>2. IsFiniteSet(Remembered) /\ Cardinality(Remembered) <= MaxClients /\ Active \subseteq Remembered
            BY PrunedIs DEF Limits, RoomInTable
        <3>3. IsFiniteSet(Active) /\ Cardinality(Active) <= Cardinality(Remembered)
            BY <3>2, FS_Subset
        <3>4. Cardinality(Active) \in Nat /\ Cardinality(Remembered) \in Nat
            BY <3>2, <3>3, FS_CardinalityType
        <3>5. IsFiniteSet(Active \cup {a}) /\ Cardinality(Active \cup {a}) <= MaxClients
            <4>1. CASE a \in Active
                <5>1. Active \cup {a} = Active
                    BY <4>1
                <5> QED
                    BY <3>2, <3>3, <3>4, <5>1, LimitsAre
            <4>2. CASE a \notin Active
                <5>1. IsFiniteSet(Active \cup {a}) /\ Cardinality(Active \cup {a}) = Cardinality(Active) + 1
                    BY <3>3, <4>2, FS_AddElement
                <5> QED
                    BY <2>3, <3>4, <4>2, <5>1, LimitsAre
            <4> QED
                BY <4>1, <4>2
        <3> QED
            BY <3>1, <3>5 DEF RoomInTable
    <2> QED
        BY <1>2, <1>3, <2>1, <2>2, <2>5, <2>6, <2>9, <2>10, <2>11 DEF Limits
<1> QED
    BY <1>1, <1>5, <1>6

\* A verification that ends leaves the failure that it was counted for, or no
\* passwords to count (_finish_login_verification).
LEMMA SettleKeeps ==
    ASSUME TypeOK, Limits, NEW b \in Browsers, Settle(b)
    PROVE  Limits'
<1>0. PICK a \in Clients : a = from[b]
    BY DEF Settle, At, Limits, Reservations
<1>1. /\ pc[b] = "verify" /\ Done(b) /\ now' = now
      /\ reserved' = [reserved EXCEPT ![a] = @ - 1]
      /\ \/ failures' = [Pruned EXCEPT ![a] = Append(@, now)] /\ guesses' = guesses
         \/ failures' = [Pruned EXCEPT ![a] = <<>>] /\ guesses' = [guesses EXCEPT ![a] = <<>>]
    BY <1>0 DEF Settle, At
<1>2. /\ pc \in [Browsers -> Places] /\ from \in [Browsers -> Clients \cup {Nobody}]
      /\ record \in [Browsers -> Passwords \cup {NoPassword}]
      /\ reserved \in [Clients -> 0 .. MaxFailures] /\ guesses \in [Clients -> Times]
      /\ now \in 0 .. MaxTime /\ now \in Nat
    BY PrunedIs DEF Limits
<1>3. \A c \in Clients : reserved[c] \in Nat /\ reserved[c] <= MaxFailures
    BY <1>2, LimitsAre
<1>4. /\ pc' = [pc EXCEPT ![b] = "idle"] /\ from' = [from EXCEPT ![b] = Nobody]
      /\ record' = [record EXCEPT ![b] = NoPassword]
    BY <1>1 DEF Done
<1>5. /\ pc' \in [Browsers -> Places] /\ from' \in [Browsers -> Clients \cup {Nobody}]
      /\ record' \in [Browsers -> Passwords \cup {NoPassword}]
      /\ pc'[b] = "idle" /\ \A d \in Browsers : d # b => pc'[d] = pc[d] /\ from'[d] = from[d]
    BY <1>2, <1>4 DEF Places
<1>6. /\ IsFiniteSet(Verifying(a)) /\ reserved[a] = Cardinality(Verifying(a))
      /\ b \in Verifying(a)
    BY <1>0, <1>1 DEF Limits, Reservations, Verifying
<1>7. /\ IsFiniteSet(Verifying(a) \ {b}) /\ Cardinality(Verifying(a) \ {b}) = reserved[a] - 1
      /\ reserved[a] > 0
    <2>1. /\ IsFiniteSet(Verifying(a) \ {b})
          /\ Cardinality(Verifying(a) \ {b}) = Cardinality(Verifying(a)) - 1
        BY <1>6, FS_RemoveElement
    <2>2. Cardinality(Verifying(a) \ {b}) \in Nat
        BY <2>1, FS_CardinalityType
    <2>3. reserved[a] \in Nat
        BY <1>3
    <2> QED
        BY <1>6, <2>1, <2>2, <2>3
<1>8. /\ reserved'[a] = reserved[a] - 1 /\ \A c \in Clients : c # a => reserved'[c] = reserved[c]
      /\ \A c \in Clients : c # a => failures'[c] = Pruned[c] /\ guesses'[c] = guesses[c]
      /\ \/ failures'[a] = Append(Pruned[a], now) /\ guesses'[a] = guesses[a]
         \/ failures'[a] = <<>> /\ guesses'[a] = <<>>
    BY <1>1, <1>2 DEF Pruned
<1>9. /\ failures' \in [Clients -> Times] /\ guesses' \in [Clients -> Times]
    <2> DEFINE T == 0 .. MaxTime
    <2>1. now \in T /\ Seq(T) = Times
        BY <1>2 DEF Times
    <2> HIDE DEF T
    <2>2. \A c \in Clients : Pruned[c] \in Seq(T)
        BY <2>1, PrunedIs
    <2>3. Append(Pruned[a], now) \in Seq(T) /\ <<>> \in Seq(T)
        BY <2>1, <2>2
    <2>4. Append(Pruned[a], now) \in Times /\ <<>> \in Times
        BY <2>1, <2>3
    <2>5. Pruned \in [Clients -> Times]
        BY <2>1, <2>2 DEF Pruned
    <2> QED
        BY <1>1, <1>2, <2>4, <2>5
<1>10. reserved' \in [Clients -> 0 .. MaxFailures]
    <2> DEFINE R == 0 .. MaxFailures
    <2>1. reserved[a] - 1 \in R
        BY <1>3, <1>7, LimitsAre
    <2>2. reserved \in [Clients -> R]
        BY <1>2
    <2> HIDE DEF R
    <2>3. reserved' \in [Clients -> R]
        BY <1>1, <2>1, <2>2
    <2> QED
        BY <2>3 DEF R
<1>11. Reservations'
    <2>1. \A d \in Browsers : pc'[d] \in {"login", "reserve", "verify"} => from'[d] \in Clients
        BY <1>5 DEF Limits, Reservations
    <2>2. Verifying(a)' = Verifying(a) \ {b}
        BY <1>5 DEF Verifying
    <2>3. \A c \in Clients : c # a => Verifying(c)' = Verifying(c)
        BY <1>0, <1>5 DEF Verifying
    <2>4. IsFiniteSet(Verifying(a)') /\ reserved'[a] = Cardinality(Verifying(a)')
        BY <1>7, <1>8, <2>2
    <2>5. \A c \in Clients : c # a => IsFiniteSet(Verifying(c)') /\ reserved'[c] = Cardinality(Verifying(c)')
        BY <1>8, <2>3 DEF Limits, Reservations
    <2> QED
        BY <2>1, <2>4, <2>5 DEF Reservations
<1>12. Guessing'
    <2>1. ASSUME NEW c \in Clients, c # a
          PROVE  /\ \A i \in 1 .. Len(guesses'[c]) : guesses'[c][i] <= now'
                 /\ \A t \in Int : now' - Window <= t =>
                       Later(guesses'[c], t) <= Later(failures'[c], t) + reserved'[c]
                 /\ Later(guesses'[c], now' - Window) <= MaxFailures
        BY <1>1, <1>8, <2>1, PrunedIs DEF Limits, Guessing
    <2>2. CASE failures'[a] = <<>> /\ guesses'[a] = <<>>
        <3>1. <<>> \in Seq(Nat) /\ Len(<<>>) = 0
            OBVIOUS
        <3>2. \A t \in Int : Later(<<>>, t) = 0
            <4>1. \A t \in Int : Later(<<>>, t) \in Nat /\ Later(<<>>, t) <= Len(<<>>)
                BY <3>1, LaterType
            <4> QED
                BY <3>1, <4>1
        <3>3. reserved'[a] \in Nat
            BY <1>3, <1>7, <1>8
        <3>4. now - Window \in Int
            BY PrunedIs
        <3>5. \A i \in 1 .. Len(guesses'[a]) : guesses'[a][i] <= now'
            BY <2>2, <3>1
        <3>6. \A t \in Int : Later(guesses'[a], t) <= Later(failures'[a], t) + reserved'[a]
            BY <2>2, <3>2, <3>3
        <3>7. Later(guesses'[a], now' - Window) <= MaxFailures
            BY <1>1, <2>2, <3>2, <3>4, LimitsAre
        <3>8. ASSUME NEW c \in Clients
              PROVE  /\ \A i \in 1 .. Len(guesses'[c]) : guesses'[c][i] <= now'
                     /\ \A t \in Int : now' - Window <= t =>
                           Later(guesses'[c], t) <= Later(failures'[c], t) + reserved'[c]
                     /\ Later(guesses'[c], now' - Window) <= MaxFailures
            BY <2>1, <3>5, <3>6, <3>7
        <3> QED
            BY <3>8 DEF Guessing, Later
    <2>3. CASE failures'[a] = Append(Pruned[a], now) /\ guesses'[a] = guesses[a]
        <3>1. /\ Pruned[a] \in Seq(Nat) /\ failures[a] \in Seq(Nat) /\ guesses[a] \in Seq(Nat)
              /\ \A i \in 1 .. Len(guesses[a]) : guesses[a][i] <= now
            BY PrunedIs DEF Limits, Guessing
        <3>2. ASSUME NEW t \in Int, now - Window <= t
              PROVE  Later(guesses'[a], t) <= Later(failures'[a], t) + reserved'[a]
            <4>1. /\ Later(guesses[a], t) <= Later(failures[a], t) + reserved[a]
                  /\ Later(Pruned[a], t) = Later(failures[a], t)
                BY <3>2, PrunedIs DEF Limits, Guessing
            <4>2. Later(guesses[a], t) \in Nat /\ Later(failures[a], t) \in Nat
                BY <3>1, LaterType
            <4>3. Later(failures'[a], t) = Later(Pruned[a], t) + (IF now > t THEN 1 ELSE 0)
                BY <1>2, <2>3, <3>1, LaterAppend
            <4>4. CASE now > t
                BY <1>3, <1>7, <1>8, <2>3, <4>1, <4>2, <4>3, <4>4
            <4>5. CASE ~(now > t)
                <5>1. \A i \in 1 .. Len(guesses[a]) : guesses[a][i] <= t
                    <6>1. \A i \in 1 .. Len(guesses[a]) : guesses[a][i] \in Nat
                        BY <3>1
                    <6> QED
                        BY <1>2, <3>1, <4>5, <6>1
                <5>2. Later(guesses[a], t) = 0
                    BY <3>1, <5>1, LaterType
                <5> QED
                    BY <1>3, <1>7, <1>8, <2>3, <4>1, <4>2, <4>3, <4>5, <5>2
            <4> QED
                BY <4>4, <4>5
        <3>3. Later(guesses'[a], now' - Window) <= MaxFailures
            BY <1>1, <2>3 DEF Limits, Guessing
        <3>4. ASSUME NEW c \in Clients
              PROVE  /\ \A i \in 1 .. Len(guesses'[c]) : guesses'[c][i] <= now'
                     /\ \A t \in Int : now' - Window <= t =>
                           Later(guesses'[c], t) <= Later(failures'[c], t) + reserved'[c]
                     /\ Later(guesses'[c], now' - Window) <= MaxFailures
            BY <1>1, <2>1, <2>3, <3>1, <3>2, <3>3
        <3> QED
            BY <3>4 DEF Guessing, Later
    <2> QED
        BY <1>8, <2>2, <2>3
<1>13. RoomInTable'
    <2>1. a \in Remembered /\ Active \subseteq Remembered
        BY <1>7, PrunedIs DEF Remembered
    <2>2. \A c \in Remembered' : c = a \/ c \in Active
        BY <1>8 DEF Remembered, Active
    <2>3. Remembered' \subseteq Remembered
        BY <2>1, <2>2
    <2>4. IsFiniteSet(Remembered) /\ Cardinality(Remembered) <= MaxClients
        BY DEF Limits, RoomInTable
    <2>5. IsFiniteSet(Remembered') /\ Cardinality(Remembered') <= Cardinality(Remembered)
        BY <2>3, <2>4, FS_Subset
    <2>6. Cardinality(Remembered') \in Nat /\ Cardinality(Remembered) \in Nat
        BY <2>4, <2>5, FS_CardinalityType
    <2>7. Cardinality(Remembered') <= MaxClients
        BY <2>4, <2>5, <2>6, LimitsAre
    <2> QED
        BY <2>5, <2>7 DEF RoomInTable
<1> QED
    BY <1>1, <1>2, <1>5, <1>9, <1>10, <1>11, <1>12, <1>13 DEF Limits

\* As time passes windows only begin later.
LEMMA TickKeeps == ASSUME Limits, Tick PROVE Limits'
<1>1. now' = now + 1 /\ now < MaxTime /\ UNCHANGED <<failures, reserved, guesses, pc, from, record>>
    BY DEF Tick, authVars, browserVars
<1>2. now \in Nat /\ now' \in 0 .. MaxTime
    <2>1. now \in 0 .. MaxTime
        BY DEF Limits
    <2>2. now \in Nat
        BY <2>1, LimitsAre
    <2> QED
        BY <1>1, <2>2, LimitsAre
<1>3. Reservations'
    <2>1. \A c \in Clients : Verifying(c)' = Verifying(c)
        BY <1>1 DEF Verifying
    <2> QED
        BY <1>1, <2>1 DEF Limits, Reservations
<1>4. RoomInTable'
    <2>1. Remembered' = Remembered
        BY <1>1 DEF Remembered
    <2> QED
        BY <2>1 DEF Limits, RoomInTable
<1>5. Guessing'
    <2>1. ASSUME NEW c \in Clients
          PROVE  /\ \A i \in 1 .. Len(guesses[c]) : guesses[c][i] <= now'
                 /\ \A t \in Int : now' - Window <= t =>
                       Later(guesses[c], t) <= Later(failures[c], t) + reserved[c]
                 /\ Later(guesses[c], now' - Window) <= MaxFailures
        <3>1. guesses[c] \in Seq(Nat)
            <4> DEFINE T == 0 .. MaxTime
            <4>1. guesses[c] \in Seq(T) /\ T \subseteq Nat
                BY DEF Limits, Times
            <4> HIDE DEF T
            <4>2. guesses[c] \in [1 .. Len(guesses[c]) -> T] /\ Len(guesses[c]) \in Nat
                BY <4>1
            <4>3. guesses[c] \in [1 .. Len(guesses[c]) -> Nat]
                BY <4>1, <4>2
            <4> QED
                BY <4>2, <4>3
        <3>2. \A i \in 1 .. Len(guesses[c]) : guesses[c][i] \in Nat /\ guesses[c][i] <= now
            BY <3>1 DEF Limits, Guessing
        <3>3. \A t \in Int : now' - Window <= t => now - Window <= t
            BY <1>1, <1>2, LimitsAre
        <3>4. Later(guesses[c], now' - Window) <= MaxFailures
            <4> DEFINE t == now - Window
                       u == now' - Window
            <4>1. t \in Int /\ u \in Int /\ t <= u
                BY <1>1, <1>2, LimitsAre
            <4>2. Later(guesses[c], t) <= MaxFailures
                BY DEF Limits, Guessing
            <4> HIDE DEF t, u
            <4>3. /\ Later(guesses[c], t) \in Nat /\ Later(guesses[c], u) \in Nat
                  /\ Later(guesses[c], u) <= Later(guesses[c], t)
                BY <3>1, <4>1, LaterType
            <4>4. Later(guesses[c], u) <= MaxFailures
                BY <4>2, <4>3, LimitsAre
            <4> QED
                BY <4>4 DEF u
        <3>5. \A t \in Int : now' - Window <= t =>
                 Later(guesses[c], t) <= Later(failures[c], t) + reserved[c]
            BY <3>3 DEF Limits, Guessing
        <3>6. \A i \in 1 .. Len(guesses[c]) : guesses[c][i] <= now'
            BY <1>1, <1>2, <3>2
        <3> QED
            BY <3>4, <3>5, <3>6
    <2> QED
        BY <1>1, <2>1 DEF Guessing, Later
<1> QED
    BY <1>1, <1>2, <1>3, <1>4, <1>5 DEF Limits

\* Nothing on record, and nobody who logs in.
Empty ==
    /\ failures = [a \in Clients |-> <<>>] /\ reserved = [a \in Clients |-> 0]
    /\ guesses = [a \in Clients |-> <<>>] /\ now \in 0 .. MaxTime
    /\ pc = [b \in Browsers |-> "idle"] /\ from = [b \in Browsers |-> Nobody]
    /\ record = [b \in Browsers |-> NoPassword]

\* Then nothing counts.
LEMMA EmptyLimits == Empty => Limits
<1> SUFFICES ASSUME Empty PROVE Limits
    OBVIOUS
<1> USE DEF Empty
<1>1. <<>> \in Times /\ Len(<<>>) = 0 /\ <<>> \in Seq(Nat) /\ 0 \in 0 .. MaxFailures
    BY LimitsAre DEF Times
<1>2. \A t \in Int : Later(<<>>, t) = 0
    <2>1. \A t \in Int : Later(<<>>, t) \in Nat /\ Later(<<>>, t) <= Len(<<>>)
        BY <1>1, LaterType
    <2> QED
        BY <1>1, <2>1
<1>3. /\ failures \in [Clients -> Times] /\ reserved \in [Clients -> 0 .. MaxFailures]
      /\ guesses \in [Clients -> Times]
      /\ pc \in [Browsers -> Places] /\ from \in [Browsers -> Clients \cup {Nobody}]
      /\ record \in [Browsers -> Passwords \cup {NoPassword}]
    <2> DEFINE R == 0 .. MaxFailures
    <2>1. 0 \in R /\ <<>> \in Times
        BY <1>1
    <2> HIDE DEF R
    <2>2. reserved \in [Clients -> R] /\ failures \in [Clients -> Times] /\ guesses \in [Clients -> Times]
        BY <2>1
    <2> QED
        BY <2>2 DEF R, Places
<1>4. Reservations
    <2>1. \A c \in Clients : Verifying(c) = {}
        BY DEF Verifying
    <2>2. IsFiniteSet({}) /\ Cardinality({}) = 0
        BY FS_EmptySet
    <2> QED
        BY <2>1, <2>2 DEF Reservations
<1>5. Guessing
    <2>1. now - Window \in Int /\ now \in Int
        <3>1. now \in Nat
            BY LimitsAre
        <3> QED
            BY <3>1, LimitsAre
    <2>2. ASSUME NEW c \in Clients PROVE guesses[c] = <<>> /\ failures[c] = <<>> /\ reserved[c] = 0
        OBVIOUS
    <2>3. ASSUME NEW c \in Clients
          PROVE  /\ \A i \in 1 .. Len(guesses[c]) : guesses[c][i] <= now
                 /\ \A t \in Int : now - Window <= t =>
                       Later(guesses[c], t) <= Later(failures[c], t) + reserved[c]
                 /\ Later(guesses[c], now - Window) <= MaxFailures
        BY <1>1, <1>2, <2>1, <2>2, LimitsAre
    <2> QED
        BY <2>3 DEF Guessing
<1>6. RoomInTable
    <2>1. Remembered = {}
        BY DEF Remembered
    <2>2. IsFiniteSet({}) /\ Cardinality({}) = 0
        BY FS_EmptySet
    <2> QED
        BY <2>1, <2>2, LimitsAre DEF RoomInTable
<1> QED
    BY <1>3, <1>4, <1>5, <1>6 DEF Limits

\* Nor after a step that leaves it so.
LEMMA EmptyLimitsNext == Empty' => Limits'
    BY EmptyLimits, PTL

\* A restart forgets them all.
LEMMA RestartKeeps == ASSUME Limits, Restart PROVE Limits'
<1>1. Empty'
    BY DEF Restart, Limits, Empty
<1> QED
    BY <1>1, EmptyLimitsNext

\* What the theorem rests on: the types, what the limiter counts and the table
\* of the sessions.
Limiter ==
    /\ TypeOK /\ Limits
    /\ IsFiniteSet(sessions) /\ Cardinality(sessions) <= MaxSessions

\* Every step keeps it.
LEMMA LimiterStep == Limiter /\ [Next]_vars => Limiter'
<1> SUFFICES ASSUME Limiter, [Next]_vars PROVE Limiter'
    OBVIOUS
<1>1. TypeOK /\ Limits /\ Reservations
    BY DEF Limiter, Limits
<1>2. Limits'
    <2>1. ASSUME NEW b \in Browsers, OtherStep(b) PROVE Limits'
        BY <1>1, <2>1, OtherWanders, WandersKeeps
    <2>2. ASSUME NEW b \in Browsers, Reserve(b) PROVE Limits'
        BY <1>1, <2>2, ReserveKeeps
    <2>3. ASSUME NEW b \in Browsers, Settle(b) PROVE Limits'
        BY <1>1, <2>3, SettleKeeps
    <2>4. Tick => Limits'
        BY <1>1, TickKeeps
    <2>5. Restart => Limits'
        BY <1>1, RestartKeeps
    <2>6. UNCHANGED vars => Limits'
        BY <1>1 DEF vars, authVars, browserVars, Limits, Reservations, Guessing, RoomInTable, Verifying, Remembered,
           Later
    <2>7. ASSUME NEW b \in Browsers,
                 \/ Step(b) \/ SetUp(b) \/ \E a \in Clients : Login(b, a)
                 \/ GetSession(b) \/ GetConfig(b) \/ PutConfig(b) \/ PostTest(b) \/ Logout(b)
          PROVE  OtherStep(b) \/ Reserve(b) \/ Settle(b)
        BY <2>7 DEF Step, OtherStep
    <2> QED
        BY <2>1, <2>2, <2>3, <2>4, <2>5, <2>6, <2>7 DEF Next
<1>3. /\ sessions' \subseteq [token : 1 .. MaxTokens, expires : 0 .. MaxTime + Lifetime]
      /\ minted' \in 0 .. MaxTokens /\ cookie' \in [Browsers -> 0 .. MaxTokens]
      /\ IsFiniteSet(sessions') /\ Cardinality(sessions') <= MaxSessions
    BY <1>1, SessionsKept DEF Limiter
<1>4. Typed'
    BY <1>1, TypesSplit, StepTyped
<1>5. TypeOK'
    <2>1. told' \in {"nothing", "already", "not saved", "set up", "undone", "uncertain"}
        BY <1>1, ToldKept
    <2>2. /\ stored' \in Settings /\ lifecycle' \in Browsers \cup {Nobody}
          /\ typed' \in [Browsers -> Passwords \cup {NoPassword}] /\ seen' \in [Browsers -> Settings]
        BY <1>4 DEF Typed
    <2>3. /\ failures' \in [Clients -> Times] /\ reserved' \in [Clients -> 0 .. MaxFailures]
          /\ guesses' \in [Clients -> Times] /\ now' \in 0 .. MaxTime
          /\ pc' \in [Browsers -> Places] /\ from' \in [Browsers -> Clients \cup {Nobody}]
          /\ record' \in [Browsers -> Passwords \cup {NoPassword}]
        BY <1>2 DEF Limits
    <2> QED
        BY <1>3, <2>1, <2>2, <2>3, TypesSplit
<1> QED
    BY <1>2, <1>3, <1>5 DEF Limiter

\* It holds at the start.
LEMMA InitLimiter == Init => Limiter
<1> SUFFICES ASSUME Init PROVE Limiter
    OBVIOUS
<1>1. Limits
    <2>1. now \in 0 .. MaxTime
        BY LimitsAre DEF Init
    <2> QED
        BY <2>1, EmptyLimits DEF Init, Empty
<1>2. IsFiniteSet(sessions) /\ Cardinality(sessions) <= MaxSessions
    BY FS_EmptySet, LimitsAre DEF Init
<1>3. Typed
    BY InitTyped
<1>4. TypeOK
    <2> DEFINE T == 0 .. MaxTokens
    <2>1. 0 \in T
        BY LimitsAre
    <2> HIDE DEF T
    <2>2. cookie \in [Browsers -> T] /\ minted \in T
        BY <2>1 DEF Init
    <2>3. sessions = {} /\ told = "nothing"
        BY DEF Init
    <2> QED
        BY <1>1, <1>3, <2>2, <2>3 DEF T, TypeOK, Typed, Limits, Places
<1> QED
    BY <1>1, <1>2, <1>4 DEF Limiter

\* No window of time sees more passwords tried from one address than the limit
\* allows, and neither the clients remembered nor the sessions outgrow their
\* tables (_reserve_login_verification, _create_session_locked).
THEOREM BoundedTheorem == Spec => []Bounded
<1>1. Limiter => Bounded
    <2> SUFFICES ASSUME Limiter PROVE Bounded
        OBVIOUS
    <2>1. TypeOK /\ TablesBounded
        BY DEF Limiter, Limits, RoomInTable, TablesBounded, Remembered
    <2>2. now \in Nat
        BY <2>1, PrunedIs
    <2>3. ASSUME NEW a \in Clients PROVE Cardinality(Fresh(guesses[a])) <= MaxFailures
        <3>1. guesses[a] \in Seq(Nat)
            BY <2>1, PrunedIs
        <3>2. \A i \in DOMAIN guesses[a] : guesses[a][i] \in Nat
            BY <3>1
        <3>3. \A i \in DOMAIN guesses[a] : guesses[a][i] + Window > now <=> guesses[a][i] > now - Window
            BY <2>2, <3>2, LimitsAre
        <3>4. Fresh(guesses[a]) = {i \in DOMAIN guesses[a] : guesses[a][i] > now - Window}
            BY <3>3 DEF Fresh
        <3>5. Later(guesses[a], now - Window) <= MaxFailures
            BY DEF Limiter, Limits, Guessing
        <3> QED
            BY <3>4, <3>5 DEF Later
    <2> QED
        BY <2>1, <2>3 DEF Bounded, GuessesBounded
<1> QED
    BY <1>1, InitLimiter, LimiterStep, PTL DEF Spec

=============================================================================
