------------------------ MODULE CloudOperationsProofs ------------------------
(***************************************************************************)
(* That NapCat is restarted no more often than the limit says, never out   *)
(* of turn and never into a deployment, and that the version deployed is   *)
(* one that works: for any limit, window and lag, any number of runs of    *)
(* the monitor and of deployments, any number of them killed, and any      *)
(* settings of the wall clock.                                             *)
(***************************************************************************)
EXTENDS CloudOperations, FiniteSetTheorems, SequenceTheorems, TLAPS

-----------------------------------------------------------------------------
(* Counting the restarts in a list of ages.                                *)

\* The positions kept are counted off one by one.
LEMMA NthIs ==
    ASSUME NEW n \in Nat, NEW K \in SUBSET (1 .. n)
    PROVE  /\ IsFiniteSet(K) /\ Cardinality(K) \in Nat
           /\ [j \in 1 .. Cardinality(K) |-> Nth(K, j)] \in Bijection(1 .. Cardinality(K), K)
<1> DEFINE c == Cardinality(K)
           Below(i) == {k \in K : k <= i}
           rank == [i \in K |-> Cardinality(Below(i))]
<1>1. IsFiniteSet(K) /\ c \in Nat
    <2>1. IsFiniteSet(1 .. n)
        BY FS_Interval
    <2>2. IsFiniteSet(K)
        BY <2>1, FS_Subset
    <2> QED
        BY <2>2, FS_CardinalityType
<1>2. ASSUME NEW i \in K
      PROVE  IsFiniteSet(Below(i)) /\ Cardinality(Below(i)) \in 1 .. c
    <2>1. IsFiniteSet(Below(i)) /\ Cardinality(Below(i)) <= c /\ Cardinality(Below(i)) \in Nat
        <3>1. Below(i) \subseteq K
            OBVIOUS
        <3> QED
            BY <1>1, <3>1, FS_Subset, FS_CardinalityType
    <2>2. i \in Below(i)
        OBVIOUS
    <2>3. Cardinality(Below(i)) # 0
        BY <2>1, <2>2, FS_EmptySet
    <2> QED
        BY <1>1, <2>1, <2>3
<1>3. ASSUME NEW i \in K, NEW j \in K, i < j
      PROVE  Cardinality(Below(i)) < Cardinality(Below(j))
    <2>1. Below(i) \subseteq Below(j) /\ j \in Below(j) /\ j \notin Below(i)
        <3>1. i \in Nat /\ j \in Nat /\ \A k \in K : k \in Nat
            OBVIOUS
        <3>2. ASSUME NEW k \in K, k <= i PROVE k <= j
            BY <1>3, <3>1, <3>2
        <3>3. ~(j <= i) /\ j <= j
            BY <1>3, <3>1
        <3> QED
            BY <3>2, <3>3
    <2>2. /\ IsFiniteSet(Below(j)) /\ Below(i) # Below(j)
          /\ Cardinality(Below(i)) \in Nat /\ Cardinality(Below(j)) \in Nat
        BY <1>1, <1>2, <2>1
    <2> HIDE DEF Below
    <2>3. Cardinality(Below(i)) <= Cardinality(Below(j)) /\ Cardinality(Below(i)) # Cardinality(Below(j))
        BY <2>1, <2>2, FS_Subset
    <2> QED
        BY <2>2, <2>3
<1>4. rank \in Injection(K, 1 .. c)
    <2>1. rank \in [K -> 1 .. c]
        BY <1>2
    <2>2. ASSUME NEW i \in K, NEW j \in K, i # j PROVE rank[i] # rank[j]
        <3>1. Cardinality(Below(i)) \in Nat /\ Cardinality(Below(j)) \in Nat
            BY <1>2
        <3> HIDE DEF Below
        <3>2. i < j \/ j < i
            BY <2>2
        <3> QED
            BY <1>3, <3>1, <3>2
    <2> HIDE DEF rank
    <2> QED
        BY <2>1, <2>2 DEF Injection, IsInjective
<1>5. rank \in Surjection(K, 1 .. c)
    <2>1. IsFiniteSet(1 .. c) /\ Cardinality(1 .. c) = c
        BY <1>1, FS_Interval
    <2> HIDE DEF rank
    <2> QED
        BY <1>1, <1>4, <2>1, FS_Injection
<1>6. \A j \in 1 .. c : Nth(K, j) \in K /\ rank[Nth(K, j)] = j
    <2>1. ASSUME NEW j \in 1 .. c PROVE \E i \in K : Cardinality({k \in K : k <= i}) = j
        <3>1. \E i \in K : rank[i] = j
            <4> HIDE DEF rank
            <4> QED
                BY <1>5 DEF Surjection
        <3> QED
            BY <3>1
    <2> QED
        BY <2>1 DEF Nth
<1> HIDE DEF rank, c
<1>7. \A i \in K : rank[i] \in 1 .. c /\ Nth(K, rank[i]) = i
    BY <1>4, <1>6 DEF Injection, IsInjective
<1> DEFINE f == [j \in 1 .. c |-> Nth(K, j)]
<1>8. f \in [1 .. c -> K] /\ \A i, j \in 1 .. c : f[i] = f[j] => i = j
    BY <1>6
<1>9. \A i \in K : \E j \in 1 .. c : f[j] = i
    BY <1>7
<1>10. f \in Bijection(1 .. c, K)
    <2> HIDE DEF f
    <2> QED
        BY <1>8, <1>9 DEF Bijection, Injection, Surjection, IsInjective
<1> QED
    BY <1>1, <1>10 DEF c

\* How many elements of a list are in T.
Count(s, T) == Cardinality({i \in DOMAIN s : s[i] \in T})

\* Of the elements kept a list has as many as before, and no others.
LEMMA KeptIs ==
    ASSUME NEW S, NEW s \in Seq(S), NEW K \in SUBSET DOMAIN s
    PROVE  /\ Kept(s, K) \in Seq(S) /\ Len(Kept(s, K)) = Cardinality(K)
           /\ Cardinality(K) \in Nat /\ IsFiniteSet(K) /\ Cardinality(K) <= Len(s)
           /\ \A T : Count(Kept(s, K), T) = Cardinality({i \in K : s[i] \in T})
<1> DEFINE c == Cardinality(K)
           f == [j \in 1 .. c |-> Nth(K, j)]
           r == Kept(s, K)
<1>1. DOMAIN s = 1 .. Len(s) /\ Len(s) \in Nat /\ \A i \in 1 .. Len(s) : s[i] \in S
    OBVIOUS
<1>2. IsFiniteSet(K) /\ c \in Nat /\ f \in Bijection(1 .. c, K)
    BY <1>1, NthIs
<1>3. r = [j \in 1 .. c |-> s[f[j]]]
    BY DEF Kept
<1> HIDE DEF f, c, r
<1>4. /\ f \in [1 .. c -> K] /\ \A i, j \in 1 .. c : f[i] = f[j] => i = j
      /\ \A i \in K : \E j \in 1 .. c : f[j] = i
    BY <1>2 DEF Bijection, Injection, Surjection, IsInjective
<1>5. r \in [1 .. c -> S]
    BY <1>1, <1>3, <1>4
<1>6. r \in Seq(S) /\ Len(r) = c /\ DOMAIN r = 1 .. c
    BY <1>2, <1>5
<1>7. c <= Len(s)
    <2>1. IsFiniteSet(1 .. Len(s)) /\ Cardinality(1 .. Len(s)) = Len(s)
        BY <1>1, FS_Interval
    <2> QED
        BY <1>1, <2>1, FS_Subset DEF c
<1>8. ASSUME NEW T PROVE Count(r, T) = Cardinality({i \in K : s[i] \in T})
    <2> DEFINE A == {j \in 1 .. c : r[j] \in T}
               B == {i \in K : s[i] \in T}
               g == [j \in A |-> f[j]]
    <2>1. g \in [A -> B] /\ \A i, j \in A : g[i] = g[j] => i = j
        BY <1>3, <1>4
    <2>2. \A i \in B : \E j \in A : g[j] = i
        BY <1>3, <1>4
    <2>3. IsFiniteSet(A)
        BY <1>2, FS_Interval, FS_Subset
    <2> HIDE DEF A, B, g
    <2>4. g \in Bijection(A, B)
        BY <2>1, <2>2 DEF Bijection, Injection, Surjection, IsInjective
    <2>5. Cardinality(B) = Cardinality(A)
        BY <2>3, <2>4, FS_Bijection DEF ExistsBijection
    <2> QED
        BY <1>6, <2>5 DEF A, B, Count
<1> QED
    BY <1>2, <1>6, <1>7, <1>8 DEF c, r

\* A list has no more ages within x than it is long, and more the larger x is.
LEMMA WithinType ==
    ASSUME NEW s \in Seq(Int), NEW x \in Int
    PROVE  /\ Within(s, x) \in Nat /\ Within(s, x) <= Len(s)
           /\ \A y \in Int : x <= y => Within(s, y) \in Nat /\ Within(s, x) <= Within(s, y)
<1> DEFINE A(y) == {i \in DOMAIN s : s[i] \in 0 .. y}
<1>1. DOMAIN s = 1 .. Len(s) /\ Len(s) \in Nat /\ \A i \in 1 .. Len(s) : s[i] \in Int
    OBVIOUS
<1>2. IsFiniteSet(DOMAIN s) /\ Cardinality(DOMAIN s) = Len(s)
    <2> HIDE DEF A
    <2>1. IsFiniteSet(1 .. Len(s)) /\ Cardinality(1 .. Len(s)) = Len(s)
        <3>1. Len(s) \in Nat
            OBVIOUS
        <3> QED
            BY <3>1, FS_Interval
    <2> QED
        BY <1>1, <2>1
<1>3. ASSUME NEW y \in Int
      PROVE  IsFiniteSet(A(y)) /\ Cardinality(A(y)) \in Nat /\ Cardinality(A(y)) <= Len(s)
    <2>1. A(y) \subseteq DOMAIN s
        OBVIOUS
    <2> HIDE DEF A
    <2> QED
        BY <1>2, <2>1, FS_Subset, FS_CardinalityType
<1>4. ASSUME NEW y \in Int, x <= y PROVE Cardinality(A(x)) <= Cardinality(A(y))
    <2>1. A(x) \subseteq A(y)
        BY <1>1, <1>4
    <2>2. IsFiniteSet(A(y))
        BY <1>3
    <2> HIDE DEF A
    <2> QED
        BY <2>1, <2>2, FS_Subset
<1> QED
    BY <1>3, <1>4 DEF Within

\* A list of true ages is one of ages.
LEMMA TrueAges == \A s \in Seq(Nat) : s \in Seq(Int)
<1>1. ASSUME NEW s \in Seq(Nat) PROVE s \in Seq(Int)
    <2>1. Len(s) \in Nat /\ s \in [1 .. Len(s) -> Nat]
        OBVIOUS
    <2>2. s \in [1 .. Len(s) -> Int]
        BY <2>1
    <2> QED
        BY <2>1, <2>2
<1> QED
    BY <1>1

\* Ages that are shifted are ages.
LEMMA ShiftedIs ==
    ASSUME NEW s \in Seq(Int), NEW d \in Int
    PROVE  /\ Shifted(s, d) \in Seq(Int) /\ Len(Shifted(s, d)) = Len(s)
           /\ DOMAIN Shifted(s, d) = DOMAIN s
           /\ \A i \in DOMAIN s : Shifted(s, d)[i] = s[i] + d
<1>1. DOMAIN s = 1 .. Len(s) /\ Len(s) \in Nat /\ \A i \in 1 .. Len(s) : s[i] \in Int
    OBVIOUS
<1> QED
    BY <1>1 DEF Shifted

\* A minute later no fewer ages are within a minute more, and of true ages no
\* more either.
LEMMA WithinShifted ==
    ASSUME NEW s \in Seq(Int), NEW x \in Int
    PROVE  /\ Within(s, x - 1) \in Nat /\ Within(Shifted(s, 1), x) \in Nat
           /\ Within(s, x - 1) <= Within(Shifted(s, 1), x)
           /\ s \in Seq(Nat) => /\ Shifted(s, 1) \in Seq(Nat)
                                /\ Within(Shifted(s, 1), x) = Within(s, x - 1)
<1> DEFINE t == Shifted(s, 1)
           A == {i \in DOMAIN s : s[i] \in 0 .. x - 1}
           B == {i \in DOMAIN t : t[i] \in 0 .. x}
<1>1. DOMAIN s = 1 .. Len(s) /\ Len(s) \in Nat /\ \A i \in 1 .. Len(s) : s[i] \in Int
    OBVIOUS
<1>2. /\ t \in Seq(Int) /\ Len(t) = Len(s) /\ DOMAIN t = DOMAIN s
      /\ \A i \in DOMAIN s : t[i] = s[i] + 1
    BY ShiftedIs
<1> HIDE DEF t
<1>3. A \subseteq B
    BY <1>1, <1>2
<1>4. IsFiniteSet(B)
    <2>1. IsFiniteSet(DOMAIN s) /\ B \subseteq DOMAIN s
        BY <1>1, <1>2, FS_Interval
    <2> QED
        BY <2>1, FS_Subset
<1>5. s \in Seq(Nat) => t \in Seq(Nat) /\ A = B
    <2>1. ASSUME s \in Seq(Nat) PROVE t \in Seq(Nat) /\ A = B
        <3>1. \A i \in 1 .. Len(s) : s[i] \in Nat
            BY <2>1
        <3>2. \A i \in 1 .. Len(s) : t[i] \in Nat /\ t[i] = s[i] + 1
            BY <1>1, <1>2, <3>1
        <3>3. t \in Seq(Nat)
            <4>1. t \in [1 .. Len(s) -> Int]
                BY <1>2
            <4>2. t \in [1 .. Len(s) -> Nat]
                BY <3>2, <4>1
            <4> QED
                BY <1>1, <4>2
        <3>4. A = B
            BY <1>1, <1>2, <3>1, <3>2
        <3> QED
            BY <3>3, <3>4
    <2> QED
        BY <2>1
<1> HIDE DEF A, B
<1>6. Cardinality(A) <= Cardinality(B) /\ Cardinality(A) \in Nat /\ Cardinality(B) \in Nat
    BY <1>3, <1>4, FS_Subset, FS_CardinalityType
<1> QED
    BY <1>5, <1>6 DEF A, B, Within, t

\* What is kept of a list for its age alone, of which those within x are some.
LEMMA WithinKept ==
    ASSUME NEW s \in Seq(Int), NEW K \in SUBSET DOMAIN s
    PROVE  /\ Kept(s, K) \in Seq(Int) /\ Len(Kept(s, K)) \in Nat /\ Len(Kept(s, K)) <= Len(s)
           /\ \A x \in Int : {i \in DOMAIN s : s[i] \in 0 .. x} \subseteq K
                             => Within(Kept(s, K), x) = Within(s, x)
<1>1. /\ Kept(s, K) \in Seq(Int) /\ Len(Kept(s, K)) = Cardinality(K)
      /\ Cardinality(K) \in Nat /\ IsFiniteSet(K) /\ Cardinality(K) <= Len(s)
      /\ \A T : Count(Kept(s, K), T) = Cardinality({i \in K : s[i] \in T})
    BY KeptIs
<1>2. ASSUME NEW x \in Int, {i \in DOMAIN s : s[i] \in 0 .. x} \subseteq K
      PROVE  Within(Kept(s, K), x) = Within(s, x)
    <2> DEFINE T == 0 .. x
    <2> HIDE DEF T
    <2>1. {i \in K : s[i] \in T} = {i \in DOMAIN s : s[i] \in T}
        BY <1>2 DEF T
    <2>2. Count(Kept(s, K), T) = Cardinality({i \in DOMAIN s : s[i] \in T})
        BY <1>1, <2>1
    <2> QED
        BY <2>2 DEF T, Count, Within
<1> QED
    BY <1>1, <1>2

\* What has left the window was not within it.
LEMMA WithinPrune ==
    ASSUME NEW s \in Seq(Int)
    PROVE  /\ Prune(s) \in Seq(Int) /\ Len(Prune(s)) <= Len(s) /\ Len(Prune(s)) \in Nat
           /\ \A x \in Int : x <= Window => Within(Prune(s), x) = Within(s, x)
           /\ s \in Seq(Nat) => Prune(s) \in Seq(Nat)
<1> DEFINE K == {i \in DOMAIN s : s[i] <= Window}
<1>1. Window \in Nat
    BY CloudAssumption
<1>2. Prune(s) = Kept(s, K)
    BY DEF Prune
<1>3. \A i \in DOMAIN s : s[i] \in Int
    OBVIOUS
<1>4. ASSUME NEW x \in Int, x <= Window
      PROVE  {i \in DOMAIN s : s[i] \in 0 .. x} \subseteq K
    BY <1>1, <1>3, <1>4
<1>5. K \in SUBSET DOMAIN s
    OBVIOUS
<1> HIDE DEF K
<1>6. s \in Seq(Nat) => Kept(s, K) \in Seq(Nat)
    BY <1>5, KeptIs
<1> QED
    BY <1>2, <1>4, <1>5, <1>6, WithinKept

\* What is yet to come is not within anything.
LEMMA WithinPast ==
    ASSUME NEW s \in Seq(Int)
    PROVE  /\ Past(s) \in Seq(Int) /\ Len(Past(s)) <= Len(s) /\ Len(Past(s)) \in Nat
           /\ \A x \in Int : Within(Past(s), x) = Within(s, x)
<1> DEFINE K == {i \in DOMAIN s : s[i] >= 0}
<1>1. Past(s) = Kept(s, K)
    BY DEF Past
<1>2. ASSUME NEW x \in Int
      PROVE  {i \in DOMAIN s : s[i] \in 0 .. x} \subseteq K
    OBVIOUS
<1>3. K \in SUBSET DOMAIN s
    OBVIOUS
<1> HIDE DEF K
<1> QED
    BY <1>1, <1>2, <1>3, WithinKept

\* One more restart is one more to count, if it is recent enough.
LEMMA WithinAppend ==
    ASSUME NEW s \in Seq(Int), NEW a \in Int, NEW x \in Int
    PROVE  /\ Append(s, a) \in Seq(Int) /\ Len(Append(s, a)) = Len(s) + 1
           /\ Within(Append(s, a), x) = Within(s, x) + (IF a \in 0 .. x THEN 1 ELSE 0)
<1> DEFINE t == Append(s, a)
           A == {i \in DOMAIN s : s[i] \in 0 .. x}
           B == {i \in DOMAIN t : t[i] \in 0 .. x}
           n == Len(s) + 1
<1>1. DOMAIN s = 1 .. Len(s) /\ Len(s) \in Nat /\ \A i \in 1 .. Len(s) : s[i] \in Int
    OBVIOUS
<1>2. /\ DOMAIN t = 1 .. n /\ \A i \in 1 .. Len(s) : t[i] = s[i]
      /\ t[n] = a /\ t \in Seq(Int) /\ Len(t) = n
    OBVIOUS
<1>3. IsFiniteSet(A) /\ n \notin A
    <2>1. IsFiniteSet(DOMAIN s) /\ A \subseteq DOMAIN s
        BY <1>1, FS_Interval
    <2> QED
        BY <1>1, <2>1, FS_Subset
<1> HIDE DEF t
<1>4. CASE a \in 0 .. x
    <2>1. B = A \cup {n}
        BY <1>1, <1>2, <1>4
    <2> HIDE DEF A, B
    <2>2. Cardinality(B) = Cardinality(A) + 1
        BY <1>3, <2>1, FS_AddElement
    <2> QED
        BY <1>2, <1>4, <2>2 DEF Within, A, B, t
<1>5. CASE ~(a \in 0 .. x)
    <2>1. B = A
        BY <1>1, <1>2, <1>5
    <2>2. Cardinality(A) \in Nat
        BY <1>3, FS_CardinalityType
    <2> HIDE DEF A, B
    <2>3. Within(s, x) = Within(t, x) /\ Within(s, x) \in Nat
        BY <2>1, <2>2 DEF Within, A, B
    <2> QED
        BY <1>2, <1>5, <2>3 DEF t
<1> QED
    BY <1>4, <1>5

-----------------------------------------------------------------------------
(* The invariant.                                                          *)

Labels == {"idle", "observe", "due", "probing", "recheck", "restart", "write", "public"}
Asking == {"due", "probing", "recheck", "restart"}
RunState == [at : 0 .. Lag, shift : Int, seen : Answers \cup {"unknown"}, state : State,
             epoch : Versions, restarted : BOOLEAN]

Types ==
    /\ onebot \in Answers /\ private \in State
    /\ monitorLock \in Monitors \cup {NoOne}
    /\ deployLock \in Monitors \cup {NoOne, Deployment}
    /\ pc \in [Monitors -> Labels] /\ run \in [Monitors -> RunState]
    /\ deploy \in {"idle", "import", "up", "verify", "rollback", "rolled"}
    /\ target \in Versions /\ previous \in Versions /\ head \in Versions /\ running \in Versions
    /\ deploy # "idle" <=> deployLock = Deployment
    /\ unsettled \in BOOLEAN /\ kills \in 0 .. MaxKills /\ jumps \in 0 .. MaxJumps
    /\ recent \in Seq(Nat) /\ missed \in Seq(Nat) /\ checks \in 0 .. Threshold

\* Whoever is past the lock holds it: the runs that seem to overlap do not.
Holds(m) == pc[m] # "idle" => monitorLock = m

\* A count of failures is borne out by the checks on file, d of them to come.
Counted(n, d) == n <= checks + d \/ Threshold <= checks + d

\* What a run knows of the failures, until it is written.
Failing(m) ==
    /\ pc[m] = "observe" => run[m].state.failures <= MaxCount /\ Counted(run[m].state.failures, 0)
    /\ pc[m] \in Asking => run[m].seen = "disconnected" /\ Threshold <= checks + 1
    /\ pc[m] = "write" =>
          /\ run[m].restarted \/ run[m].seen = "connected" => run[m].state.failures = 0
          /\ run[m].seen = "disconnected" => Counted(run[m].state.failures, 1)
          /\ run[m].seen = "unknown" => Counted(run[m].state.failures, 0)

\* It restarts within the limit, and once.
Keeping(m) ==
    /\ pc[m] \in Asking => Len(run[m].state.stamps) < MaxRecoveries
    /\ run[m].restarted => pc[m] \in {"idle", "write", "public"}

\* No deployment began before the run looked at its lock and is still at work.
Avoiding(m) ==
    /\ pc[m] = "probing" => deployLock = m
    /\ pc[m] \in {"probing", "recheck", "restart"} =>
          run[m].epoch <= target /\ (deploy # "idle" => run[m].epoch < target)

\* A restart that is not on file yet.
Unwritten(m) == pc[m] = "write" /\ run[m].restarted

\* A run whose state is to go on file.
Knows(m) == pc[m] \notin {"idle", "public"}

\* How often NapCat was restarted is on file, each restart dated back by no more
\* than the lag, or it is known to the run that will write it, or was missed.
Limit ==
    \A x \in Int : x <= Window - Lag =>
        /\ (\A m \in Monitors : ~Unwritten(m)) =>
              Within(recent, x) <= Within(private.stamps, x + Lag) + Within(missed, x)
        /\ \A m \in Monitors : Unwritten(m) =>
              Within(recent, x) <= Within(private.stamps, x + Lag) + Within(missed, x) + 1
        /\ \A m \in Monitors : Knows(m) =>
              Within(recent, x) <= Within(run[m].state.stamps, x + Lag) + Within(missed, x)

Monitoring ==
    /\ \A m \in Monitors : Holds(m) /\ Failing(m) /\ Keeping(m) /\ Avoiding(m)
    /\ Counted(private.failures, 0)
    /\ Limit

\* Where a deployment stands says what is checked out and what runs.
Deploying ==
    /\ deploy = "import" => head = previous
    /\ deploy \in {"idle", "import"} /\ ~unsettled => head = running /\ running \in good
    /\ deploy = "verify" => running = head
    /\ deploy \in {"up", "verify", "rollback", "rolled"} /\ ~unsettled => previous \in good
    /\ deploy = "rolled" => head = previous /\ running = previous

Inv == Types /\ Monitoring /\ Deploying

-----------------------------------------------------------------------------
(* What the steps have in common.                                          *)

\* The bounds are numbers; whoever holds a lock is who it says.
LEMMA BoundsAre ==
    /\ Threshold \in Nat /\ Threshold > 0 /\ Window \in Nat /\ MaxRecoveries \in Nat
    /\ MaxRecoveries > 0 /\ MaxCount \in Nat /\ Threshold <= MaxCount /\ Lag \in Nat
    /\ Lag <= Window /\ MaxDeploys \in Nat /\ MaxKills \in Nat /\ MaxJumps \in Nat
    /\ Jumps \subseteq Int
    /\ NoOne # Deployment /\ \A m \in Monitors : m # NoOne /\ m # Deployment
<1>1. \A n \in {Threshold, Window, MaxRecoveries, MaxCount} : n \in Nat /\ n > 0
    <2>1. {Threshold, Window, MaxRecoveries, MaxCount} \subseteq Nat \ {0}
        BY CloudAssumption
    <2>2. \A n \in Nat \ {0} : n \in Nat /\ n > 0
        OBVIOUS
    <2> QED
        BY <2>1, <2>2
<1>2. /\ Lag \in 0 .. Window /\ MaxDeploys \in Nat /\ MaxKills \in Nat /\ MaxJumps \in Nat
      /\ Threshold <= MaxCount /\ Jumps \subseteq Int
    BY CloudAssumption
<1>3. NoOne # Deployment /\ \A m \in Monitors : m # NoOne /\ m # Deployment
    <2>1. {NoOne, Deployment} \cap Monitors = {}
        BY CloudAssumption
    <2>2. NoOne # Deployment
        BY DEF NoOne, Deployment
    <2>3. ASSUME NEW m \in Monitors PROVE m \notin {NoOne, Deployment}
        BY <2>1
    <2> QED
        BY <2>2, <2>3
<1>4. /\ Threshold \in Nat /\ Threshold > 0 /\ Window \in Nat /\ MaxRecoveries \in Nat
      /\ MaxRecoveries > 0 /\ MaxCount \in Nat
    BY <1>1
<1>5. Lag \in Nat /\ Lag <= Window
    BY <1>2, <1>4
<1> QED
    BY <1>2, <1>3, <1>4, <1>5

\* What a state of the monitor is made of.
LEMMA StateIs ==
    /\ \A s \in State :
          /\ s.failures \in 0 .. MaxCount + 1 /\ s.stamps \in Seq(Int)
          /\ Len(s.stamps) \in Nat /\ Len(s.stamps) <= MaxRecoveries
          /\ s = [failures |-> s.failures, stamps |-> s.stamps]
    /\ \A n \in 0 .. MaxCount + 1, q \in Seq(Int) :
          Len(q) <= MaxRecoveries => [failures |-> n, stamps |-> q] \in State
BY DEF State

\* What a run keeps is of its type.
LEMMA RunIs ==
    ASSUME Types, NEW m \in Monitors
    PROVE  /\ run[m].at \in 0 .. Lag /\ run[m].seen \in Answers \cup {"unknown"}
           /\ run[m].state \in State /\ run[m].epoch \in Versions /\ run[m].restarted \in BOOLEAN
           /\ run[m].shift \in Int
           /\ run[m] = [at |-> run[m].at, shift |-> run[m].shift, seen |-> run[m].seen,
                        state |-> run[m].state, epoch |-> run[m].epoch,
                        restarted |-> run[m].restarted]
<1>1. run[m] \in RunState
    BY DEF Types
<1> QED
    BY <1>1 DEF RunState

\* A run that is set keeps the type of them all.
LEMMA RunTyped ==
    ASSUME Types, NEW m \in Monitors, NEW r \in RunState
    PROVE  [run EXCEPT ![m] = r] \in [Monitors -> RunState]
BY DEF Types

\* A run that has not begun keeps nothing.
LEMMA FreshIs == Fresh \in RunState /\ Blank \in State
<1>1. Blank \in State
    <2>1. <<>> \in Seq(Int) /\ Len(<<>>) = 0
        OBVIOUS
    <2>2. 0 \in 0 .. MaxCount + 1 /\ 0 <= MaxRecoveries
        BY BoundsAre
    <2> QED
        BY <2>1, <2>2, StateIs DEF Blank
<1>2. 0 \in Versions /\ 0 \in 0 .. Lag
    BY BoundsAre DEF Versions
<1> QED
    BY <1>1, <1>2 DEF Fresh, RunState

\* The runs that are not past the lock hold to whatever is asked of them.
LEMMA IdleIsFine ==
    ASSUME NEW n \in Monitors
    PROVE  /\ pc[n] = "idle" =>
                 /\ Holds(n) /\ Failing(n) /\ Keeping(n) /\ Avoiding(n)
                 /\ ~Unwritten(n) /\ ~Knows(n)
           /\ pc'[n] = "idle" =>
                 /\ Holds(n)' /\ Failing(n)' /\ Keeping(n)' /\ Avoiding(n)'
                 /\ ~Unwritten(n)' /\ ~Knows(n)'
BY DEF Holds, Failing, Keeping, Avoiding, Unwritten, Knows, Asking

\* While one run is past the lock, no other is.
LEMMA OthersIdle ==
    ASSUME Inv, NEW m \in Monitors, pc[m] # "idle" \/ monitorLock = NoOne
    PROVE  \A n \in Monitors \ {m} : pc[n] = "idle" /\ ~Unwritten(n) /\ ~Knows(n)
BY BoundsAre DEF Inv, Monitoring, Holds, Unwritten, Knows

\* The step of a run leaves the others where they were, so that what is to be
\* shown of it is shown of that run alone.
LEMMA OneRun ==
    ASSUME NEW m \in Monitors, Holds(m)', Failing(m)', Keeping(m)', Avoiding(m)',
           \A n \in Monitors \ {m} : pc'[n] = "idle",
           Counted(private.failures, 0)',
           ASSUME NEW x \in Int, x <= Window - Lag
           PROVE  /\ ~Unwritten(m)' =>
                        Within(recent', x) <= Within(private'.stamps, x + Lag) + Within(missed', x)
                  /\ Unwritten(m)' =>
                        Within(recent', x)
                           <= Within(private'.stamps, x + Lag) + Within(missed', x) + 1
                  /\ Knows(m)' =>
                        Within(recent', x)
                           <= Within(run'[m].state.stamps, x + Lag) + Within(missed', x)
    PROVE  Monitoring'
<1>1. \A n \in Monitors : Holds(n)' /\ Failing(n)' /\ Keeping(n)' /\ Avoiding(n)'
    BY IdleIsFine
<1>2. \A n \in Monitors \ {m} : ~Unwritten(n)' /\ ~Knows(n)'
    BY IdleIsFine
<1>3. Limit'
    BY <1>2 DEF Limit
<1> QED
    BY <1>1, <1>3 DEF Monitoring

\* As the limit was kept, for one run that is past the lock.
LEMMA LimitFor ==
    ASSUME Inv, NEW m \in Monitors, pc[m] # "idle" \/ monitorLock = NoOne,
           NEW x \in Int, x <= Window - Lag
    PROVE  /\ Within(recent, x) \in Nat /\ Within(private.stamps, x + Lag) \in Nat
           /\ Within(run[m].state.stamps, x + Lag) \in Nat /\ Within(missed, x) \in Nat
           /\ x + Lag \in Int /\ x + Lag <= Window
           /\ ~Unwritten(m) =>
                 Within(recent, x) <= Within(private.stamps, x + Lag) + Within(missed, x)
           /\ Unwritten(m) =>
                 Within(recent, x) <= Within(private.stamps, x + Lag) + Within(missed, x) + 1
           /\ Knows(m) =>
                 Within(recent, x) <= Within(run[m].state.stamps, x + Lag) + Within(missed, x)
<1>1. Types /\ Monitoring /\ Limit
    BY DEF Inv, Monitoring
<1>2. x + Lag \in Int /\ x + Lag <= Window
    BY BoundsAre
<1>3. /\ recent \in Seq(Int) /\ missed \in Seq(Int)
      /\ private.stamps \in Seq(Int) /\ run[m].state.stamps \in Seq(Int)
    BY <1>1, RunIs, StateIs, TrueAges DEF Types
<1>4. /\ Within(recent, x) \in Nat /\ Within(private.stamps, x + Lag) \in Nat
      /\ Within(run[m].state.stamps, x + Lag) \in Nat /\ Within(missed, x) \in Nat
    BY <1>2, <1>3, WithinType
<1>5. \A n \in Monitors \ {m} : ~Unwritten(n)
    BY OthersIdle
<1>6. /\ ~Unwritten(m) =>
            Within(recent, x) <= Within(private.stamps, x + Lag) + Within(missed, x)
      /\ Unwritten(m) =>
            Within(recent, x) <= Within(private.stamps, x + Lag) + Within(missed, x) + 1
      /\ Knows(m) =>
            Within(recent, x) <= Within(run[m].state.stamps, x + Lag) + Within(missed, x)
    BY <1>1, <1>5 DEF Limit
<1> QED
    BY <1>2, <1>4, <1>6

-----------------------------------------------------------------------------
(* The deployment.                                                         *)

\* Nothing the monitor goes by changes but the deployment, and no new one
\* escapes a run that has looked at the lock.
LEMMA DeployAside ==
    ASSUME Inv, UNCHANGED <<private, monitorLock, pc, run, history>>,
           \/ deploy # "idle" /\ target' = target
           \/ deploy = "idle" /\ target' = target + 1 /\ deployLock' = deployLock
           \/ deploy = "idle" /\ target' = target + 1 /\ deployLock = NoOne
    PROVE  Monitoring'
<1>1. Types /\ Monitoring
    BY DEF Inv
<1>2. ASSUME NEW m \in Monitors
      PROVE  Holds(m)' /\ Failing(m)' /\ Keeping(m)'
    BY <1>1 DEF Monitoring, Holds, Failing, Keeping, Counted, history
<1>3. ASSUME NEW m \in Monitors
      PROVE  Avoiding(m)'
    <2>1. Avoiding(m) /\ m # NoOne /\ m # Deployment
        BY <1>1, BoundsAre DEF Monitoring
    <2>2. run[m].epoch \in Nat /\ target \in Nat
        BY <1>1, RunIs, BoundsAre DEF Versions, Types
    <2>3. deploy # "idle" <=> deployLock = Deployment
        BY <1>1 DEF Types
    <2>4. pc'[m] = "probing" => deployLock' = m
        BY <2>1, <2>3 DEF Avoiding
    <2>5. pc'[m] \in {"probing", "recheck", "restart"} =>
                run'[m].epoch <= target' /\ (deploy' # "idle" => run'[m].epoch < target')
        BY <2>1, <2>2 DEF Avoiding
    <2> QED
        BY <2>4, <2>5 DEF Avoiding
<1>4. Counted(private.failures, 0)'
    BY <1>1 DEF Monitoring, Counted, history
<1>5. Limit'
    BY <1>1 DEF Monitoring, Limit, Unwritten, Knows, history
<1> QED
    BY <1>2, <1>3, <1>4, <1>5 DEF Monitoring

\* The deployment's types, apart from the monitor's.
LEMMA DeployTypes ==
    ASSUME Types, UNCHANGED <<onebot, private, monitorLock, pc, run, history, jumps>>,
           deployLock' \in Monitors \cup {NoOne, Deployment},
           deploy' \in {"idle", "import", "up", "verify", "rollback", "rolled"},
           target' \in Versions, previous' \in Versions, head' \in Versions, running' \in Versions,
           deploy' # "idle" <=> deployLock' = Deployment,
           unsettled' \in BOOLEAN, kills' \in 0 .. MaxKills
    PROVE  Types'
BY DEF Types, history

\* Every step of a deployment keeps what is said of it, and of the monitor.
LEMMA DeployKeeps ==
    ASSUME Inv, DeployStep
    PROVE  Inv'
<1>1. Types /\ Deploying /\ Monitoring
    BY DEF Inv
<1> USE BoundsAre
<1>2. /\ target \in Versions /\ previous \in Versions /\ head \in Versions /\ running \in Versions
      /\ deploy # "idle" <=> deployLock = Deployment
      /\ unsettled \in BOOLEAN /\ kills \in 0 .. MaxKills
      /\ deployLock \in Monitors \cup {NoOne, Deployment}
      /\ deploy \in {"idle", "import", "up", "verify", "rollback", "rolled"}
      /\ 0 \in Versions
    BY <1>1 DEF Types, Versions
<1>3. CASE DeployBegin
    <2>1. target' \in Versions
        BY <1>2, <1>3 DEF DeployBegin, Versions
    <2>2. Types'
        BY <1>1, <1>2, <1>3, <2>1, DeployTypes DEF DeployBegin
    <2>3. Deploying'
        BY <1>1, <1>3 DEF DeployBegin, Deploying
    <2>4. Monitoring'
        BY <1>3, DeployAside DEF DeployBegin
    <2> QED
        BY <2>2, <2>3, <2>4 DEF Inv
<1>4. CASE ImportFails
    <2>1. Types'
        BY <1>1, <1>2, <1>4, DeployTypes DEF ImportFails, Ended, RestOfHost
    <2>2. Deploying'
        BY <1>1, <1>4 DEF ImportFails, Ended, RestOfHost, Deploying
    <2>3. Monitoring'
        BY <1>4, DeployAside DEF ImportFails, Ended, RestOfHost
    <2> QED
        BY <2>1, <2>2, <2>3 DEF Inv
<1>5. CASE CheckOut
    <2>1. Types'
        BY <1>1, <1>2, <1>5, DeployTypes DEF CheckOut, Step, RestOfHost
    <2>2. Deploying'
        BY <1>1, <1>5 DEF CheckOut, Step, RestOfHost, Deploying
    <2>3. Monitoring'
        BY <1>5, DeployAside DEF CheckOut, Step, RestOfHost
    <2> QED
        BY <2>1, <2>2, <2>3 DEF Inv
<1>6. CASE Up
    <2>1. Types'
        BY <1>1, <1>2, <1>6, DeployTypes DEF Up, RestOfHost
    <2>2. Deploying'
        BY <1>1, <1>6 DEF Up, RestOfHost, Deploying
    <2>3. Monitoring'
        BY <1>6, DeployAside DEF Up, RestOfHost
    <2> QED
        BY <2>1, <2>2, <2>3 DEF Inv
<1>7. CASE Verified
    <2>1. Types'
        BY <1>1, <1>2, <1>7, DeployTypes DEF Verified, Ended, RestOfHost
    <2>2. Deploying'
        BY <1>1, <1>7 DEF Verified, Healthy, Ended, RestOfHost, Deploying
    <2>3. Monitoring'
        BY <1>7, DeployAside DEF Verified, Ended, RestOfHost
    <2> QED
        BY <2>1, <2>2, <2>3 DEF Inv
<1>8. CASE DeadlinePasses
    <2>1. Types'
        BY <1>1, <1>2, <1>8, DeployTypes DEF DeadlinePasses, Step, RestOfHost
    <2>2. Deploying'
        BY <1>1, <1>8 DEF DeadlinePasses, Step, RestOfHost, Deploying
    <2>3. Monitoring'
        BY <1>8, DeployAside DEF DeadlinePasses, Step, RestOfHost
    <2> QED
        BY <2>1, <2>2, <2>3 DEF Inv
<1>9. CASE RollBack
    <2>1. Types'
        BY <1>1, <1>2, <1>9, DeployTypes DEF RollBack, Base, Step, Ended, RestOfHost
    <2>2. Deploying'
        BY <1>1, <1>9 DEF RollBack, Base, Step, Ended, RestOfHost, Deploying
    <2>3. Monitoring'
        BY <1>9, DeployAside DEF RollBack, Step, Ended, RestOfHost
    <2> QED
        BY <2>1, <2>2, <2>3 DEF Inv
<1>10. CASE RolledBack
    <2>1. Types'
        BY <1>1, <1>2, <1>10, DeployTypes DEF RolledBack, Ended, RestOfHost
    <2>2. Deploying'
        BY <1>1, <1>10 DEF RolledBack, Ended, RestOfHost, Deploying
    <2>3. Monitoring'
        BY <1>10, DeployAside DEF RolledBack, Ended, RestOfHost
    <2> QED
        BY <2>1, <2>2, <2>3 DEF Inv
<1>11. CASE KillDeploy
    <2>1. kills' \in 0 .. MaxKills
        BY <1>2, <1>11 DEF KillDeploy
    <2>2. Types'
        BY <1>1, <1>2, <1>11, <2>1, DeployTypes DEF KillDeploy, Ended
    <2>3. Deploying'
        BY <1>1, <1>11 DEF KillDeploy, Ended, Deploying
    <2>4. Monitoring'
        BY <1>11, DeployAside DEF KillDeploy, Ended
    <2> QED
        BY <2>2, <2>3, <2>4 DEF Inv
<1> QED
    BY <1>3, <1>4, <1>5, <1>6, <1>7, <1>8, <1>9, <1>10, <1>11 DEF DeployStep

-----------------------------------------------------------------------------
(* Time, and the connection.                                               *)

\* The connection comes and goes; nothing is said of it.
LEMMA ChangeKeeps ==
    ASSUME Inv, Change
    PROVE  Inv'
<1>1. Types /\ Monitoring /\ Deploying
    BY DEF Inv
<1>2. Types'
    BY <1>1 DEF Change, Types, release, history
<1>3. Deploying'
    BY <1>1 DEF Change, Deploying, release
<1>4. \A m \in Monitors : Holds(m)' /\ Failing(m)' /\ Keeping(m)' /\ Avoiding(m)'
    BY <1>1 DEF Change, Monitoring, Holds, Failing, Keeping, Avoiding, Counted, release, history
<1>5. Counted(private.failures, 0)' /\ Limit'
    BY <1>1 DEF Change, Monitoring, Counted, Limit, Unwritten, Knows, history
<1> QED
    BY <1>2, <1>3, <1>4, <1>5 DEF Inv, Monitoring

\* The history after a minute.
LEMMA OlderIs ==
    ASSUME NEW s \in Seq(Nat)
    PROVE  /\ Older(s) \in Seq(Nat) /\ Len(Older(s)) \in Nat /\ Len(Older(s)) <= Len(s)
           /\ \A x \in Int : x <= Window => Within(Older(s), x) = Within(s, x - 1)
<1>1. s \in Seq(Int) /\ Len(s) \in Nat
    BY TrueAges
<1> DEFINE q == Shifted(s, 1)
<1>2. q \in Seq(Int) /\ Len(q) = Len(s) /\ q \in Seq(Nat)
    BY <1>1, ShiftedIs, WithinShifted, 0 \in Int
<1>3. \A x \in Int : Within(q, x) = Within(s, x - 1)
    BY <1>1, WithinShifted
<1> HIDE DEF q
<1>4. /\ Prune(q) \in Seq(Nat) /\ Len(Prune(q)) <= Len(q) /\ Len(Prune(q)) \in Nat
      /\ \A x \in Int : x <= Window => Within(Prune(q), x) = Within(q, x)
    BY <1>2, WithinPrune
<1>5. Older(s) = Prune(q)
    BY DEF Older, q
<1> QED
    BY <1>1, <1>2, <1>3, <1>4, <1>5

\* A state whose restarts are dated differently is a state.
LEMMA StampsSet ==
    ASSUME NEW s \in State, NEW q \in Seq(Int), Len(q) = Len(s.stamps)
    PROVE  /\ [s EXCEPT !.stamps = q] \in State /\ [s EXCEPT !.stamps = q].stamps = q
           /\ [s EXCEPT !.stamps = q].failures = s.failures
<1>1. /\ s.failures \in 0 .. MaxCount + 1 /\ Len(s.stamps) <= MaxRecoveries
      /\ s = [failures |-> s.failures, stamps |-> s.stamps]
    BY StateIs
<1>2. [s EXCEPT !.stamps = q] = [failures |-> s.failures, stamps |-> q]
    BY <1>1
<1>3. [failures |-> s.failures, stamps |-> q] \in State
    BY <1>1, StateIs
<1> QED
    BY <1>2, <1>3

\* What becomes of a run when time goes by, or the clock is set.
Timed(f, a, d, q) ==
    [at |-> a, shift |-> d, seen |-> f.seen, state |-> [f.state EXCEPT !.stamps = q],
     epoch |-> f.epoch, restarted |-> f.restarted]

LEMMA TimedIs ==
    ASSUME NEW f \in RunState, NEW a \in 0 .. Lag, NEW d \in Int, NEW q \in Seq(Int),
           Len(q) = Len(f.state.stamps)
    PROVE  /\ Timed(f, a, d, q) \in RunState
           /\ Timed(f, a, d, q).seen = f.seen /\ Timed(f, a, d, q).epoch = f.epoch
           /\ Timed(f, a, d, q).restarted = f.restarted
           /\ Timed(f, a, d, q).state.stamps = q
           /\ Timed(f, a, d, q).state.failures = f.state.failures
<1> DEFINE s == f.state
           k == [s EXCEPT !.stamps = q]
<1>1. /\ s \in State
      /\ f.seen \in Answers \cup {"unknown"} /\ f.epoch \in Versions /\ f.restarted \in BOOLEAN
    BY DEF RunState
<1>2. k \in State /\ k.stamps = q /\ k.failures = s.failures
    BY <1>1, StampsSet
<1>3. Timed(f, a, d, q) = [at |-> a, shift |-> d, seen |-> f.seen, state |-> k,
                           epoch |-> f.epoch, restarted |-> f.restarted]
    BY DEF Timed
<1> HIDE DEF k, s
<1>4. Timed(f, a, d, q) \in RunState /\ Timed(f, a, d, q).state = k
    BY <1>1, <1>2, <1>3 DEF RunState
<1> QED
    BY <1>2, <1>3, <1>4 DEF s

\* However the clock moves, the runs stay where they are and keep what they
\* know but for the dates.
LEMMA TimeAside ==
    ASSUME Inv, NEW d \in Int,
           UNCHANGED <<onebot, monitorLock, deployLock, pc, release, checks, kills>>,
           jumps' \in 0 .. MaxJumps, recent' \in Seq(Nat), missed' \in Seq(Nat),
           private' = [private EXCEPT !.stamps = Shifted(private.stamps, d)],
           run' = [m \in Monitors |-> run'[m]],
           \A m \in Monitors : pc[m] = "idle" => run'[m] = run[m],
           \A m \in Monitors : pc[m] # "idle" =>
              /\ run'[m] \in RunState /\ run'[m].seen = run[m].seen
              /\ run'[m].epoch = run[m].epoch /\ run'[m].restarted = run[m].restarted
              /\ run'[m].state.failures = run[m].state.failures
              /\ Len(run'[m].state.stamps) = Len(run[m].state.stamps)
    PROVE  /\ Types' /\ Deploying' /\ private'.stamps = Shifted(private.stamps, d)
           /\ \A m \in Monitors : Holds(m)' /\ Failing(m)' /\ Keeping(m)' /\ Avoiding(m)'
           /\ Counted(private.failures, 0)'
<1>1. Types /\ Monitoring /\ Deploying
    BY DEF Inv
<1>2. /\ private' \in State /\ private'.stamps = Shifted(private.stamps, d)
      /\ private'.failures = private.failures
    <2> DEFINE q == Shifted(private.stamps, d)
    <2>1. private \in State
        BY <1>1 DEF Types
    <2>2. q \in Seq(Int) /\ Len(q) = Len(private.stamps)
        BY <2>1, StateIs, ShiftedIs
    <2> HIDE DEF q
    <2> QED
        BY <2>1, <2>2, StampsSet DEF q
<1>3. Types'
    <2>1. \A m \in Monitors : run'[m] \in RunState
        BY <1>1 DEF Types
    <2>2. run' \in [Monitors -> RunState]
        BY <2>1
    <2> QED
        BY <1>1, <1>2, <2>2 DEF Types, release
<1>4. Deploying'
    BY <1>1 DEF Deploying, release
<1>5. ASSUME NEW m \in Monitors
      PROVE  Holds(m)' /\ Failing(m)' /\ Keeping(m)' /\ Avoiding(m)'
    <2>1. CASE pc[m] = "idle"
        BY <2>1, IdleIsFine
    <2>2. CASE pc[m] # "idle"
        <3>1. Holds(m) /\ Failing(m) /\ Keeping(m) /\ Avoiding(m)
            BY <1>1 DEF Monitoring
        <3>2. Holds(m)' /\ Failing(m)' /\ Avoiding(m)'
            BY <2>2, <3>1 DEF Holds, Failing, Avoiding, Counted, release
        <3>3. Keeping(m)'
            BY <2>2, <3>1 DEF Keeping, Asking
        <3> QED
            BY <3>2, <3>3
    <2> QED
        BY <2>1, <2>2
<1>6. Counted(private.failures, 0)'
    BY <1>1, <1>2 DEF Monitoring, Counted
<1> QED
    BY <1>2, <1>3, <1>4, <1>5, <1>6

\* A minute passes, of which a run takes no more than it may.
LEMMA TickKeeps ==
    ASSUME Inv, Tick
    PROVE  Inv'
<1>1. Types /\ Monitoring
    BY DEF Inv
<1> USE BoundsAre
<1>2. /\ UNCHANGED <<onebot, monitorLock, deployLock, pc, release, checks, kills, jumps>>
      /\ recent' = Older(recent) /\ missed' = Older(missed)
      /\ private' = [private EXCEPT !.stamps = Shifted(private.stamps, 1)]
      /\ run' = [m \in Monitors |-> run'[m]]
    BY DEF Tick
<1>3. /\ recent \in Seq(Nat) /\ missed \in Seq(Nat) /\ private.stamps \in Seq(Int)
      /\ jumps \in 0 .. MaxJumps
    BY <1>1, StateIs DEF Types
<1>4. /\ recent' \in Seq(Nat) /\ missed' \in Seq(Nat)
      /\ \A x \in Int : x <= Window =>
            Within(recent', x) = Within(recent, x - 1) /\ Within(missed', x) = Within(missed, x - 1)
    BY <1>2, <1>3, OlderIs
<1>5. \A m \in Monitors : pc[m] = "idle" => run'[m] = run[m]
    BY DEF Tick
<1>6. ASSUME NEW m \in Monitors, pc[m] # "idle"
      PROVE  /\ run'[m] \in RunState /\ run'[m].seen = run[m].seen
             /\ run'[m].epoch = run[m].epoch /\ run'[m].restarted = run[m].restarted
             /\ run'[m].state.failures = run[m].state.failures
             /\ Len(run'[m].state.stamps) = Len(run[m].state.stamps)
             /\ run'[m].state.stamps = Shifted(run[m].state.stamps, 1)
             /\ run[m].state.stamps \in Seq(Int)
    <2> DEFINE f == run[m]
               q == Shifted(f.state.stamps, 1)
               a == f.at + 1
               b == f.shift
               r == run'[m]
    <2>1. f \in RunState /\ f.at \in 0 .. Lag /\ f.shift \in Int /\ f.state.stamps \in Seq(Int)
        <3>1. /\ run[m] \in RunState /\ run[m].at \in 0 .. Lag /\ run[m].shift \in Int
              /\ run[m].state.stamps \in Seq(Int)
            BY <1>1, RunIs, StateIs DEF Types
        <3> QED
            BY <3>1
    <2>2. run'[m] = [f EXCEPT !.at = a, !.state.stamps = q] /\ f.at < Lag
        BY <1>6 DEF Tick
    <2>3. a \in 0 .. Lag
        BY <2>1, <2>2
    <2> HIDE DEF f
    <2>4. q \in Seq(Int) /\ Len(q) = Len(f.state.stamps)
        BY <2>1, ShiftedIs, 1 \in Int
    <2>5. b \in Int /\ r = [f EXCEPT !.at = a, !.state.stamps = q]
        BY <2>1, <2>2
    <2> HIDE DEF q, a, r
    <2>6. r = Timed(f, a, b, q)
        BY <2>1, <2>5 DEF Timed, RunState
    <2> HIDE DEF b
    <2>7. /\ r \in RunState /\ r.seen = f.seen /\ r.epoch = f.epoch
          /\ r.restarted = f.restarted /\ r.state.stamps = q
          /\ r.state.failures = f.state.failures
        <3>1. a \in 0 .. Lag /\ b \in Int
            BY <2>3, <2>5
        <3> QED
            BY <2>1, <2>4, <2>6, <3>1, TimedIs
    <2> QED
        BY <2>1, <2>4, <2>7 DEF f, q, r
<1>7. /\ Types' /\ Deploying' /\ private'.stamps = Shifted(private.stamps, 1)
      /\ \A m \in Monitors : Holds(m)' /\ Failing(m)' /\ Keeping(m)' /\ Avoiding(m)'
      /\ Counted(private.failures, 0)'
    <2>1. jumps' \in 0 .. MaxJumps /\ 1 \in Int
        BY <1>2, <1>3
    <2> QED
        BY <1>2, <1>4, <1>5, <1>6, <2>1, TimeAside
<1>8. Limit'
    <2>1. ASSUME NEW x \in Int, x <= Window - Lag
          PROVE  /\ (\A m \in Monitors : ~Unwritten(m)') =>
                       Within(recent', x) <= Within(private'.stamps, x + Lag) + Within(missed', x)
                 /\ \A m \in Monitors : Unwritten(m)' =>
                       Within(recent', x)
                          <= Within(private'.stamps, x + Lag) + Within(missed', x) + 1
                 /\ \A m \in Monitors : Knows(m)' =>
                       Within(recent', x)
                          <= Within(run'[m].state.stamps, x + Lag) + Within(missed', x)
        <3> DEFINE y == x - 1
        <3>1. /\ y \in Int /\ y <= Window - Lag /\ x <= Window /\ x + Lag \in Int
              /\ (x + Lag) - 1 = y + Lag /\ y + Lag \in Int
            BY <2>1
        <3>2. Within(recent', x) = Within(recent, y) /\ Within(missed', x) = Within(missed, y)
            BY <1>4, <3>1
        <3>3. /\ Within(private.stamps, y + Lag) \in Nat
              /\ Within(private'.stamps, x + Lag) \in Nat
              /\ Within(private.stamps, y + Lag) <= Within(private'.stamps, x + Lag)
            <4>1. /\ Within(private.stamps, (x + Lag) - 1) \in Nat
                  /\ Within(Shifted(private.stamps, 1), x + Lag) \in Nat
                  /\ Within(private.stamps, (x + Lag) - 1)
                        <= Within(Shifted(private.stamps, 1), x + Lag)
                BY <1>3, <3>1, WithinShifted
            <4> QED
                BY <1>7, <3>1, <4>1
        <3>4. /\ (\A m \in Monitors : ~Unwritten(m)) =>
                    Within(recent, y) <= Within(private.stamps, y + Lag) + Within(missed, y)
              /\ \A m \in Monitors : Unwritten(m) =>
                    Within(recent, y) <= Within(private.stamps, y + Lag) + Within(missed, y) + 1
              /\ \A m \in Monitors : Knows(m) =>
                    Within(recent, y) <= Within(run[m].state.stamps, y + Lag) + Within(missed, y)
            <4> HIDE DEF y
            <4> QED
                BY <1>1, <3>1 DEF Monitoring, Limit
        <3>5. \A m \in Monitors : (Unwritten(m)' <=> Unwritten(m)) /\ (Knows(m)' <=> Knows(m))
            BY <1>2, <1>6 DEF Unwritten, Knows
        <3>6. ASSUME NEW m \in Monitors, Knows(m)
              PROVE  /\ Within(run[m].state.stamps, y + Lag) \in Nat
                     /\ Within(run'[m].state.stamps, x + Lag) \in Nat
                     /\ Within(run[m].state.stamps, y + Lag) <= Within(run'[m].state.stamps, x + Lag)
            <4>1. pc[m] # "idle"
                BY <3>6 DEF Knows
            <4>2. /\ run[m].state.stamps \in Seq(Int)
                  /\ run'[m].state.stamps = Shifted(run[m].state.stamps, 1)
                BY <1>6, <4>1
            <4>3. /\ Within(run[m].state.stamps, (x + Lag) - 1) \in Nat
                  /\ Within(Shifted(run[m].state.stamps, 1), x + Lag) \in Nat
                  /\ Within(run[m].state.stamps, (x + Lag) - 1)
                        <= Within(Shifted(run[m].state.stamps, 1), x + Lag)
                BY <3>1, <4>2, WithinShifted
            <4> QED
                BY <3>1, <4>2, <4>3
        <3>7. Within(recent, y) \in Nat /\ Within(missed, y) \in Nat
            BY <1>3, <3>1, TrueAges, WithinType
        <3> HIDE DEF y
        <3> QED
            BY <3>2, <3>3, <3>4, <3>5, <3>6, <3>7
    <2> QED
        BY <2>1 DEF Limit
<1> QED
    BY <1>7, <1>8 DEF Inv, Monitoring

\* The clock is set: from then on the dates on file tell nothing, and the
\* restarts so far are all counted as missed.
LEMMA SetClockKeeps ==
    ASSUME Inv, NEW d \in Jumps, SetClock(d)
    PROVE  Inv'
<1>1. Types /\ Monitoring
    BY DEF Inv
<1> USE BoundsAre
<1>2. /\ UNCHANGED <<onebot, monitorLock, deployLock, pc, release, recent, checks, kills>>
      /\ jumps < MaxJumps /\ jumps' = jumps + 1 /\ missed' = recent /\ d \in Int
      /\ private' = [private EXCEPT !.stamps = Shifted(private.stamps, d)]
      /\ run' = [m \in Monitors |-> run'[m]]
    BY DEF SetClock
<1>3. /\ recent' \in Seq(Nat) /\ missed' \in Seq(Nat) /\ private.stamps \in Seq(Int)
      /\ jumps' \in 0 .. MaxJumps
    BY <1>1, <1>2, StateIs DEF Types
<1>4. \A m \in Monitors : pc[m] = "idle" => run'[m] = run[m]
    BY DEF SetClock
<1>5. ASSUME NEW m \in Monitors, pc[m] # "idle"
      PROVE  /\ run'[m] \in RunState /\ run'[m].seen = run[m].seen
             /\ run'[m].epoch = run[m].epoch /\ run'[m].restarted = run[m].restarted
             /\ run'[m].state.failures = run[m].state.failures
             /\ Len(run'[m].state.stamps) = Len(run[m].state.stamps)
    <2> DEFINE f == run[m]
               q == Shifted(f.state.stamps, d)
               b == f.shift + d
               a == f.at
               r == run'[m]
    <2>1. /\ f \in RunState /\ f.at \in 0 .. Lag /\ f.shift \in Int /\ f.state.stamps \in Seq(Int)
        <3>1. /\ run[m] \in RunState /\ run[m].at \in 0 .. Lag /\ run[m].shift \in Int
              /\ run[m].state.stamps \in Seq(Int)
            BY <1>1, RunIs, StateIs DEF Types
        <3> QED
            BY <3>1
    <2>2. run'[m] = [f EXCEPT !.shift = b, !.state.stamps = q]
        BY <1>5 DEF SetClock
    <2>3. b \in Int
        BY <1>2, <2>1
    <2> HIDE DEF f
    <2>4. q \in Seq(Int) /\ Len(q) = Len(f.state.stamps)
        BY <1>2, <2>1, ShiftedIs
    <2>5. a \in 0 .. Lag /\ r = [f EXCEPT !.shift = b, !.state.stamps = q]
        BY <2>1, <2>2
    <2> HIDE DEF q, b, r
    <2>6. r = Timed(f, a, b, q)
        BY <2>1, <2>5 DEF Timed, RunState
    <2> HIDE DEF a
    <2>7. /\ r \in RunState /\ r.seen = f.seen /\ r.epoch = f.epoch
          /\ r.restarted = f.restarted /\ r.state.stamps = q
          /\ r.state.failures = f.state.failures
        <3>1. a \in 0 .. Lag /\ b \in Int
            BY <2>3, <2>5
        <3> QED
            BY <2>1, <2>4, <2>6, <3>1, TimedIs
    <2> QED
        BY <2>4, <2>7 DEF f, r
<1>6. /\ Types' /\ Deploying' /\ private'.stamps = Shifted(private.stamps, d)
      /\ \A m \in Monitors : Holds(m)' /\ Failing(m)' /\ Keeping(m)' /\ Avoiding(m)'
      /\ Counted(private.failures, 0)'
    BY <1>2, <1>3, <1>4, <1>5, TimeAside
<1>7. Limit'
    <2>1. ASSUME NEW x \in Int, x <= Window - Lag, NEW s \in Seq(Int)
          PROVE  /\ Within(recent', x) <= Within(s, x + Lag) + Within(missed', x)
                 /\ Within(recent', x) <= Within(s, x + Lag) + Within(missed', x) + 1
        <3>1. Within(recent', x) \in Nat /\ Within(s, x + Lag) \in Nat
            <4>1. recent' \in Seq(Int) /\ x + Lag \in Int
                BY <1>3, TrueAges
            <4> QED
                BY <4>1, WithinType
        <3>2. missed' = recent'
            BY <1>2
        <3> QED
            BY <3>1, <3>2
    <2>2. private'.stamps \in Seq(Int)
        BY <1>2, <1>3, <1>6, ShiftedIs
    <2>3. \A m \in Monitors : run'[m].state.stamps \in Seq(Int)
        <3>1. \A m \in Monitors : run'[m].state \in State
            BY <1>6 DEF Types, RunState
        <3> QED
            BY <3>1, StateIs
    <2> QED
        BY <2>1, <2>2, <2>3 DEF Limit
<1> QED
    BY <1>6, <1>7 DEF Inv, Monitoring

-----------------------------------------------------------------------------
(* The steps of the monitor.                                               *)

\* What all of them leave as it is: the deployment, and the other runs.
LEMMA RunAside ==
    ASSUME Inv, NEW m \in Monitors, pc[m] # "idle" \/ monitorLock = NoOne,
           pc' = [pc EXCEPT ![m] = pc'[m]], pc'[m] \in Labels,
           run' = [run EXCEPT ![m] = run'[m]], run'[m] \in RunState,
           UNCHANGED release,
           onebot' \in Answers, private' \in State, monitorLock' \in Monitors \cup {NoOne},
           deployLock' \in Monitors \cup {NoOne, Deployment},
           deployLock' = Deployment <=> deployLock = Deployment,
           kills' \in 0 .. MaxKills, jumps' \in 0 .. MaxJumps,
           recent' \in Seq(Nat), missed' \in Seq(Nat), checks' \in 0 .. Threshold
    PROVE  Types' /\ Deploying' /\ \A n \in Monitors \ {m} : pc'[n] = "idle"
<1>1. Types /\ Deploying /\ \A n \in Monitors \ {m} : pc[n] = "idle"
    BY OthersIdle DEF Inv
<1>2. pc' \in [Monitors -> Labels] /\ run' \in [Monitors -> RunState]
    <2> DEFINE l == pc'[m]
               r == run'[m]
    <2>1. pc' = [pc EXCEPT ![m] = l] /\ l \in Labels /\ run' = [run EXCEPT ![m] = r] /\ r \in RunState
        OBVIOUS
    <2>2. pc \in [Monitors -> Labels] /\ run \in [Monitors -> RunState]
        BY <1>1 DEF Types
    <2> HIDE DEF l, r
    <2> QED
        BY <2>1, <2>2
<1>3. \A n \in Monitors \ {m} : pc'[n] = "idle"
    <2> DEFINE l == pc'[m]
    <2>1. pc' = [pc EXCEPT ![m] = l]
        OBVIOUS
    <2>2. pc \in [Monitors -> Labels]
        BY <1>1 DEF Types
    <2> HIDE DEF l
    <2> QED
        BY <1>1, <2>1, <2>2
<1>4. Types'
    BY <1>1, <1>2 DEF Types, release
<1>5. Deploying'
    BY <1>1 DEF Deploying, release
<1> QED
    BY <1>3, <1>4, <1>5

\* A run that goes on from l to l2, with r kept.
LEMMA WentOn ==
    ASSUME Types, NEW m \in Monitors, NEW l \in Labels, NEW r \in RunState,
           pc' = [pc EXCEPT ![m] = l], run' = [run EXCEPT ![m] = r]
    PROVE  /\ pc'[m] = l /\ run'[m] = r
           /\ pc' = [pc EXCEPT ![m] = pc'[m]] /\ pc'[m] \in Labels
           /\ run' = [run EXCEPT ![m] = run'[m]] /\ run'[m] \in RunState
<1>1. pc \in [Monitors -> Labels] /\ run \in [Monitors -> RunState]
    BY DEF Types
<1> QED
    BY <1>1

\* The types that a step of the monitor may rely on.
LEMMA TypesAre ==
    ASSUME Types
    PROVE  /\ onebot \in Answers /\ private \in State
           /\ monitorLock \in Monitors \cup {NoOne}
           /\ deployLock \in Monitors \cup {NoOne, Deployment}
           /\ kills \in 0 .. MaxKills /\ jumps \in 0 .. MaxJumps
           /\ recent \in Seq(Nat) /\ missed \in Seq(Nat)
           /\ recent \in Seq(Int) /\ missed \in Seq(Int)
           /\ checks \in 0 .. Threshold /\ checks \in Nat /\ target \in Versions /\ target \in Nat
           /\ deploy # "idle" <=> deployLock = Deployment
           /\ run \in [Monitors -> RunState] /\ pc \in [Monitors -> Labels]
           /\ \A m \in Monitors : run = [run EXCEPT ![m] = run[m]] /\ run[m] \in RunState
BY BoundsAre, TrueAges DEF Types, Versions

\* What becomes of a run when parts of it are set.
LEMMA StateSet ==
    ASSUME NEW f \in RunState, NEW s \in State, NEW r, r = [f EXCEPT !.state = s]
    PROVE  /\ r \in RunState /\ r.state = s /\ r.at = f.at /\ r.shift = f.shift /\ r.seen = f.seen
           /\ r.epoch = f.epoch /\ r.restarted = f.restarted
BY DEF RunState

LEMMA EpochSet ==
    ASSUME NEW f \in RunState, NEW e \in Versions, NEW r, r = [f EXCEPT !.epoch = e]
    PROVE  /\ r \in RunState /\ r.state = f.state /\ r.at = f.at /\ r.shift = f.shift /\ r.seen = f.seen
           /\ r.epoch = e /\ r.restarted = f.restarted
BY DEF RunState

\* A run begins with the state on file, less what is too old for its window.
LEMMA BeginKeeps ==
    ASSUME Inv, NEW m \in Monitors, Begin(m)
    PROVE  Inv'
<1> USE BoundsAre
<1>1. Types /\ Monitoring
    BY DEF Inv
<1> DEFINE s == Sane(private)
           r == [Fresh EXCEPT !.state = s]
           p == Past(private.stamps)
           q == Prune(p)
<1>2. /\ pc[m] = "idle" /\ monitorLock = NoOne /\ monitorLock' = m
      /\ run' = [run EXCEPT ![m] = r] /\ pc' = [pc EXCEPT ![m] = "observe"]
      /\ UNCHANGED <<onebot, private, deployLock, release, history, kills, jumps>>
    BY DEF Begin, At, Alone, Go
<1>3. /\ private.failures \in 0 .. MaxCount + 1 /\ private.stamps \in Seq(Int)
      /\ Len(private.stamps) \in Nat /\ Len(private.stamps) <= MaxRecoveries
    BY <1>1, StateIs DEF Types
<1>4. /\ s.failures = (IF private.failures <= MaxCount THEN private.failures ELSE 0)
      /\ s.stamps = q
      /\ s = [failures |-> s.failures, stamps |-> q]
    BY DEF Sane
<1>5. /\ p \in Seq(Int) /\ Len(p) <= Len(private.stamps) /\ Len(p) \in Nat
      /\ \A x \in Int : Within(p, x) = Within(private.stamps, x)
    BY <1>3, WithinPast
<1> HIDE DEF p
<1>6. /\ q \in Seq(Int) /\ Len(q) \in Nat /\ Len(q) <= Len(p)
      /\ \A x \in Int : x <= Window => Within(q, x) = Within(p, x)
    BY <1>5, WithinPrune
<1> HIDE DEF q
<1>7. s.failures \in 0 .. MaxCount
    BY <1>3, <1>4
<1>8. s \in State
    <2>1. Len(q) <= MaxRecoveries
        BY <1>3, <1>5, <1>6
    <2>2. s.failures \in 0 .. MaxCount + 1
        BY <1>7
    <2> HIDE DEF s
    <2> QED
        BY <1>4, <1>6, <2>1, <2>2, StateIs
<1> HIDE DEF s
<1> HIDE DEF r
<1>9. /\ r \in RunState /\ r.state = s /\ r.seen = Fresh.seen
      /\ r.epoch = Fresh.epoch /\ r.restarted = Fresh.restarted
    BY <1>8, StateSet, FreshIs DEF r
<1>10. /\ r.seen = "unknown" /\ r.state = s /\ r.epoch = 0 /\ r.restarted = FALSE
    BY <1>9 DEF Fresh
<1>11. /\ pc'[m] = "observe" /\ run'[m] = r
       /\ pc' = [pc EXCEPT ![m] = pc'[m]] /\ pc'[m] \in Labels
       /\ run' = [run EXCEPT ![m] = run'[m]] /\ run'[m] \in RunState
    BY <1>1, <1>2, <1>9, WentOn, "observe" \in Labels DEF Labels
<1>12. Types' /\ Deploying' /\ \A n \in Monitors \ {m} : pc'[n] = "idle"
    BY <1>1, <1>2, <1>11, RunAside, TypesAre DEF history
<1>13. Failing(m)'
    <2>1. Counted(private.failures, 0)
        BY <1>1 DEF Monitoring
    <2>2. checks \in Nat /\ checks' = checks
        BY <1>1, <1>2, TypesAre DEF history
    <2>3. s.failures <= checks + 0 \/ Threshold <= checks + 0
        BY <1>3, <1>4, <2>1, <2>2 DEF Counted
    <2>4. run'[m].state.failures = s.failures /\ s.failures <= MaxCount
        BY <1>7, <1>10, <1>11
    <2> QED
        BY <1>11, <2>2, <2>3, <2>4 DEF Failing, Asking, Counted
<1>14. Holds(m)' /\ Avoiding(m)'
    BY <1>2, <1>11 DEF Holds, Avoiding
<1>15. Keeping(m)'
    BY <1>10, <1>11 DEF Keeping, Asking
<1>16. Counted(private.failures, 0)'
    BY <1>1, <1>2 DEF Monitoring, Counted, history
<1>17. ~Unwritten(m)' /\ ~Unwritten(m)
    BY <1>2, <1>11 DEF Unwritten
<1>18. ASSUME NEW x \in Int, x <= Window - Lag
       PROVE  /\ Within(recent', x) <= Within(private'.stamps, x + Lag) + Within(missed', x)
              /\ Within(recent', x)
                    <= Within(run'[m].state.stamps, x + Lag) + Within(missed', x)
    <2>1. /\ x + Lag \in Int /\ x + Lag <= Window
          /\ Within(recent, x) <= Within(private.stamps, x + Lag) + Within(missed, x)
        BY <1>2, <1>17, <1>18, LimitFor
    <2>2. Within(run'[m].state.stamps, x + Lag) = Within(private.stamps, x + Lag)
        BY <1>4, <1>5, <1>6, <1>10, <1>11, <2>1
    <2> QED
        BY <1>2, <2>1, <2>2 DEF history
<1>19. Monitoring'
    BY <1>12, <1>13, <1>14, <1>15, <1>16, <1>17, <1>18, OneRun
<1> QED
    BY <1>12, <1>19 DEF Inv

\* Evaluating touches nothing but the count of failures.
LEMMA EvaluatedIs ==
    ASSUME NEW s \in State, NEW seen \in Answers \cup {"unknown"},
           s.failures <= MaxCount \/ seen # "disconnected"
    PROVE  /\ Evaluated(s, seen) \in State
           /\ Evaluated(s, seen).failures = Failures(s.failures, seen)
           /\ Evaluated(s, seen).stamps = s.stamps
           /\ seen = "disconnected" => Failures(s.failures, seen) = s.failures + 1
           /\ seen = "unknown" => Failures(s.failures, seen) = s.failures
           /\ seen = "connected" => Failures(s.failures, seen) = 0
<1>1. /\ s.failures \in 0 .. MaxCount + 1 /\ s.stamps \in Seq(Int)
      /\ Len(s.stamps) \in Nat /\ Len(s.stamps) <= MaxRecoveries
      /\ s = [failures |-> s.failures, stamps |-> s.stamps]
    BY StateIs
<1>2. /\ seen = "disconnected" => Failures(s.failures, seen) = s.failures + 1
      /\ seen = "unknown" => Failures(s.failures, seen) = s.failures
      /\ seen = "connected" => Failures(s.failures, seen) = 0
    BY DEF Failures
<1>3. Failures(s.failures, seen) \in 0 .. MaxCount + 1
    <2>1. seen = "disconnected" \/ seen = "unknown" \/ seen = "connected"
        BY DEF Answers
    <2> DEFINE n == s.failures
    <2>2. n \in 0 .. MaxCount + 1 /\ (n <= MaxCount \/ seen # "disconnected")
        BY <1>1
    <2> HIDE DEF n
    <2> QED
        BY <1>2, <2>1, <2>2, BoundsAre DEF n
<1> DEFINE k == Failures(s.failures, seen)
           q == s.stamps
<1> HIDE DEF k, q
<1>4. Evaluated(s, seen) = [s EXCEPT !.failures = k]
    BY DEF Evaluated, k
<1>5. Evaluated(s, seen) = [failures |-> k, stamps |-> q]
    BY <1>1, <1>4 DEF q
<1>6. [failures |-> k, stamps |-> q] \in State
    BY <1>1, <1>3, StateIs DEF k, q
<1> QED
    BY <1>2, <1>5, <1>6 DEF k, q

\* What is seen is counted, and decides whether a restart is due.
LEMMA ObserveKeeps ==
    ASSUME Inv, NEW m \in Monitors, Observe(m)
    PROVE  Inv'
<1> USE BoundsAre
<1>1. Types /\ Monitoring /\ Holds(m) /\ Failing(m) /\ Keeping(m)
    BY DEF Inv, Monitoring
<1>2. /\ pc[m] = "observe"
      /\ UNCHANGED <<onebot, private, monitorLock, deployLock, release, history, kills, jumps>>
    BY DEF Observe, At
<1>3. /\ run[m] \in RunState /\ run[m].state \in State /\ checks \in Nat
      /\ checks' = checks /\ onebot \in Answers
      /\ run[m].state.failures \in 0 .. MaxCount + 1
      /\ Len(run[m].state.stamps) \in Nat
    BY <1>1, <1>2, RunIs, StateIs, TypesAre DEF history
<1>4. run[m].state.failures <= MaxCount /\ Counted(run[m].state.failures, 0)
    BY <1>1, <1>2 DEF Failing
<1>5. PICK seen \in {onebot, "unknown"} :
          /\ run' = [run EXCEPT ![m].seen = seen, ![m].state = Evaluated(run[m].state, seen)]
          /\ Go(m, IF seen = "disconnected" /\ MayRestart(Evaluated(run[m].state, seen))
                   THEN "due" ELSE "write")
    BY DEF Observe
<1> DEFINE s == Evaluated(run[m].state, seen)
           r == [run[m] EXCEPT !.seen = seen, !.state = s]
           l == IF seen = "disconnected" /\ MayRestart(s) THEN "due" ELSE "write"
<1>6. seen \in Answers \cup {"unknown"}
    BY <1>3, <1>5
<1>7. /\ s \in State /\ s.stamps = run[m].state.stamps
      /\ seen = "disconnected" => s.failures = run[m].state.failures + 1
      /\ seen = "unknown" => s.failures = run[m].state.failures
      /\ seen = "connected" => s.failures = 0
    BY <1>3, <1>4, <1>6, EvaluatedIs
<1> HIDE DEF s
<1>8. run' = [run EXCEPT ![m] = r] /\ pc' = [pc EXCEPT ![m] = l]
    <2>1. run \in [Monitors -> RunState]
        BY <1>1, TypesAre
    <2> QED
        BY <1>5, <2>1 DEF Go, s
<1> HIDE DEF r
<1>9. /\ r \in RunState /\ r.state = s /\ r.at = run[m].at /\ r.seen = seen
      /\ r.epoch = run[m].epoch /\ r.restarted = run[m].restarted
    <2> DEFINE f == run[m]
    <2>1. r = [f EXCEPT !.seen = seen, !.state = s]
        BY DEF r
    <2>2. f \in RunState
        BY <1>3
    <2> HIDE DEF f
    <2>3. /\ r \in RunState /\ r.state = s /\ r.at = f.at /\ r.seen = seen
          /\ r.epoch = f.epoch /\ r.restarted = f.restarted
        BY <1>6, <1>7, <2>1, <2>2 DEF RunState
    <2> QED
        BY <2>3 DEF f
<1>10. l \in {"due", "write"} /\ (l = "due" => seen = "disconnected" /\ MayRestart(s))
    OBVIOUS
<1> HIDE DEF l
<1>11. /\ pc'[m] = l /\ run'[m] = r
       /\ pc' = [pc EXCEPT ![m] = pc'[m]] /\ pc'[m] \in Labels
       /\ run' = [run EXCEPT ![m] = run'[m]] /\ run'[m] \in RunState
    BY <1>1, <1>8, <1>9, <1>10, WentOn DEF Labels
<1>12. Types' /\ Deploying' /\ \A n \in Monitors \ {m} : pc'[n] = "idle"
    BY <1>1, <1>2, <1>11, RunAside, TypesAre DEF history
<1>13. Failing(m)'
    <2> DEFINE n == run[m].state.failures
    <2>1. n \in Nat /\ (n <= checks \/ Threshold <= checks)
        BY <1>3, <1>4 DEF Counted
    <2> HIDE DEF n
    <2>2. /\ seen = "disconnected" => s.failures = n + 1
          /\ seen = "unknown" => s.failures = n
          /\ seen = "connected" => s.failures = 0
        BY <1>7 DEF n
    <2>3. seen = "disconnected" => s.failures <= checks + 1 \/ Threshold <= checks + 1
        BY <1>3, <2>1, <2>2
    <2>4. seen = "unknown" => s.failures <= checks + 0 \/ Threshold <= checks + 0
        BY <1>3, <2>1, <2>2
    <2>5. l = "due" => seen = "disconnected" /\ Threshold <= checks + 1
        <3>1. l = "due" => s.failures >= Threshold
            BY <1>10 DEF MayRestart
        <3> QED
            BY <1>3, <1>10, <2>1, <2>2, <2>3, <3>1
    <2>6. ~run[m].restarted
        BY <1>1, <1>2, RunIs DEF Keeping
    <2> QED
        BY <1>2, <1>3, <1>9, <1>10, <1>11, <2>2, <2>3, <2>4, <2>5, <2>6 DEF Failing, Asking, Counted
<1>14. Holds(m)' /\ Avoiding(m)'
    BY <1>1, <1>2, <1>10, <1>11 DEF Holds, Avoiding
<1>15. Keeping(m)'
    <2>1. ~run[m].restarted
        BY <1>1, <1>2, RunIs DEF Keeping
    <2>2. l = "due" => Len(s.stamps) < MaxRecoveries
        BY <1>10 DEF MayRestart
    <2> QED
        BY <1>9, <1>10, <1>11, <2>1, <2>2 DEF Keeping, Asking
<1>16. Counted(private.failures, 0)'
    BY <1>1, <1>2 DEF Monitoring, Counted, history
<1>17. ~Unwritten(m)' /\ ~Unwritten(m)
    BY <1>1, <1>2, <1>9, <1>11, RunIs DEF Unwritten, Keeping
<1>18. ASSUME NEW x \in Int, x <= Window - Lag
       PROVE  /\ Within(recent', x) <= Within(private'.stamps, x + Lag) + Within(missed', x)
              /\ Within(recent', x)
                    <= Within(run'[m].state.stamps, x + Lag) + Within(missed', x)
    <2>1. Knows(m) /\ run'[m].state.stamps = run[m].state.stamps
        BY <1>2, <1>7, <1>9, <1>11 DEF Knows
    <2> QED
        BY <1>2, <1>17, <1>18, <2>1, LimitFor DEF history
<1>19. Monitoring'
    BY <1>12, <1>13, <1>14, <1>15, <1>16, <1>17, <1>18, OneRun
<1> QED
    BY <1>12, <1>19 DEF Inv

\* The deployment's lock is taken, when no deployment has it, or refused.
LEMMA ProbeKeeps ==
    ASSUME Inv, NEW m \in Monitors, Probe(m)
    PROVE  Inv'
<1> USE BoundsAre
<1>1. Types /\ Monitoring /\ Holds(m) /\ Failing(m) /\ Keeping(m)
    BY DEF Inv, Monitoring
<1>2. /\ pc[m] = "due"
      /\ UNCHANGED <<onebot, private, monitorLock, release, history, kills, jumps>>
    BY DEF Probe, At
<1>3. /\ run \in [Monitors -> RunState] /\ run[m] \in RunState /\ checks \in Nat
      /\ checks' = checks /\ target' = target /\ target \in Versions /\ target \in Nat
      /\ deploy' = deploy
      /\ deploy # "idle" <=> deployLock = Deployment
      /\ m # NoOne /\ m # Deployment
    BY <1>1, <1>2, TypesAre DEF history, release
<1> DEFINE r == IF deployLock = NoOne THEN [run[m] EXCEPT !.epoch = target] ELSE run[m]
           l == IF deployLock = NoOne THEN "probing" ELSE "write"
<1>4. /\ run' = [run EXCEPT ![m] = r] /\ pc' = [pc EXCEPT ![m] = l]
      /\ deployLock' = IF deployLock = NoOne THEN m ELSE deployLock
    <2>1. CASE deployLock = NoOne
        BY <1>3, <2>1 DEF Probe, Go
    <2>2. CASE deployLock # NoOne
        BY <1>3, <2>2 DEF Probe, Go
    <2> QED
        BY <2>1, <2>2
<1>5. /\ r \in RunState /\ r.state = run[m].state /\ r.at = run[m].at /\ r.seen = run[m].seen
      /\ r.restarted = run[m].restarted /\ (deployLock = NoOne => r.epoch = target)
    <2>1. CASE deployLock = NoOne
        <3> DEFINE k == [run[m] EXCEPT !.epoch = target]
        <3> HIDE DEF k
        <3>1. /\ k \in RunState /\ k.state = run[m].state /\ k.at = run[m].at
              /\ k.seen = run[m].seen /\ k.epoch = target /\ k.restarted = run[m].restarted
            BY <1>3, EpochSet DEF k
        <3> QED
            BY <2>1, <3>1 DEF k
    <2>2. CASE deployLock # NoOne
        BY <1>3, <2>2
    <2> QED
        BY <2>1, <2>2
<1> HIDE DEF r
<1>6. l \in {"probing", "write"} /\ (l = "probing" <=> deployLock = NoOne)
    OBVIOUS
<1> HIDE DEF l
<1>7. /\ pc'[m] = l /\ run'[m] = r
      /\ pc' = [pc EXCEPT ![m] = pc'[m]] /\ pc'[m] \in Labels
      /\ run' = [run EXCEPT ![m] = run'[m]] /\ run'[m] \in RunState
    BY <1>1, <1>4, <1>5, <1>6, WentOn DEF Labels
<1>8. Types' /\ Deploying' /\ \A n \in Monitors \ {m} : pc'[n] = "idle"
    <2>1. /\ deployLock' \in Monitors \cup {NoOne, Deployment}
          /\ deployLock' = Deployment <=> deployLock = Deployment
        BY <1>1, <1>3, <1>4, TypesAre
    <2> QED
        BY <1>1, <1>2, <1>7, <2>1, RunAside, TypesAre DEF history
<1>9. ~run[m].restarted /\ run[m].seen = "disconnected" /\ Threshold <= checks + 1
    BY <1>1, <1>2, RunIs DEF Keeping, Failing, Asking
<1>10. Failing(m)'
    BY <1>3, <1>5, <1>6, <1>7, <1>9 DEF Failing, Asking, Counted
<1>11. Holds(m)' /\ Avoiding(m)'
    <2>1. Holds(m)'
        BY <1>1, <1>2, <1>7 DEF Holds
    <2>2. pc'[m] = "probing" => deployLock = NoOne /\ deployLock' = m /\ deploy' = "idle"
        BY <1>3, <1>4, <1>6, <1>7
    <2>3. deployLock = NoOne => run'[m].epoch = target
        BY <1>5, <1>7
    <2>4. pc'[m] \in {"probing", "write"}
        BY <1>6, <1>7
    <2>5. Avoiding(m)'
        BY <1>3, <2>2, <2>3, <2>4 DEF Avoiding
    <2> QED
        BY <2>1, <2>5
<1>12. Keeping(m)'
    <2>1. run'[m].state = run[m].state /\ ~run'[m].restarted /\ pc'[m] \in {"probing", "write"}
        BY <1>2, <1>5, <1>6, <1>7, <1>9
    <2> QED
        BY <1>1, <1>2, <1>9, <2>1 DEF Keeping, Asking
<1>13. Counted(private.failures, 0)'
    BY <1>1, <1>2 DEF Monitoring, Counted, history
<1>14. ~Unwritten(m)' /\ ~Unwritten(m)
    BY <1>2, <1>5, <1>7, <1>9 DEF Unwritten
<1>15. ASSUME NEW x \in Int, x <= Window - Lag
       PROVE  /\ Within(recent', x) <= Within(private'.stamps, x + Lag) + Within(missed', x)
              /\ Within(recent', x)
                    <= Within(run'[m].state.stamps, x + Lag) + Within(missed', x)
    <2>1. Knows(m) /\ run'[m].state = run[m].state
        BY <1>2, <1>5, <1>7 DEF Knows
    <2> QED
        BY <1>2, <1>14, <1>15, <2>1, LimitFor DEF history
<1>16. Monitoring'
    BY <1>8, <1>10, <1>11, <1>12, <1>13, <1>14, <1>15, OneRun
<1> QED
    BY <1>8, <1>16 DEF Inv

\* The lock is given back; what was learnt of the deployments stays true.
LEMMA ProbedKeeps ==
    ASSUME Inv, NEW m \in Monitors, Probed(m)
    PROVE  Inv'
<1> USE BoundsAre
<1>1. Types /\ Monitoring /\ Holds(m) /\ Failing(m) /\ Keeping(m) /\ Avoiding(m)
    BY DEF Inv, Monitoring
<1>2. /\ pc[m] = "probing" /\ pc' = [pc EXCEPT ![m] = "recheck"] /\ deployLock' = NoOne
      /\ UNCHANGED <<onebot, private, monitorLock, run, release, history, kills, jumps>>
    BY DEF Probed, At, Go
<1>3. deployLock = m /\ m # Deployment
    BY <1>1, <1>2 DEF Avoiding
<1>4. /\ pc'[m] = "recheck" /\ run'[m] = run[m]
      /\ pc' = [pc EXCEPT ![m] = pc'[m]] /\ pc'[m] \in Labels
      /\ run' = [run EXCEPT ![m] = run'[m]] /\ run'[m] \in RunState
    BY <1>1, <1>2, WentOn, TypesAre DEF Labels
<1>5. Types' /\ Deploying' /\ \A n \in Monitors \ {m} : pc'[n] = "idle"
    BY <1>1, <1>2, <1>3, <1>4, RunAside, TypesAre DEF history
<1>6. ~run[m].restarted
    BY <1>1, <1>2, RunIs DEF Keeping
<1>7. Holds(m)' /\ Failing(m)'
    BY <1>1, <1>2, <1>4 DEF Holds, Failing, Asking, Counted, history
<1>8. Avoiding(m)'
    BY <1>1, <1>2, <1>4 DEF Avoiding, release
<1>9. Keeping(m)'
    BY <1>1, <1>2, <1>4, <1>6 DEF Keeping, Asking
<1>10. Counted(private.failures, 0)'
    BY <1>1, <1>2 DEF Monitoring, Counted, history
<1>11. ~Unwritten(m)' /\ ~Unwritten(m)
    BY <1>2, <1>4 DEF Unwritten
<1>12. ASSUME NEW x \in Int, x <= Window - Lag
       PROVE  /\ Within(recent', x) <= Within(private'.stamps, x + Lag) + Within(missed', x)
              /\ Within(recent', x)
                    <= Within(run'[m].state.stamps, x + Lag) + Within(missed', x)
    <2>1. Knows(m)
        BY <1>2 DEF Knows
    <2> QED
        BY <1>2, <1>4, <1>11, <1>12, <2>1, LimitFor DEF history
<1>13. Monitoring'
    BY <1>5, <1>7, <1>8, <1>9, <1>10, <1>11, <1>12, OneRun
<1> QED
    BY <1>5, <1>13 DEF Inv

\* Still disconnected, or the check is evaluated again as one that was not.
LEMMA RecheckKeeps ==
    ASSUME Inv, NEW m \in Monitors, Recheck(m)
    PROVE  Inv'
<1> USE BoundsAre
<1>1. Types /\ Monitoring /\ Holds(m) /\ Failing(m) /\ Keeping(m) /\ Avoiding(m)
    BY DEF Inv, Monitoring
<1>2. /\ pc[m] = "recheck"
      /\ UNCHANGED <<onebot, private, monitorLock, deployLock, release, history, kills, jumps>>
    BY DEF Recheck, At
<1>3. ~run[m].restarted /\ run \in [Monitors -> RunState] /\ run[m] \in RunState
    BY <1>1, <1>2, RunIs, TypesAre DEF Keeping
<1>4. Counted(private.failures, 0)'
    BY <1>1, <1>2 DEF Monitoring, Counted, history
<1>5. CASE pc' = [pc EXCEPT ![m] = "restart"] /\ run' = run
    <2>1. /\ pc'[m] = "restart" /\ run'[m] = run[m]
          /\ pc' = [pc EXCEPT ![m] = pc'[m]] /\ pc'[m] \in Labels
          /\ run' = [run EXCEPT ![m] = run'[m]] /\ run'[m] \in RunState
        BY <1>1, <1>5, WentOn, TypesAre DEF Labels
    <2>2. Types' /\ Deploying' /\ \A n \in Monitors \ {m} : pc'[n] = "idle"
        BY <1>1, <1>2, <2>1, RunAside, TypesAre DEF history
    <2>3. Holds(m)' /\ Failing(m)'
        BY <1>1, <1>2, <2>1 DEF Holds, Failing, Asking, Counted, history
    <2>4. Avoiding(m)'
        BY <1>1, <1>2, <2>1 DEF Avoiding, release
    <2>5. Keeping(m)'
        BY <1>1, <1>2, <1>3, <2>1 DEF Keeping, Asking
    <2>6. ~Unwritten(m)' /\ ~Unwritten(m)
        BY <1>2, <2>1 DEF Unwritten
    <2>7. ASSUME NEW x \in Int, x <= Window - Lag
          PROVE  /\ Within(recent', x) <= Within(private'.stamps, x + Lag) + Within(missed', x)
                 /\ Within(recent', x)
                       <= Within(run'[m].state.stamps, x + Lag) + Within(missed', x)
        <3>1. Knows(m)
            BY <1>2 DEF Knows
        <3> QED
            BY <1>2, <2>1, <2>6, <2>7, <3>1, LimitFor DEF history
    <2>8. Monitoring'
        BY <1>4, <2>2, <2>3, <2>4, <2>5, <2>6, <2>7, OneRun
    <2> QED
        BY <2>2, <2>8 DEF Inv
<1>6. CASE /\ pc' = [pc EXCEPT ![m] = "write"]
           /\ run' = [run EXCEPT ![m].seen = "connected",
                                 ![m].state = Evaluated(run[m].state, "connected")]
    <2> DEFINE s == Evaluated(run[m].state, "connected")
               f == run[m]
               r == [f EXCEPT !.seen = "connected", !.state = s]
    <2>1. f \in RunState /\ f.state \in State
        <3>1. run[m].state \in State
            BY <1>1, RunIs
        <3> QED
            BY <1>3, <3>1
    <2>2. s \in State /\ s.stamps = f.state.stamps /\ s.failures = 0
        <3>1. "connected" \in Answers \cup {"unknown"} /\ "connected" # "disconnected"
            BY DEF Answers
        <3> QED
            BY <2>1, <3>1, EvaluatedIs
    <2> HIDE DEF s
    <2>3. run' = [run EXCEPT ![m] = r]
        BY <1>3, <1>6 DEF s
    <2> HIDE DEF f
    <2>4. /\ r \in RunState /\ r.state = s /\ r.at = f.at /\ r.seen = "connected"
          /\ r.restarted = f.restarted
        <3>1. "connected" \in Answers
            BY DEF Answers
        <3> QED
            BY <2>1, <2>2, <3>1 DEF RunState
    <2> HIDE DEF r
    <2>5. /\ pc'[m] = "write" /\ run'[m] = r
          /\ pc' = [pc EXCEPT ![m] = pc'[m]] /\ pc'[m] \in Labels
          /\ run' = [run EXCEPT ![m] = run'[m]] /\ run'[m] \in RunState
        BY <1>1, <1>6, <2>3, <2>4, WentOn DEF Labels
    <2>6. Types' /\ Deploying' /\ \A n \in Monitors \ {m} : pc'[n] = "idle"
        BY <1>1, <1>2, <2>5, RunAside, TypesAre DEF history
    <2>7. Holds(m)' /\ Failing(m)' /\ Avoiding(m)'
        BY <1>1, <1>2, <2>2, <2>4, <2>5 DEF Holds, Failing, Avoiding, Asking, Counted, history
    <2>8. Keeping(m)'
        <3>1. ~run'[m].restarted
            BY <1>3, <2>4, <2>5 DEF f
        <3> QED
            BY <1>1, <1>2, <1>3, <2>5, <3>1 DEF Keeping, Asking
    <2>9. ~Unwritten(m)' /\ ~Unwritten(m)
        BY <1>2, <1>3, <2>4, <2>5 DEF Unwritten, f
    <2>10. ASSUME NEW x \in Int, x <= Window - Lag
           PROVE  /\ Within(recent', x) <= Within(private'.stamps, x + Lag) + Within(missed', x)
                  /\ Within(recent', x)
                        <= Within(run'[m].state.stamps, x + Lag) + Within(missed', x)
        <3>1. Knows(m) /\ run'[m].state.stamps = run[m].state.stamps
            BY <1>2, <2>2, <2>4, <2>5 DEF Knows, f
        <3> QED
            BY <1>2, <2>9, <2>10, <3>1, LimitFor DEF history
    <2>11. Monitoring'
        BY <1>4, <2>6, <2>7, <2>8, <2>9, <2>10, OneRun
    <2> QED
        BY <2>6, <2>11 DEF Inv
<1> QED
    BY <1>5, <1>6 DEF Recheck, Go

\* A restart is one more, and is missed if no file is to tell of it.
LEMMA RestartsIs ==
    ASSUME Types, NEW told \in BOOLEAN, Restarts(told)
    PROVE  /\ onebot' \in Answers /\ recent' \in Seq(Nat) /\ missed' \in Seq(Nat)
           /\ \A x \in Int :
                 /\ Within(recent', x) = Within(recent, x) + (IF 0 <= x THEN 1 ELSE 0)
                 /\ Within(missed', x) = Within(missed, x) + (IF ~told /\ 0 <= x THEN 1 ELSE 0)
                 /\ Within(recent, x) \in Nat /\ Within(missed, x) \in Nat
<1>1. recent \in Seq(Nat) /\ missed \in Seq(Nat) /\ recent \in Seq(Int) /\ missed \in Seq(Int)
    BY TypesAre
<1>2. /\ onebot' = "disconnected" /\ recent' = Append(recent, 0)
      /\ missed' = IF told THEN missed ELSE Append(missed, 0)
    BY DEF Restarts
<1>3. recent' \in Seq(Nat) /\ missed' \in Seq(Nat)
    BY <1>1, <1>2
<1>4. ASSUME NEW x \in Int
      PROVE  /\ Within(recent', x) = Within(recent, x) + (IF 0 <= x THEN 1 ELSE 0)
             /\ Within(missed', x) = Within(missed, x) + (IF ~told /\ 0 <= x THEN 1 ELSE 0)
             /\ Within(recent, x) \in Nat /\ Within(missed, x) \in Nat
    <2>1. 0 \in 0 .. x <=> 0 <= x
        OBVIOUS
    <2>2. /\ Within(Append(recent, 0), x) = Within(recent, x) + (IF 0 <= x THEN 1 ELSE 0)
          /\ Within(Append(missed, 0), x) = Within(missed, x) + (IF 0 <= x THEN 1 ELSE 0)
        BY <1>1, <2>1, WithinAppend, 0 \in Int
    <2>3. Within(recent, x) \in Nat /\ Within(missed, x) \in Nat
        BY <1>1, WithinType
    <2> QED
        BY <1>2, <2>2, <2>3
<1> QED
    BY <1>2, <1>3, <1>4 DEF Answers

\* A command that fails is not recorded, whatever it did.
LEMMA RestartFailsKeeps ==
    ASSUME Inv, NEW m \in Monitors, RestartFails(m)
    PROVE  Inv'
<1> USE BoundsAre
<1>1. Types /\ Monitoring /\ Holds(m) /\ Failing(m) /\ Keeping(m) /\ Avoiding(m)
    BY DEF Inv, Monitoring
<1>2. /\ pc[m] = "restart" /\ pc' = [pc EXCEPT ![m] = "write"]
      /\ Restarts(FALSE) \/ UNCHANGED <<onebot, recent, missed>>
      /\ UNCHANGED <<private, monitorLock, deployLock, run, release, checks, kills, jumps>>
    BY DEF RestartFails, At, Go
<1>3. /\ pc'[m] = "write" /\ run'[m] = run[m]
      /\ pc' = [pc EXCEPT ![m] = pc'[m]] /\ pc'[m] \in Labels
      /\ run' = [run EXCEPT ![m] = run'[m]] /\ run'[m] \in RunState
    BY <1>1, <1>2, WentOn, TypesAre DEF Labels
<1>4. /\ onebot' \in Answers /\ recent' \in Seq(Nat) /\ missed' \in Seq(Nat)
      /\ \A x \in Int : \E d \in {0, 1} :
            Within(recent', x) = Within(recent, x) + d /\ Within(missed', x) = Within(missed, x) + d
    <2>1. CASE Restarts(FALSE)
        <3>1. /\ onebot' \in Answers /\ recent' \in Seq(Nat) /\ missed' \in Seq(Nat)
              /\ \A x \in Int :
                    /\ Within(recent', x) = Within(recent, x) + (IF 0 <= x THEN 1 ELSE 0)
                    /\ Within(missed', x) = Within(missed, x) + (IF 0 <= x THEN 1 ELSE 0)
            BY <1>1, <2>1, RestartsIs
        <3> QED
            BY <3>1
    <2>2. CASE UNCHANGED <<onebot, recent, missed>>
        <3>1. recent \in Seq(Int) /\ missed \in Seq(Int)
            BY <1>1, TypesAre
        <3>2. \A x \in Int : Within(recent, x) \in Nat /\ Within(missed, x) \in Nat
            BY <3>1, WithinType
        <3> QED
            BY <1>1, <2>2, <3>2, TypesAre
    <2> QED
        BY <1>2, <2>1, <2>2
<1>5. Types' /\ Deploying' /\ \A n \in Monitors \ {m} : pc'[n] = "idle"
    BY <1>1, <1>2, <1>3, <1>4, RunAside, TypesAre
<1>6. ~run[m].restarted /\ run[m].seen = "disconnected" /\ Threshold <= checks + 1
    BY <1>1, <1>2, RunIs DEF Keeping, Failing, Asking
<1>7. Holds(m)' /\ Failing(m)' /\ Avoiding(m)'
    BY <1>1, <1>2, <1>3, <1>6 DEF Holds, Failing, Avoiding, Asking, Counted
<1>8. Keeping(m)'
    BY <1>1, <1>2, <1>3, <1>6 DEF Keeping, Asking
<1>9. Counted(private.failures, 0)'
    BY <1>1, <1>2 DEF Monitoring, Counted
<1>10. ~Unwritten(m)' /\ ~Unwritten(m) /\ Knows(m)
    BY <1>2, <1>3, <1>6 DEF Unwritten, Knows
<1>11. ASSUME NEW x \in Int, x <= Window - Lag
       PROVE  /\ Within(recent', x) <= Within(private'.stamps, x + Lag) + Within(missed', x)
              /\ Within(recent', x)
                    <= Within(run'[m].state.stamps, x + Lag) + Within(missed', x)
    <2>1. /\ Within(recent, x) \in Nat /\ Within(private.stamps, x + Lag) \in Nat
          /\ Within(run[m].state.stamps, x + Lag) \in Nat /\ Within(missed, x) \in Nat
          /\ Within(recent, x) <= Within(private.stamps, x + Lag) + Within(missed, x)
          /\ Within(recent, x) <= Within(run[m].state.stamps, x + Lag) + Within(missed, x)
        BY <1>2, <1>10, <1>11, LimitFor
    <2>2. PICK d \in {0, 1} : /\ Within(recent', x) = Within(recent, x) + d
                             /\ Within(missed', x) = Within(missed, x) + d
        BY <1>4
    <2> QED
        BY <1>2, <1>3, <2>1, <2>2
<1>12. Monitoring'
    BY <1>5, <1>7, <1>8, <1>9, <1>10, <1>11, OneRun
<1> QED
    BY <1>5, <1>12 DEF Inv

\* A restart is recorded as of when the run began, in place of the failures; of
\* one that is dated by a clock set since it is not on file when it was.
LEMMA RestartKeeps ==
    ASSUME Inv, NEW m \in Monitors, Restart(m)
    PROVE  Inv'
<1> USE BoundsAre
<1>1. Types /\ Monitoring /\ Holds(m) /\ Failing(m) /\ Keeping(m) /\ Avoiding(m)
    BY DEF Inv, Monitoring
<1> DEFINE f == run[m]
           a == f.at + f.shift
           p == f.state.stamps
           q == Append(p, a)
           s == [failures |-> 0, stamps |-> q]
           r == [f EXCEPT !.state = s, !.restarted = TRUE]
           told == f.shift = 0
<1>2. /\ pc[m] = "restart" /\ pc' = [pc EXCEPT ![m] = "write"] /\ Restarts(told)
      /\ UNCHANGED <<private, monitorLock, deployLock, release, checks, kills, jumps>>
    BY DEF Restart, At, Go
<1>3. run \in [Monitors -> RunState] /\ f \in RunState
    BY <1>1, TypesAre
<1>4. run' = [run EXCEPT ![m] = r]
    BY <1>3 DEF Restart, Recorded
<1>5. /\ f.state \in State /\ f.at \in 0 .. Lag /\ f.shift \in Int /\ a \in Int
      /\ p \in Seq(Int) /\ Len(p) \in Nat
    <2>1. /\ f.state \in State /\ f.at \in 0 .. Lag /\ f.shift \in Int
          /\ p \in Seq(Int) /\ Len(p) \in Nat
        BY <1>1, RunIs, StateIs
    <2> QED
        BY <2>1
<1>6. ~f.restarted /\ Len(p) < MaxRecoveries /\ Knows(m) /\ ~Unwritten(m)
    BY <1>1, <1>2, RunIs DEF Keeping, Asking, Knows, Unwritten
<1>7. /\ onebot' \in Answers /\ recent' \in Seq(Nat) /\ missed' \in Seq(Nat)
      /\ \A x \in Int :
            /\ Within(recent', x) = Within(recent, x) + (IF 0 <= x THEN 1 ELSE 0)
            /\ Within(missed', x) = Within(missed, x) + (IF ~told /\ 0 <= x THEN 1 ELSE 0)
            /\ Within(recent, x) \in Nat /\ Within(missed, x) \in Nat
    BY <1>1, <1>2, RestartsIs
<1>8. told => a = f.at
    BY <1>5
<1> HIDE DEF told, a, p
<1>9. /\ q \in Seq(Int) /\ Len(q) = Len(p) + 1
      /\ \A x \in Int : Within(q, x) = Within(p, x) + (IF a \in 0 .. x THEN 1 ELSE 0)
    BY <1>5, WithinAppend
<1> HIDE DEF q
<1>10. s \in State /\ s.stamps = q /\ s.failures = 0
    <2>1. 0 \in 0 .. MaxCount + 1 /\ Len(q) <= MaxRecoveries
        BY <1>5, <1>6, <1>9
    <2> QED
        BY <1>9, <2>1, StateIs
<1> HIDE DEF s, f
<1>11. /\ r \in RunState /\ r.state = s /\ r.seen = f.seen /\ r.restarted = TRUE
    <2>1. r = [f EXCEPT !.state = s, !.restarted = TRUE]
        OBVIOUS
    <2> HIDE DEF r
    <2> QED
        BY <1>3, <1>10, <2>1 DEF RunState
<1> HIDE DEF r
<1>12. /\ pc'[m] = "write" /\ run'[m] = r
       /\ pc' = [pc EXCEPT ![m] = pc'[m]] /\ pc'[m] \in Labels
       /\ run' = [run EXCEPT ![m] = run'[m]] /\ run'[m] \in RunState
    BY <1>1, <1>2, <1>4, <1>11, WentOn DEF Labels
<1>13. Types' /\ Deploying' /\ \A n \in Monitors \ {m} : pc'[n] = "idle"
    BY <1>1, <1>2, <1>7, <1>12, RunAside, TypesAre
<1>14. f.seen = "disconnected" /\ Threshold <= checks + 1 /\ checks' = checks
    BY <1>1, <1>2 DEF Failing, Asking, f
<1>15. Holds(m)' /\ Failing(m)' /\ Avoiding(m)'
    <2>1. Holds(m)'
        BY <1>1, <1>2, <1>12 DEF Holds
    <2>2. /\ run'[m].state.failures = 0 /\ run'[m].seen = "disconnected" /\ pc'[m] = "write"
        BY <1>10, <1>11, <1>12, <1>14
    <2>3. Failing(m)'
        BY <1>14, <2>2 DEF Failing, Asking, Counted
    <2>4. Avoiding(m)'
        BY <1>12 DEF Avoiding
    <2> QED
        BY <2>1, <2>3, <2>4
<1>16. Keeping(m)'
    BY <1>12 DEF Keeping, Asking
<1>17. Counted(private.failures, 0)'
    BY <1>1, <1>2 DEF Monitoring, Counted
<1>18. Unwritten(m)'
    BY <1>11, <1>12 DEF Unwritten
<1>19. ASSUME NEW x \in Int, x <= Window - Lag
       PROVE  /\ Within(recent', x) <= Within(private'.stamps, x + Lag) + Within(missed', x) + 1
              /\ Within(recent', x)
                    <= Within(run'[m].state.stamps, x + Lag) + Within(missed', x)
    <2>1. /\ Within(private.stamps, x + Lag) \in Nat /\ Within(p, x + Lag) \in Nat
          /\ x + Lag \in Int /\ Within(recent, x) \in Nat /\ Within(missed, x) \in Nat
          /\ Within(recent, x) <= Within(private.stamps, x + Lag) + Within(missed, x)
          /\ Within(recent, x) <= Within(p, x + Lag) + Within(missed, x)
        BY <1>2, <1>6, <1>19, LimitFor DEF p, f
    <2>2. /\ Within(recent', x) = Within(recent, x) + (IF 0 <= x THEN 1 ELSE 0)
          /\ Within(missed', x) = Within(missed, x) + (IF ~told /\ 0 <= x THEN 1 ELSE 0)
        BY <1>7
    <2>3. Within(q, x + Lag) = Within(p, x + Lag) + (IF a \in 0 .. x + Lag THEN 1 ELSE 0)
        BY <1>9, <2>1
    <2>4. told /\ 0 <= x => a \in 0 .. x + Lag
        BY <1>5, <1>8
    <2>5. run'[m].state.stamps = q /\ private' = private
        BY <1>2, <1>10, <1>11, <1>12
    <2>6. Within(recent', x) <= Within(q, x + Lag) + Within(missed', x)
        BY <2>1, <2>2, <2>3, <2>4
    <2>7. Within(recent', x) <= Within(private.stamps, x + Lag) + Within(missed', x) + 1
        BY <2>1, <2>2
    <2> QED
        BY <2>5, <2>6, <2>7
<1>20. Monitoring'
    BY <1>13, <1>15, <1>16, <1>17, <1>18, <1>19, OneRun
<1> QED
    BY <1>13, <1>20 DEF Inv

\* What the run keeps goes on file, its restart with it.
LEMMA WritePrivateKeeps ==
    ASSUME Inv, NEW m \in Monitors, WritePrivate(m)
    PROVE  Inv'
<1> USE BoundsAre
<1>1. Types /\ Monitoring /\ Holds(m) /\ Failing(m) /\ Keeping(m)
    BY DEF Inv, Monitoring
<1>2. /\ pc[m] = "write" /\ pc' = [pc EXCEPT ![m] = "public"] /\ private' = run[m].state
      /\ UNCHANGED <<onebot, monitorLock, deployLock, run, release, recent, missed, kills, jumps>>
    BY DEF WritePrivate, At, Go
<1>3. /\ pc'[m] = "public" /\ run'[m] = run[m]
      /\ pc' = [pc EXCEPT ![m] = pc'[m]] /\ pc'[m] \in Labels
      /\ run' = [run EXCEPT ![m] = run'[m]] /\ run'[m] \in RunState
    BY <1>1, <1>2, WentOn, TypesAre DEF Labels
<1>4. /\ run[m].state \in State /\ run[m].seen \in {"connected", "disconnected", "unknown"}
      /\ run[m].restarted \in BOOLEAN /\ run[m].state.failures \in 0 .. MaxCount + 1
      /\ checks \in 0 .. Threshold /\ checks \in Nat
    BY <1>1, RunIs, StateIs, TypesAre DEF Answers
<1>5. checks' = IF run[m].restarted \/ run[m].seen = "connected" THEN 0
                ELSE IF run[m].seen = "disconnected" /\ checks < Threshold THEN checks + 1
                ELSE checks
    BY DEF WritePrivate
<1>6. checks' \in 0 .. Threshold
    BY <1>4, <1>5
<1>7. Types' /\ Deploying' /\ \A n \in Monitors \ {m} : pc'[n] = "idle"
    BY <1>1, <1>2, <1>3, <1>4, <1>6, RunAside, TypesAre
<1>8. Holds(m)' /\ Failing(m)' /\ Avoiding(m)'
    BY <1>1, <1>2, <1>3 DEF Holds, Failing, Avoiding, Asking
<1>9. Keeping(m)'
    BY <1>1, <1>2, <1>3 DEF Keeping, Asking
<1>10. Counted(private.failures, 0)'
    <2> DEFINE n == run[m].state.failures
    <2>1. /\ run[m].restarted \/ run[m].seen = "connected" => n = 0
          /\ run[m].seen = "disconnected" => n <= checks + 1 \/ Threshold <= checks + 1
          /\ run[m].seen = "unknown" => n <= checks + 0 \/ Threshold <= checks + 0
        BY <1>1, <1>2 DEF Failing, Counted
    <2>2. n \in Nat /\ private'.failures = n
        BY <1>2, <1>4
    <2> HIDE DEF n
    <2>3. n <= checks' + 0 \/ Threshold <= checks' + 0
        BY <1>4, <1>5, <2>1, <2>2
    <2> QED
        BY <2>2, <2>3 DEF Counted
<1>11. ~Unwritten(m)' /\ ~Knows(m)' /\ Knows(m)
    BY <1>2, <1>3 DEF Unwritten, Knows
<1>12. ASSUME NEW x \in Int, x <= Window - Lag
       PROVE  Within(recent', x) <= Within(private'.stamps, x + Lag) + Within(missed', x)
    BY <1>2, <1>11, <1>12, LimitFor
<1>13. Monitoring'
    BY <1>7, <1>8, <1>9, <1>10, <1>11, <1>12, OneRun
<1> QED
    BY <1>7, <1>13 DEF Inv

\* The end of a run.
LEMMA WritePublicKeeps ==
    ASSUME Inv, NEW m \in Monitors, WritePublic(m)
    PROVE  Inv'
<1> USE BoundsAre
<1>1. Types /\ Monitoring
    BY DEF Inv
<1>2. /\ pc[m] = "public" /\ pc' = [pc EXCEPT ![m] = "idle"] /\ run' = [run EXCEPT ![m] = Fresh]
      /\ monitorLock' = (IF monitorLock = m THEN NoOne ELSE monitorLock)
      /\ UNCHANGED <<onebot, private, deployLock, release, history, kills, jumps>>
    BY DEF WritePublic, At, Go
<1>3. /\ pc'[m] = "idle"
      /\ pc' = [pc EXCEPT ![m] = pc'[m]] /\ pc'[m] \in Labels
      /\ run' = [run EXCEPT ![m] = run'[m]] /\ run'[m] \in RunState
    BY <1>1, <1>2, WentOn, FreshIs DEF Labels
<1>4. Types' /\ Deploying' /\ \A n \in Monitors \ {m} : pc'[n] = "idle"
    <2>1. monitorLock' \in Monitors \cup {NoOne}
        BY <1>1, <1>2, TypesAre
    <2> QED
        BY <1>1, <1>2, <1>3, <2>1, RunAside, TypesAre DEF history
<1>5. Holds(m)' /\ Failing(m)' /\ Keeping(m)' /\ Avoiding(m)' /\ ~Unwritten(m)' /\ ~Knows(m)'
    BY <1>3, IdleIsFine
<1>6. Counted(private.failures, 0)'
    BY <1>1, <1>2 DEF Monitoring, Counted, history
<1>7. ~Unwritten(m)
    BY <1>2 DEF Unwritten
<1>8. ASSUME NEW x \in Int, x <= Window - Lag
      PROVE  Within(recent', x) <= Within(private'.stamps, x + Lag) + Within(missed', x)
    BY <1>2, <1>7, <1>8, LimitFor DEF history
<1>9. Monitoring'
    BY <1>4, <1>5, <1>6, <1>8, OneRun
<1> QED
    BY <1>4, <1>9 DEF Inv

\* A run is killed: a restart that it had not written is missed.
LEMMA KillMonitorKeeps ==
    ASSUME Inv, NEW m \in Monitors, KillMonitor(m)
    PROVE  Inv'
<1> USE BoundsAre
<1>1. Types /\ Monitoring
    BY DEF Inv
<1>2. /\ pc[m] # "idle" /\ pc' = [pc EXCEPT ![m] = "idle"] /\ run' = [run EXCEPT ![m] = Fresh]
      /\ monitorLock' = (IF monitorLock = m THEN NoOne ELSE monitorLock)
      /\ deployLock' = (IF deployLock = m THEN NoOne ELSE deployLock)
      /\ missed' = IF pc[m] = "write" /\ run[m].restarted THEN Append(missed, 0) ELSE missed
      /\ kills < MaxKills /\ kills' = kills + 1
      /\ UNCHANGED <<onebot, private, release, recent, checks, jumps>>
    BY DEF KillMonitor, At, Go
<1>3. /\ pc'[m] = "idle"
      /\ pc' = [pc EXCEPT ![m] = pc'[m]] /\ pc'[m] \in Labels
      /\ run' = [run EXCEPT ![m] = run'[m]] /\ run'[m] \in RunState
    BY <1>1, <1>2, WentOn, FreshIs DEF Labels
<1>4. missed \in Seq(Int) /\ missed' \in Seq(Nat)
    <2>1. missed \in Seq(Nat) /\ missed \in Seq(Int)
        BY <1>1, TypesAre
    <2> QED
        BY <1>2, <2>1
<1>5. Types' /\ Deploying' /\ \A n \in Monitors \ {m} : pc'[n] = "idle"
    <2>1. monitorLock' \in Monitors \cup {NoOne}
        BY <1>1, <1>2, TypesAre
    <2>2. /\ deployLock' \in Monitors \cup {NoOne, Deployment}
          /\ deployLock' = Deployment <=> deployLock = Deployment
        BY <1>1, <1>2, TypesAre
    <2>3. kills' \in 0 .. MaxKills
        BY <1>1, <1>2, TypesAre
    <2> QED
        BY <1>1, <1>2, <1>3, <1>4, <2>1, <2>2, <2>3, RunAside, TypesAre
<1>6. Holds(m)' /\ Failing(m)' /\ Keeping(m)' /\ Avoiding(m)' /\ ~Unwritten(m)' /\ ~Knows(m)'
    BY <1>3, IdleIsFine
<1>7. Counted(private.failures, 0)'
    BY <1>1, <1>2 DEF Monitoring, Counted
<1>8. ASSUME NEW x \in Int, x <= Window - Lag
      PROVE  Within(recent', x) <= Within(private'.stamps, x + Lag) + Within(missed', x)
    <2>1. /\ Within(recent, x) \in Nat /\ Within(private.stamps, x + Lag) \in Nat
          /\ Within(missed, x) \in Nat
          /\ ~Unwritten(m) =>
                Within(recent, x) <= Within(private.stamps, x + Lag) + Within(missed, x)
          /\ Unwritten(m) =>
                Within(recent, x) <= Within(private.stamps, x + Lag) + Within(missed, x) + 1
        BY <1>2, <1>8, LimitFor
    <2>2. Within(Append(missed, 0), x) = Within(missed, x) + (IF 0 \in 0 .. x THEN 1 ELSE 0)
        BY <1>4, WithinAppend, 0 \in Int
    <2>3. 0 <= x \/ Within(recent, x) = 0
        <3>1. ~(0 <= x) => 0 .. x = {}
            OBVIOUS
        <3>2. 0 .. x = {} => {i \in DOMAIN recent : recent[i] \in 0 .. x} = {}
            OBVIOUS
        <3> QED
            BY <3>1, <3>2, FS_EmptySet DEF Within
    <2>4. Within(recent, x) <= Within(private.stamps, x + Lag) + Within(missed', x)
        <3>1. missed' = IF Unwritten(m) THEN Append(missed, 0) ELSE missed
            BY <1>2 DEF Unwritten
        <3>2. 0 <= x => 0 \in 0 .. x
            OBVIOUS
        <3> QED
            BY <2>1, <2>2, <2>3, <3>1, <3>2
    <2> QED
        BY <1>2, <2>4
<1>9. Monitoring'
    BY <1>5, <1>6, <1>7, <1>8, OneRun
<1> QED
    BY <1>5, <1>9 DEF Inv

-----------------------------------------------------------------------------
(* The invariant holds, and what follows from it.                          *)

LEMMA InitHolds == Init => Inv
<1> SUFFICES ASSUME Init PROVE Inv
    OBVIOUS
<1> USE BoundsAre
<1>1. Types
    <2>1. <<>> \in Seq(Nat) /\ 0 \in Versions
        BY DEF Versions
    <2>2. pc \in [Monitors -> Labels] /\ run \in [Monitors -> RunState]
        BY FreshIs DEF Init, Labels
    <2>3. private \in State
        BY FreshIs DEF Init
    <2>4. deploy # "idle" <=> deployLock = Deployment
        BY DEF Init
    <2>5. kills \in 0 .. MaxKills /\ jumps \in 0 .. MaxJumps /\ checks \in 0 .. Threshold
        BY DEF Init
    <2> QED
        BY <2>1, <2>2, <2>3, <2>4, <2>5 DEF Init, Types, Answers
<1>2. ASSUME NEW m \in Monitors
      PROVE  Holds(m) /\ Failing(m) /\ Keeping(m) /\ Avoiding(m) /\ ~Unwritten(m) /\ ~Knows(m)
    BY IdleIsFine DEF Init
<1>3. Counted(private.failures, 0)
    BY DEF Init, Blank, Counted
<1>4. Limit
    <2>1. ASSUME NEW x \in Int, x <= Window - Lag
          PROVE  Within(recent, x) <= Within(private.stamps, x + Lag) + Within(missed, x)
        <3>1. recent = <<>> /\ private.stamps = <<>> /\ missed = <<>>
            BY DEF Init, Blank
        <3>2. <<>> \in Seq(Int) /\ Len(<<>>) = 0 /\ x + Lag \in Int
            OBVIOUS
        <3>3. Within(<<>>, x) \in Nat /\ Within(<<>>, x + Lag) \in Nat
            BY <3>2, WithinType
        <3> QED
            BY <3>1, <3>2, <3>3
    <2> QED
        BY <1>2, <2>1 DEF Limit
<1>5. Deploying
    BY DEF Init, Deploying
<1> QED
    BY <1>1, <1>2, <1>3, <1>4, <1>5 DEF Inv, Monitoring

LEMMA NextKeeps == Inv /\ [Next]_vars => Inv'
<1> SUFFICES ASSUME Inv, [Next]_vars PROVE Inv'
    OBVIOUS
<1>1. CASE Tick
    BY <1>1, TickKeeps
<1>2. CASE Change
    BY <1>2, ChangeKeeps
<1>3. CASE DeployStep
    BY <1>3, DeployKeeps
<1>4. ASSUME NEW d \in Jumps, SetClock(d) PROVE Inv'
    BY <1>4, SetClockKeeps
<1>5. ASSUME NEW m \in Monitors, MonitorStep(m) PROVE Inv'
    BY <1>5, BeginKeeps, ObserveKeeps, ProbeKeeps, ProbedKeeps, RecheckKeeps, RestartKeeps,
       RestartFailsKeeps, WritePrivateKeeps, WritePublicKeeps, KillMonitorKeeps DEF MonitorStep
<1>6. CASE UNCHANGED vars
    BY <1>6 DEF vars, release, history, Inv, Types, Monitoring, Deploying, Holds, Failing, Keeping,
       Avoiding, Unwritten, Knows, Counted, Limit
<1> QED
    BY <1>1, <1>2, <1>3, <1>4, <1>5, <1>6 DEF Next

\* The invariant, of every state: who holds the locks, what the files and the
\* runs know of the failures and the restarts, where a deployment stands.
THEOREM Invariant == Spec => []Inv
BY InitHolds, NextKeeps, PTL DEF Spec

\* However many runs overlap, are slow or are killed, and however the clock is
\* set, NapCat is restarted no more often in a window, less the lag, than the
\* limit and those restarts in that time that are not on file as they were: of
\* a command that failed although it restarted NapCat, of a run that was killed
\* before it could write, or before the clock was set (run_once, evaluate).
THEOREM LimitTheorem == Spec => []LimitHolds
<1>1. ASSUME Inv PROVE LimitHolds
    <2> USE BoundsAre
    <2>1. Types /\ Monitoring
        BY <1>1 DEF Inv
    <2>2. TypeOK
        <3>1. \A m \in Monitors :
                  /\ run[m].at \in 0 .. Lag /\ run[m].shift \in Int /\ run[m].state \in State
                  /\ run[m].seen \in Answers \cup {"unknown"}
                  /\ run[m].epoch \in Versions /\ run[m].restarted \in BOOLEAN
            BY <2>1, RunIs
        <3> QED
            BY <2>1, <3>1 DEF Types, TypeOK, Labels
    <2> DEFINE y == Window - Lag
    <2>3. y \in Int /\ y <= Window - Lag /\ y + Lag = Window /\ Window \in Int
        OBVIOUS
    <2> HIDE DEF y
    <2>4. recent \in Seq(Int) /\ missed \in Seq(Int) /\ private \in State
        BY <2>1, TypesAre
    <2>5. Within(recent, y) \in Nat /\ Within(missed, y) \in Nat
        BY <2>3, <2>4, WithinType
    <2>6. ASSUME NEW s \in State
          PROVE  Within(s.stamps, Window) \in Nat /\ Within(s.stamps, Window) <= MaxRecoveries
        <3>1. s.stamps \in Seq(Int) /\ Len(s.stamps) \in Nat /\ Len(s.stamps) <= MaxRecoveries
            BY StateIs
        <3>2. Within(s.stamps, Window) \in Nat /\ Within(s.stamps, Window) <= Len(s.stamps)
            BY <2>3, <3>1, WithinType
        <3> QED
            BY <3>1, <3>2
    <2>7. Within(recent, y) <= MaxRecoveries + Within(missed, y)
        <3>1. CASE \A m \in Monitors : ~Unwritten(m)
            <4>1. Within(recent, y) <= Within(private.stamps, y + Lag) + Within(missed, y)
                BY <2>1, <2>3, <3>1 DEF Monitoring, Limit
            <4>2. Within(recent, y) <= Within(private.stamps, Window) + Within(missed, y)
                BY <2>3, <4>1
            <4>3. Within(private.stamps, Window) \in Nat /\ Within(private.stamps, Window) <= MaxRecoveries
                BY <2>4, <2>6
            <4> QED
                BY <2>5, <4>2, <4>3
        <3>2. ASSUME NEW m \in Monitors, Unwritten(m)
              PROVE  Within(recent, y) <= MaxRecoveries + Within(missed, y)
            <4>1. Knows(m) /\ run[m].state \in State
                BY <2>1, <3>2, RunIs DEF Unwritten, Knows
            <4>2. Within(recent, y) <= Within(run[m].state.stamps, y + Lag) + Within(missed, y)
                BY <2>1, <2>3, <4>1 DEF Monitoring, Limit
            <4>3. Within(recent, y) <= Within(run[m].state.stamps, Window) + Within(missed, y)
                BY <2>3, <4>2
            <4>4. /\ Within(run[m].state.stamps, Window) \in Nat
                  /\ Within(run[m].state.stamps, Window) <= MaxRecoveries
                BY <2>6, <4>1
            <4> QED
                BY <2>5, <4>3, <4>4
        <3> QED
            BY <3>1, <3>2
    <2> QED
        BY <2>2, <2>7 DEF LimitHolds, RestartsBounded, y
<1> QED
    BY <1>1, Invariant, PTL

\* Unless a deployment is at work or was cut short, the version that is checked
\* out is the one that runs, and it works (deploy.sh).
THEOREM DeployTheorem == Spec => []DeployedWorks
<1>1. Inv => DeployedWorks
    BY DEF Inv, Deploying, DeployedWorks
<1> QED
    BY <1>1, Invariant, PTL

\* Nothing but the command restarts NapCat.
LEMMA OnlyRestart ==
    ASSUME Inv, [Next]_vars, Restarted
    PROVE  \E m \in Monitors : pc[m] = "restart"
<1>1. recent \in Seq(Nat) /\ Len(recent) \in Nat
    BY TypesAre DEF Inv
<1>2. Len(recent') = Len(recent) + 1
    BY <1>1 DEF Restarted
<1>3. recent' # recent
    BY <1>1, <1>2
<1>4. ~Tick
    <2>1. Len(Older(recent)) \in Nat /\ Len(Older(recent)) <= Len(recent)
        BY <1>1, OlderIs
    <2>2. Tick => recent' = Older(recent)
        BY DEF Tick
    <2> QED
        BY <1>1, <1>2, <2>1, <2>2
<1>5. ~Change /\ \A d \in Jumps : ~SetClock(d)
    BY <1>3 DEF Change, SetClock, history
<1>6. ~DeployStep
    BY <1>3 DEF DeployStep, DeployBegin, ImportFails, CheckOut, Up, Verified, DeadlinePasses,
       RollBack, RolledBack, KillDeploy, RestOfHost, history
<1>7. ASSUME NEW m \in Monitors, MonitorStep(m) PROVE pc[m] = "restart"
    BY <1>3, <1>7 DEF MonitorStep, Begin, Observe, Probe, Probed, Recheck, Restart, RestartFails,
       WritePrivate, WritePublic, KillMonitor, At, history
<1>8. ~UNCHANGED vars
    BY <1>3 DEF vars, history
<1> QED
    BY <1>4, <1>5, <1>6, <1>7, <1>8 DEF Next

\* NapCat is restarted only when enough checks in a row, this one among them,
\* found it disconnected (evaluate, record_recovery), and never in a deployment
\* that was there when the monitor looked at its lock (deployment_lock_busy).
THEOREM RestartTheorem == Spec => RestartIsDue
<1>1. ASSUME Inv, [Next]_vars PROVE [IsDue /\ MissesDeploy]_vars
    <2>1. ASSUME Restarted PROVE IsDue /\ MissesDeploy
        <3>1. PICK m \in Monitors : pc[m] = "restart"
            BY <1>1, <2>1, OnlyRestart
        <3>2. Failing(m) /\ Avoiding(m) /\ checks \in Nat
            BY <1>1, TypesAre DEF Inv, Monitoring
        <3> QED
            BY <3>1, <3>2, BoundsAre DEF IsDue, MissesDeploy, Failing, Avoiding, Asking, At
    <2> QED
        BY <2>1 DEF IsDue, MissesDeploy
<1> QED
    BY <1>1, Invariant, PTL DEF Spec, RestartIsDue
=============================================================================
