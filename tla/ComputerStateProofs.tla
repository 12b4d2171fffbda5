------------------------- MODULE ComputerStateProofs -------------------------
(***************************************************************************)
(* What ComputerState keeps, proved for every time to live, skew, set of   *)
(* clock errors and number of reports: a snapshot carries a stamp that one *)
(* of the clocks' errors explains, so that what is shown as fresh is       *)
(* recent; and the reporter holds the one process that may still run.      *)
(***************************************************************************)
EXTENDS ComputerState, FiniteSetTheorems, TLAPS

\* A stamp is an integer, later than none.
LEMMA StampsAreLate == \A s \in Stamps : s \in Int /\ s > Never
BY StateAssumption DEF Stamps, Never

\* What the relay posted is kept or not: the store holds what it held, or what
\* was posted, which is newer (put).
Kept(n) ==
    /\ TimeValid(payload[n]) /\ Newer(payload[n])
    /\ store' = [at |-> payload[n].at, stamp |-> payload[n].stamp, received |-> time]

\* The steps that touch the store.
LEMMA StoreSteps ==
    ASSUME [Next]_vars
    PROVE  \/ store' = store
           \/ store' = Empty /\ reboots' = 1
           \/ \E n \in Sends : n \in relayed /\ Kept(n) /\ reboots' = reboots
<1>1. CASE \E n \in Sends : Post(n) \/ PostLost(n)
  <2>1. PICK n \in Sends : Post(n) \/ PostLost(n)
    BY <1>1
  <2>2. n \in relayed /\ reboots' = reboots
    BY <2>1 DEF Post, PostLost
  <2>3. store' = store \/ Kept(n)
    <3>1. CASE Post(n)
      BY <3>1 DEF Post, Kept
    <3>2. CASE PostLost(n)
      BY <3>2 DEF PostLost, Kept
    <3> QED
      BY <2>1, <3>1, <3>2
  <2> QED
    BY <2>2, <2>3
<1>2. CASE Reboot
  BY <1>2 DEF Reboot
<1>3. CASE Next /\ ~(\E n \in Sends : Post(n) \/ PostLost(n)) /\ ~Reboot
  BY <1>3 DEF Next, ReporterStep, Tick, SetClock, Collect, Report, Sent, Failed, GiveUp,
     Reaped, NotReaped, Close, Closed, RelayReads, SshFails
<1>4. CASE UNCHANGED vars
  BY <1>4 DEF vars
<1> QED
  BY <1>1, <1>2, <1>3, <1>4

-----------------------------------------------------------------------------
(* Types.                                                                  *)

\* The state at the start has its type.
LEMMA InitTypeOK == Init => TypeOK
<1> SUFFICES ASSUME Init PROVE TypeOK
  OBVIOUS
<1>1. Nothing \in Snapshots
  BY DEF Nothing, Snapshots
<1>2. Empty \in [at : 0 .. MaxTime \cup {Never}, stamp : Stamps \cup {Never}, received : 0 .. MaxTime \cup {Never}]
  BY DEF Empty
<1>3. time \in 0 .. MaxTime /\ sets \in 0 .. MaxSets
  BY StateAssumption DEF Init
<1>4. closing \in BOOLEAN /\ closed \in BOOLEAN
  BY DEF Init
<1>5. payload \in [Sends -> Snapshots] /\ ssh \in [Sends -> {"unborn", "live", "ok", "failed"}]
  BY <1>1 DEF Init
<1>6. macOff \in Offsets /\ cloudOff \in Offsets /\ offs \subseteq Offsets /\ {macOff, cloudOff} \subseteq offs
  BY StateAssumption DEF Init
<1>7. /\ store \in [at : 0 .. MaxTime \cup {Never}, stamp : Stamps \cup {Never}, received : 0 .. MaxTime \cup {Never}]
      /\ latest \in Snapshots /\ acked \in Stamps \cup {Never}
      /\ reporter = "idle" /\ process = None
      /\ relayed \subseteq Sends /\ stuck \subseteq Sends /\ reboots \in 0 .. 1
  BY <1>1, <1>2 DEF Init
<1> QED
  BY <1>3, <1>4, <1>5, <1>6, <1>7 DEF TypeOK

\* A step leaves each variable its type.
LEMMA StepTypeOK == TypeOK /\ [Next]_vars => TypeOK'
<1> SUFFICES ASSUME TypeOK, [Next]_vars PROVE TypeOK'
  OBVIOUS
<1> USE DEF None, Sends
<1>1. (store \in [at : 0 .. MaxTime \cup {Never}, stamp : Stamps \cup {Never}, received : 0 .. MaxTime \cup {Never}])'
  <2> Empty \in [at : 0 .. MaxTime \cup {Never}, stamp : Stamps \cup {Never}, received : 0 .. MaxTime \cup {Never}]
    BY DEF Empty
  <2> QED
    BY StoreSteps DEF TypeOK, Kept, Snapshots
<1>2. (latest \in Snapshots)'
  <2>1. CASE Collect
    <3> time + macOff \in Stamps
      BY DEF TypeOK, Stamps
    <3> QED
      BY <2>1 DEF Collect, TypeOK, Snapshots
  <2>2. CASE latest' = latest
    BY <2>2 DEF TypeOK
  <2> QED
    BY <2>1, <2>2 DEF Next, vars, mac, ReporterStep, Tick, SetClock, Report, Sent, Failed, GiveUp,
       Reaped, NotReaped, Close, Closed, RelayReads, SshFails, Post, PostLost, Reboot
<1>3. (time \in 0 .. MaxTime /\ macOff \in Offsets /\ cloudOff \in Offsets /\ sets \in 0 .. MaxSets
       /\ offs \subseteq Offsets /\ {macOff, cloudOff} \subseteq offs)'
  <2>1. CASE Tick
    BY <2>1, StateAssumption DEF Tick, TypeOK
  <2>2. CASE SetClock
    <3>1. sets' \in 0 .. MaxSets
      BY <2>2, StateAssumption DEF SetClock, TypeOK
    <3>2. time' = time /\ macOff' \in Offsets /\ cloudOff' \in Offsets /\ offs' = offs \cup {macOff', cloudOff'}
      BY <2>2 DEF SetClock, TypeOK
    <3>3. time \in 0 .. MaxTime /\ offs \subseteq Offsets
      BY DEF TypeOK
    <3> QED
      BY <3>1, <3>2, <3>3
  <2>3. CASE UNCHANGED clocks
    BY <2>3 DEF clocks, TypeOK
  <2> QED
    BY <2>1, <2>2, <2>3 DEF Next, vars, ReporterStep, Collect, Report, Sent, Failed, GiveUp,
       Reaped, NotReaped, Close, Closed, RelayReads, SshFails, Post, PostLost, Reboot
<1>4. (/\ payload \in [Sends -> Snapshots] /\ ssh \in [Sends -> {"unborn", "live", "ok", "failed"}]
       /\ process \in Sends \cup {None} /\ acked \in Stamps \cup {Never}
       /\ reporter \in {"idle", "sending", "cleaning", "stopped"}
       /\ (reporter \in {"sending", "cleaning"} => process # None)
       /\ (reporter = "stopped" => closing))'
  <2>1. CASE Report
    BY <2>1 DEF Report, TypeOK
  <2>2. CASE Sent
    BY <2>2 DEF Sent, Rest, TypeOK, wire, Snapshots
  <2>3. CASE Failed \/ GiveUp \/ Reaped \/ NotReaped \/ Close \/ Closed
    <3>1. payload' = payload /\ ssh' = ssh /\ acked' = acked
      BY <2>3 DEF Failed, GiveUp, Reaped, NotReaped, Close, Closed, wire
    <3>2. /\ process' \in Sends \cup {None}
          /\ reporter' \in {"idle", "sending", "cleaning", "stopped"}
          /\ (reporter' \in {"sending", "cleaning"} => process' # None)
          /\ (reporter' = "stopped" => closing')
      <4>1. CASE Failed \/ Reaped
        BY <4>1 DEF Failed, Reaped, Rest
      <4>2. CASE GiveUp \/ NotReaped
        BY <4>2 DEF GiveUp, NotReaped, Rest, TypeOK
      <4>3. CASE Close
        BY <4>3 DEF Close, TypeOK
      <4>4. CASE Closed
        BY <4>4 DEF Closed, TypeOK
      <4> QED
        BY <2>3, <4>1, <4>2, <4>3, <4>4
    <3> QED
      BY <3>1, <3>2 DEF TypeOK
  <2>4. CASE \E n \in Sends : RelayReads(n) \/ SshFails(n) \/ Post(n) \/ PostLost(n)
    BY <2>4 DEF RelayReads, SshFails, Post, PostLost, TypeOK, mac
  <2>5. CASE UNCHANGED <<payload, ssh, process, acked, reporter, closing>>
    BY <2>5 DEF TypeOK
  <2> QED
    BY <2>1, <2>2, <2>3, <2>4, <2>5 DEF Next, vars, mac, wire, ReporterStep, Tick, SetClock, Collect, Reboot
<1>5. (/\ closing \in BOOLEAN /\ closed \in BOOLEAN)'
  BY DEF TypeOK, Next, vars, mac, ReporterStep, Tick, SetClock, Collect, Report, Sent, Failed, GiveUp,
     Reaped, NotReaped, Close, Closed, RelayReads, SshFails, Post, PostLost, Reboot
<1>6. (relayed \subseteq Sends)'
  BY DEF TypeOK, Next, vars, wire, ReporterStep, Tick, SetClock, Collect, Report, Sent, Failed, GiveUp,
     Reaped, NotReaped, Close, Closed, RelayReads, SshFails, Post, PostLost, Reboot
<1>7. (stuck \subseteq Sends)'
  <2>1. CASE NotReaped
    <3>1. stuck \subseteq Sends /\ process \in Sends \cup {None} /\ process # None
      BY <2>1 DEF NotReaped, TypeOK
    <3> QED
      BY <2>1, <3>1 DEF NotReaped
  <2>2. CASE stuck' = stuck
    BY <2>2 DEF TypeOK
  <2> QED
    BY <2>1, <2>2 DEF Next, vars, ReporterStep, Tick, SetClock, Collect, Report, Sent, Failed, GiveUp,
       Reaped, Close, Closed, RelayReads, SshFails, Post, PostLost, Reboot
<1>8. (reboots \in 0 .. 1)'
  BY DEF TypeOK, Next, vars, ReporterStep, Tick, SetClock, Collect, Report, Sent, Failed, GiveUp,
     Reaped, NotReaped, Close, Closed, RelayReads, SshFails, Post, PostLost, Reboot
<1> QED
  BY <1>1, <1>2, <1>3, <1>4, <1>5, <1>6, <1>7, <1>8 DEF TypeOK

\* Every variable keeps its type, however far off the clocks are.
THEOREM TypeCorrect == Spec => []TypeOK
BY InitTypeOK, StepTypeOK, PTL DEF Spec

-----------------------------------------------------------------------------
(* What a stamp says.                                                      *)

\* A snapshot was taken by now, and one of the clocks' errors explains its stamp.
Dated(s) == s.at \in 0 .. time /\ \E o \in offs : s.stamp = s.at + o

\* Every snapshot on its way is dated, and the one kept came by now.
DatesAgree ==
    /\ latest = Nothing \/ Dated(latest)
    /\ \A n \in Sends : payload[n] = Nothing \/ Dated(payload[n])
    /\ store = Empty \/ (Dated(store) /\ store.received \in 0 .. time)
    /\ sets = 0 /\ latest # Nothing => latest.stamp = latest.at + macOff

\* Time passes and clocks are set: what is dated stays so.
LEMMA StaysDated ==
    ASSUME TypeOK, [Next]_vars
    PROVE  /\ time <= time' /\ 0 .. time \subseteq 0 .. time' /\ offs \subseteq offs'
           /\ \A s : Dated(s) => s.at \in 0 .. time' /\ \E o \in offs' : s.stamp = s.at + o
<1>1. time <= time' /\ offs \subseteq offs' /\ time' \in Int /\ time \in Int
  BY DEF TypeOK, Next, vars, clocks, ReporterStep, Tick, SetClock, Collect, Report, Sent, Failed, GiveUp,
     Reaped, NotReaped, Close, Closed, RelayReads, SshFails, Post, PostLost, Reboot
<1> QED
  BY <1>1 DEF Dated

\* The dates agree after every step.
LEMMA StepDatesAgree == TypeOK /\ DatesAgree /\ [Next]_vars => DatesAgree'
<1> SUFFICES ASSUME TypeOK, DatesAgree, [Next]_vars PROVE DatesAgree'
  OBVIOUS
<1> DEFINE DatedNext(s) == s.at \in 0 .. time' /\ \E o \in offs' : s.stamp = s.at + o
<1>0. \A s : Dated(s) => DatedNext(s)
  BY StaysDated
<1>1. latest' = Nothing \/ DatedNext(latest')
  <2>1. CASE Collect
    BY <2>1 DEF Collect, clocks, TypeOK
  <2>2. CASE latest' = latest
    BY <2>2, <1>0 DEF DatesAgree
  <2> QED
    BY <2>1, <2>2 DEF Next, vars, mac, ReporterStep, Tick, SetClock, Report, Sent, Failed, GiveUp,
       Reaped, NotReaped, Close, Closed, RelayReads, SshFails, Post, PostLost, Reboot
<1>2. \A n \in Sends : payload'[n] = Nothing \/ DatedNext(payload'[n])
  <2>1. CASE Report
    BY <2>1, <1>0 DEF Report, TypeOK, DatesAgree
  <2>2. CASE payload' = payload
    BY <2>2, <1>0 DEF DatesAgree
  <2> QED
    BY <2>1, <2>2 DEF Next, vars, wire, ReporterStep, Tick, SetClock, Collect, Sent, Failed, GiveUp,
       Reaped, NotReaped, Close, Closed, RelayReads, SshFails, Post, PostLost, Reboot
<1>3. store' = Empty \/ (DatedNext(store') /\ store'.received \in 0 .. time')
  <2>1. CASE store' = store
    BY <2>1, <1>0, StaysDated DEF DatesAgree
  <2>2. ASSUME NEW n \in Sends, n \in relayed, Kept(n)
        PROVE  DatedNext(store') /\ store'.received \in 0 .. time'
    <3>1. payload[n] # Nothing
      <4>1. store.stamp \in Int /\ store.stamp >= Never
        BY StampsAreLate DEF TypeOK, Never
      <4> QED
        BY <4>1, <2>2 DEF Kept, Newer, Nothing, Never
    <3>2. DatedNext(payload[n])
      BY <3>1, <1>0 DEF DatesAgree
    <3>3. store'.at = payload[n].at /\ store'.stamp = payload[n].stamp /\ store'.received = time
      BY <2>2 DEF Kept
    <3>4. time \in 0 .. time'
      BY StaysDated DEF TypeOK
    <3> QED
      BY <3>2, <3>3, <3>4
  <2> QED
    BY <2>1, <2>2, StoreSteps
<1>4. sets' = 0 /\ latest' # Nothing => latest'.stamp = latest'.at + macOff'
  BY DEF DatesAgree, TypeOK, Next, vars, mac, clocks, ReporterStep, Tick, SetClock, Collect, Report, Sent, Failed,
     GiveUp, Reaped, NotReaped, Close, Closed, RelayReads, SshFails, Post, PostLost, Reboot
<1> QED
  BY <1>1, <1>2, <1>3, <1>4 DEF DatesAgree, Dated

\* What is shown as fresh is recent (is_fresh, latest_fresh, _validate_report_time,
\* is_stale).
THEOREM FreshTheorem == Spec => []FreshIsRecent
<1>1. Init => DatesAgree
  BY DEF Init, DatesAgree
<1>2. TypeOK /\ DatesAgree => FreshIsRecent
  <2> SUFFICES ASSUME TypeOK, DatesAgree PROVE FreshIsRecent
    OBVIOUS
  <2>1. ASSUME Fresh, Steady PROVE time - store.at < Ttl + Skew
    <3>1. PICK o \in offs : store.stamp = store.at + o
      BY <2>1 DEF Fresh, DatesAgree, Dated
    <3>2. store.at \in Int
      BY <2>1 DEF Fresh, DatesAgree, Dated
    <3>3. /\ o \in Int /\ cloudOff \in Int /\ o - cloudOff <= Skew /\ time \in Int
          /\ Ttl \in Int /\ Skew \in Int
      BY <2>1, StateAssumption DEF Steady, TypeOK
    <3> QED
      BY <3>1, <3>2, <3>3, <2>1 DEF Fresh, CloudNow
  <2>2. Fresh => time - store.received < Ttl
    BY DEF Fresh
  <2>3. ASSUME FreshHere, sets = 0 PROVE time - latest.at < LocalStale
    <3>1. /\ latest.stamp = latest.at + macOff /\ latest.at \in Int /\ macOff \in Int
          /\ time \in Int /\ LocalStale \in Int
      BY <2>3, StateAssumption DEF FreshHere, DatesAgree, Dated, TypeOK
    <3> QED
      BY <3>1, <2>3 DEF FreshHere
  <2> QED
    BY <2>1, <2>2, <2>3 DEF FreshIsRecent
<1> QED
  BY <1>1, <1>2, TypeCorrect, StepDatesAgree, PTL DEF Spec

-----------------------------------------------------------------------------
(* What the reporter knows.                                                *)

\* What the cloud acknowledged it has, or something newer, until it starts again.
AcksKnown ==
    reboots = 0 => /\ acked # Never => store.stamp >= acked
                   /\ \A n \in Sends : ssh[n] = "ok" => store.stamp >= payload[n].stamp

\* The process that may still run is the one in hand, and the reporter deals
\* with it; only its end stops the loop, and only then does aclose return.
InHand ==
    /\ \A n \in Live \ stuck : process = n /\ reporter \in {"sending", "cleaning"}
    /\ closed => reporter = "stopped"

\* An acknowledgement speaks of what the store holds.
LEMMA StepAcksKnown == TypeOK /\ AcksKnown /\ [Next]_vars => AcksKnown'
<1> SUFFICES ASSUME TypeOK, AcksKnown, [Next]_vars, reboots' = 0 PROVE AcksKnown'
  BY DEF AcksKnown
<1> USE DEF None, Sends
<1>1. reboots = 0
  BY DEF TypeOK, Next, vars, ReporterStep, Tick, SetClock, Collect, Report, Sent, Failed, GiveUp,
     Reaped, NotReaped, Close, Closed, RelayReads, SshFails, Post, PostLost, Reboot
<1>2. store.stamp \in Int /\ store'.stamp \in Int /\ store'.stamp >= store.stamp
  <2>1. store.stamp \in Int
    BY StampsAreLate DEF TypeOK, Never
  <2>2. ASSUME NEW n \in Sends, Kept(n) PROVE store'.stamp \in Int /\ store'.stamp >= store.stamp
    <3>1. payload[n].stamp \in Int
      BY StampsAreLate DEF TypeOK, Snapshots, Never
    <3> QED
      BY <2>1, <2>2, <3>1 DEF Kept, Newer
  <2> QED
    BY <2>1, <2>2, StoreSteps
<1>3. \A n \in Sends : payload[n].stamp \in Int
  BY StampsAreLate DEF TypeOK, Snapshots, Never
<1>4. acked' # Never => store'.stamp >= acked'
  <2>1. CASE Sent
    <3>1. process \in Sends /\ ssh[process] = "ok" /\ acked' = payload[process].stamp /\ store' = store
      BY <2>1 DEF Sent, TypeOK
    <3> QED
      BY <3>1, <1>1 DEF AcksKnown
  <2>2. CASE acked' = acked
    <3> acked \in Int
      BY StampsAreLate DEF TypeOK, Never
    <3> QED
      BY <2>2, <1>1, <1>2 DEF AcksKnown
  <2> QED
    BY <2>1, <2>2 DEF Next, vars, mac, ReporterStep, Tick, SetClock, Collect, Report, Failed, GiveUp,
       Reaped, NotReaped, Close, Closed, RelayReads, SshFails, Post, PostLost, Reboot
<1>5. ASSUME NEW n \in Sends, ssh'[n] = "ok" PROVE store'.stamp >= payload'[n].stamp
  <2>1. CASE ssh[n] = "ok" /\ payload'[n] = payload[n]
    BY <2>1, <1>1, <1>2, <1>3 DEF AcksKnown
  <2>2. CASE Post(n) /\ TimeValid(payload[n]) /\ Newer(payload[n])
    BY <2>2, <1>3 DEF Post
  <2>3. CASE Report
    <3> ssh[n] = "ok" /\ payload'[n] = payload[n]
      BY <2>3, <1>5 DEF Report, TypeOK
    <3> QED
      BY <2>1
  <2>4. CASE \E m \in Sends : RelayReads(m) \/ SshFails(m) \/ PostLost(m)
    <3> ssh[n] = "ok" /\ payload'[n] = payload[n]
      BY <2>4, <1>5 DEF RelayReads, SshFails, PostLost, TypeOK
    <3> QED
      BY <2>1
  <2>5. ASSUME NEW m \in Sends, Post(m) PROVE store'.stamp >= payload'[n].stamp
    <3>1. CASE ssh[n] = "ok"
      BY <3>1, <2>5, <2>1 DEF Post
    <3>2. CASE ssh[n] # "ok"
      <4>1. m = n /\ Success(TimeValid(payload[n]) /\ Newer(payload[n]))
        BY <3>2, <2>5, <1>5 DEF Post, TypeOK
      <4> QED
        BY <4>1, <2>5, <2>2 DEF Success
    <3> QED
      BY <3>1, <3>2
  <2>6. CASE UNCHANGED <<ssh, payload>>
    BY <2>6, <2>1, <1>5
  <2> QED
    BY <2>3, <2>4, <2>5, <2>6 DEF Next, vars, wire, ReporterStep, Tick, SetClock, Collect, Sent, Failed, GiveUp,
       Reaped, NotReaped, Close, Closed, Reboot
<1> QED
  BY <1>4, <1>5 DEF AcksKnown

\* The process that may still run stays in hand.
LEMMA StepInHand == TypeOK /\ InHand /\ [Next]_vars => InHand'
<1> SUFFICES ASSUME TypeOK, InHand, [Next]_vars PROVE InHand'
  OBVIOUS
<1> USE DEF None, Sends
<1>1. CASE Report
  <2>1. PICK n \in Sends : ssh' = [ssh EXCEPT ![n] = "live"] /\ process' = n
    BY <1>1 DEF Report
  <2>2. Live \ stuck = {}
    BY <1>1 DEF Report, InHand
  <2>3. Live' \ stuck' \subseteq {n}
    BY <1>1, <2>1, <2>2 DEF Report, Live, TypeOK
  <2>4. reporter' = "sending" /\ ~closed'
    BY <1>1 DEF Report, InHand
  <2> QED
    BY <2>1, <2>3, <2>4 DEF InHand
<1>2. CASE Sent
  <2>1. Live' \ stuck' = {}
    BY <1>2 DEF Sent, wire, InHand, Live
  <2> QED
    BY <1>2, <2>1 DEF Sent, Rest, InHand
<1>3. CASE Failed
  <2>1. Live' \ stuck' = {}
    BY <1>3 DEF Failed, wire, InHand, Live
  <2> QED
    BY <1>3, <2>1 DEF Failed, Rest, InHand
<1>4. CASE Reaped
  <2>1. Live' \ stuck' = {}
    BY <1>4 DEF Reaped, wire, InHand, Live
  <2> QED
    BY <1>4, <2>1 DEF Reaped, Rest, InHand
<1>5. CASE NotReaped
  <2>1. Live' \ stuck' = {}
    BY <1>5 DEF NotReaped, wire, InHand, Live
  <2> QED
    BY <1>5, <2>1 DEF NotReaped, Rest, InHand
<1>6. CASE GiveUp
  BY <1>6 DEF GiveUp, wire, InHand, Live
<1>7. CASE Close
  <2>1. Live' = Live /\ stuck' = stuck /\ process' = process /\ closing' /\ closed' = closed /\ ~closing
    BY <1>7 DEF Close, wire, Live
  <2>2. reporter' = IF reporter = "idle" THEN "stopped" ELSE "cleaning"
    BY <1>7 DEF Close
  <2>3. ~closed
    BY <2>1 DEF InHand, TypeOK
  <2> QED
    BY <2>1, <2>2, <2>3 DEF InHand
<1>8. CASE Closed
  BY <1>8 DEF Closed, wire, InHand, Live
<1>9. CASE \E n \in Sends : RelayReads(n) \/ SshFails(n) \/ Post(n) \/ PostLost(n)
  <2>1. UNCHANGED <<process, reporter, closing, closed, stuck>>
    BY <1>9 DEF RelayReads, SshFails, Post, PostLost, mac
  <2>2. Live' \subseteq Live
    BY <1>9 DEF RelayReads, SshFails, Post, PostLost, Live, TypeOK
  <2> QED
    BY <2>1, <2>2 DEF InHand
<1>10. CASE UNCHANGED <<ssh, process, reporter, closing, closed, stuck>>
  BY <1>10 DEF InHand, Live
<1> QED
  BY <1>1, <1>2, <1>3, <1>4, <1>5, <1>6, <1>7, <1>8, <1>9, <1>10
  DEF Next, vars, mac, wire, ReporterStep, Tick, SetClock, Collect, Reboot

\* What the Mac holds for acknowledged the cloud has, or something newer, however
\* reports are lost, delayed or refused (report_once, relay, put).
THEOREM AcksTheorem == Spec => []AckedIsKnown
<1>1. Init => AcksKnown
  BY DEF Init, AcksKnown
<1>2. AcksKnown => AckedIsKnown
  BY DEF AckedIsKnown, AcksKnown
<1> QED
  BY <1>1, <1>2, TypeCorrect, StepAcksKnown, PTL DEF Spec

\* The reporter loses sight of none of its processes, whatever they do
\* (_send_payload, _cleanup_process, _close_impl).
THEOREM ReporterTheorem == Spec => []ReporterSound
<1>1. Init => InHand
  BY DEF Init, InHand, Live
<1>2. TypeOK /\ InHand => ReporterSound
  <2> SUFFICES ASSUME TypeOK, InHand PROVE ReporterSound
    OBVIOUS
  <2>1. OneProcess
    <3>1. Live \ stuck \subseteq {process}
      BY DEF InHand
    <3>2. IsFiniteSet({process}) /\ Cardinality({process}) = 1
      BY FS_Singleton
    <3>3. Cardinality(Live \ stuck) <= Cardinality({process})
      BY <3>1, <3>2, FS_Subset
    <3> QED
      BY <3>2, <3>3 DEF OneProcess
  <2>2. ClosedIsQuiet
    BY DEF InHand, ClosedIsQuiet
  <2> QED
    BY <2>1, <2>2 DEF ReporterSound
<1> QED
  BY <1>1, <1>2, TypeCorrect, StepInHand, PTL DEF Spec

=============================================================================
