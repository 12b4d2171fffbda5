---------------------------- MODULE ComputerState ----------------------------
(***************************************************************************)
(* The state of the user's Mac as the cloud assistant knows it.  The Mac   *)
(* collects snapshots; its reporter sends the newest one it has not had    *)
(* acknowledged, each through an SSH process of its own; the relay on the  *)
(* cloud host posts it to the API, which keeps the newest per device and   *)
(* shows it for as long as it is fresh.                                    *)
(*                                                                         *)
(* Time is counted in units of a few seconds.  The two hosts' clocks may   *)
(* be wrong and may be set: they start at most one of Offsets apart.  The  *)
(* monotonic clock of the API is the time.                                 *)
(* One device reports, as the endpoint accepts one.                        *)
(***************************************************************************)
EXTENDS Integers, FiniteSets

CONSTANTS
    Ttl,        \* _SNAPSHOT_TTL and _MAX_REPORT_AGE
    LocalStale, \* _LOCAL_STALE_AFTER
    Skew,       \* _MAX_FUTURE_SKEW
    Offsets,    \* how wrong a clock may be
    MaxSets,    \* times a clock is set
    MaxTime,
    MaxSends    \* SSH processes the reporter starts

ASSUME StateAssumption ==
    /\ Ttl \in Nat \ {0} /\ LocalStale \in Nat \ {0} /\ Skew \in Nat /\ MaxSets \in Nat /\ MaxTime \in Nat /\ MaxSends \in Nat
    /\ Offsets \subseteq Int /\ 0 \in Offsets
    /\ \A o \in Offsets : o > -1000

Sends == 1 .. MaxSends
None == 0
Never == -1000    \* earlier than any stamp (see the assumption)
Stamps == {t + o : t \in 0 .. MaxTime, o \in Offsets}

VARIABLES
    time,
    macOff, cloudOff,   \* how far each wall clock is off
    latest,      \* DesktopStateService._latest: when taken, and its stamp
    reporter,    \* idle, sending, cleaning (the process it owns), stopped
    process,     \* StateReporter._process
    acked,       \* _last_collected_at
    closing, closed,
    ssh,         \* each SSH process: unborn, live, ok or failed (exit status)
    payload,     \* the snapshot each carries
    relayed,     \* relays that have read their snapshot and not posted it
    store,       \* RemoteDeviceStateStore: the snapshot, and when it came
    reboots,     \* history: the API lost its store
    stuck,       \* history: processes neither signal ended in time
    sets,        \* how often a clock was set
    offs         \* history: how far off a wall clock has been

mac == <<latest, reporter, process, acked, closing, closed>>
wire == <<ssh, payload, relayed>>
clocks == <<time, macOff, cloudOff, sets, offs>>
vars == <<clocks, mac, wire, store, reboots, stuck>>

Nothing == [at |-> Never, stamp |-> Never]
Empty == [at |-> Never, stamp |-> Never, received |-> Never]

\* The clocks never were further apart than Skew, nor either from where it was.
Steady == \A o, p \in offs : o - p <= Skew

Init ==
    /\ time = 0 /\ macOff \in Offsets /\ cloudOff = 0 /\ sets = 0
    /\ latest = Nothing /\ reporter = "idle" /\ process = None /\ acked = Never
    /\ closing = FALSE /\ closed = FALSE
    /\ ssh = [n \in Sends |-> "unborn"] /\ payload = [n \in Sends |-> Nothing]
    /\ relayed = {} /\ store = Empty
    /\ reboots = 0 /\ stuck = {} /\ offs = {macOff, cloudOff}

-----------------------------------------------------------------------------
(* Time.                                                                   *)

Tick ==
    /\ time < MaxTime /\ time' = time + 1
    /\ UNCHANGED <<macOff, cloudOff, sets, offs, mac, wire, store, reboots, stuck>>

\* A wall clock is set.
SetClock ==
    /\ sets < MaxSets /\ sets' = sets + 1
    /\ \E o \in Offsets : \/ o # macOff /\ macOff' = o /\ cloudOff' = cloudOff
                          \/ o # cloudOff /\ cloudOff' = o /\ macOff' = macOff
    /\ offs' = offs \cup {macOff', cloudOff'}
    /\ UNCHANGED <<time, mac, wire, store, reboots, stuck>>

CloudNow == time + cloudOff

-----------------------------------------------------------------------------
(* The Mac.                                                                *)

\* collect_once
Collect ==
    /\ ~closed /\ latest' = [at |-> time, stamp |-> time + macOff]
    /\ UNCHANGED <<clocks, reporter, process, acked, closing, closed, wire, store, reboots, stuck>>

\* What the desktop's own tool shows as fresh (is_stale); it shows what is stale
\* too, and says so.
FreshHere == latest # Nothing /\ time + macOff - latest.stamp < LocalStale

\* report_once, up to the process: there is a snapshot newer than the
\* acknowledged one.  The process of an earlier report is forgotten.
Report ==
    /\ reporter = "idle" /\ ~closing /\ latest.stamp > acked
    /\ \E n \in Sends :
          /\ ssh[n] = "unborn" /\ \A m \in Sends : ssh[m] = "unborn" => n <= m
          /\ ssh' = [ssh EXCEPT ![n] = "live"] /\ payload' = [payload EXCEPT ![n] = latest]
          /\ process' = n
    /\ reporter' = "sending"
    /\ UNCHANGED <<clocks, latest, acked, closing, closed, relayed, store, reboots, stuck>>

\* Where the loop goes after a report: its sleep, or its end.
Rest == IF closing THEN "stopped" ELSE "idle"

\* Exit status 0: the snapshot is acknowledged.
Sent ==
    /\ reporter = "sending" /\ ssh[process] = "ok"
    /\ acked' = payload[process].stamp /\ process' = None /\ reporter' = Rest
    /\ UNCHANGED <<clocks, latest, closing, closed, wire, store, reboots, stuck>>

Failed ==
    /\ reporter = "sending" /\ ssh[process] = "failed"
    /\ process' = None /\ reporter' = Rest
    /\ UNCHANGED <<clocks, latest, acked, closing, closed, wire, store, reboots, stuck>>

\* Variant: the process is left to end by itself.
AbandonProcess ==
    /\ reporter = "sending" /\ ssh[process] = "live"
    /\ process' = None /\ reporter' = Rest
    /\ UNCHANGED <<clocks, latest, acked, closing, closed, wire, store, reboots, stuck>>
\* wait_for runs out, or the loop is cancelled by aclose: clean up.
GiveUp ==
    /\ reporter = "sending" /\ ssh[process] = "live"
    /\ reporter' = "cleaning"
    /\ UNCHANGED <<clocks, latest, process, acked, closing, closed, wire, store, reboots, stuck>>

\* _shutdown_process: SIGTERM, a bounded wait, SIGKILL, a bounded wait.  The
\* process has ended, by a signal (SshFails) or before.
Reaped ==
    /\ reporter = "cleaning" /\ ssh[process] # "live"
    /\ process' = None /\ reporter' = Rest
    /\ UNCHANGED <<clocks, latest, acked, closing, closed, wire, store, reboots, stuck>>

\* Variant: the waits have no bound.
WaitOn == FALSE /\ UNCHANGED vars
\* Neither wait sees it end: it stays self._process, for aclose to try again.
NotReaped ==
    /\ reporter = "cleaning" /\ ssh[process] = "live"
    /\ stuck' = stuck \cup {process} /\ reporter' = Rest
    /\ UNCHANGED <<clocks, latest, process, acked, closing, closed, wire, store, reboots>>

\* aclose: the loop is cancelled in its sleep, or cleans up first.
Close ==
    /\ ~closing /\ closing' = TRUE
    /\ reporter' = IF reporter = "idle" THEN "stopped" ELSE "cleaning"
    /\ UNCHANGED <<clocks, latest, process, acked, closed, wire, store, reboots, stuck>>

\* _close_impl, its end: a process left over is shut down once more.
Closed ==
    /\ closing /\ ~closed /\ reporter = "stopped" /\ closed' = TRUE
    /\ process' = IF process # None /\ ssh[process] # "live" THEN None ELSE process
    /\ UNCHANGED <<clocks, latest, reporter, acked, closing, wire, store, reboots, stuck>>

-----------------------------------------------------------------------------
(* SSH and the relay.  What the relay has read it posts, whatever becomes   *)
(* of the process that brought it.                                         *)

RelayReads(n) ==
    /\ ssh[n] = "live" /\ n \notin relayed /\ relayed' = relayed \cup {n}
    /\ UNCHANGED <<clocks, mac, ssh, payload, store, reboots, stuck>>

\* It fails, or a signal ends it.
SshFails(n) ==
    /\ ssh[n] = "live" /\ ssh' = [ssh EXCEPT ![n] = "failed"]
    /\ UNCHANGED <<clocks, mac, payload, relayed, store, reboots, stuck>>

\* _validate_report_time
TimeValid(s) == CloudNow - Ttl < s.stamp /\ s.stamp <= CloudNow + Skew
\* Variant: the last to come is kept.
Latest(s) == TRUE
\* RemoteDeviceStateStore.put, its test
Newer(s) == s.stamp > store.stamp

\* relay: its exit status
Success(accepted) == accepted

\* The relay posts, and its exit status becomes that of the process.
Post(n) ==
    /\ n \in relayed /\ relayed' = relayed \ {n}
    /\ LET s == payload[n]
           accepted == TimeValid(s) /\ Newer(s)
       IN /\ store' = IF accepted THEN [at |-> s.at, stamp |-> s.stamp, received |-> time] ELSE store
          /\ ssh' = IF ssh[n] = "live"
                    THEN [ssh EXCEPT ![n] = IF Success(accepted) THEN "ok" ELSE "failed"] ELSE ssh
    /\ UNCHANGED <<clocks, mac, payload, reboots, stuck>>

\* The answer, or the post itself, is lost.
PostLost(n) ==
    /\ n \in relayed /\ relayed' = relayed \ {n}
    /\ LET s == payload[n] IN
       store' \in IF TimeValid(s) /\ Newer(s)
                  THEN {store, [at |-> s.at, stamp |-> s.stamp, received |-> time]} ELSE {store}
    /\ ssh' = IF ssh[n] = "live" THEN [ssh EXCEPT ![n] = "failed"] ELSE ssh
    /\ UNCHANGED <<clocks, mac, payload, reboots, stuck>>

\* The API starts again, with no snapshot.
Reboot ==
    /\ reboots = 0 /\ reboots' = 1 /\ store' = Empty
    /\ UNCHANGED <<clocks, mac, wire, stuck>>

\* Variant: by the wall clock alone.
FreshByClock == store # Empty /\ CloudNow < store.stamp + Ttl
\* latest_fresh
Fresh == store # Empty /\ CloudNow < store.stamp + Ttl /\ time - store.received < Ttl

-----------------------------------------------------------------------------
ReporterStep == Sent \/ Failed \/ GiveUp \/ Reaped \/ NotReaped
Next ==
    \/ Tick \/ SetClock \/ Collect \/ Report \/ ReporterStep \/ Close \/ Closed \/ Reboot
    \/ \E n \in Sends : RelayReads(n) \/ SshFails(n) \/ Post(n) \/ PostLost(n)

(* The reporter's waits are bounded and its loop runs.  Nothing is assumed *)
(* of the process, the network or the relay.                               *)
Fairness == WF_vars(ReporterStep) /\ WF_vars(Closed)

Spec == Init /\ [][Next]_vars /\ Fairness

-----------------------------------------------------------------------------
(* Properties.                                                             *)

Snapshots == [at : 0 .. MaxTime \cup {Never}, stamp : Stamps \cup {Never}]
TypeOK ==
    /\ time \in 0 .. MaxTime /\ macOff \in Offsets /\ cloudOff \in Offsets
    /\ latest \in Snapshots /\ payload \in [Sends -> Snapshots]
    /\ offs \subseteq Offsets /\ {macOff, cloudOff} \subseteq offs
    /\ store \in [at : 0 .. MaxTime \cup {Never}, stamp : Stamps \cup {Never}, received : 0 .. MaxTime \cup {Never}]
    /\ reporter \in {"idle", "sending", "cleaning", "stopped"}
    /\ process \in Sends \cup {None} /\ acked \in Stamps \cup {Never}
    /\ reporter \in {"sending", "cleaning"} => process # None
    /\ reporter = "stopped" => closing
    /\ closing \in BOOLEAN /\ closed \in BOOLEAN /\ sets \in 0 .. MaxSets
    /\ ssh \in [Sends -> {"unborn", "live", "ok", "failed"}]
    /\ relayed \subseteq Sends /\ stuck \subseteq Sends /\ reboots \in 0 .. 1

Live == {n \in Sends : ssh[n] = "live"}

\* What is shown as fresh was taken less than its time to live ago, give or take
\* the skew that is allowed, as long as the clocks keep to that; and, whatever
\* the clocks do, it came less than that long ago (is_fresh, latest_fresh,
\* _validate_report_time).  What the desktop calls fresh is, unless a clock was
\* set since (is_stale).
FreshIsRecent ==
    /\ Fresh => /\ Steady => time - store.at < Ttl + Skew
                /\ time - store.received < Ttl
    /\ FreshHere /\ sets = 0 => time - latest.at < LocalStale

\* What the Mac holds for acknowledged the cloud has, or something newer, unless
\* it started again since: a report that was refused is not counted as sent, and
\* one that was given up and arrives after later ones does not replace them
\* (report_once, relay, put).
AckedIsKnown == acked # Never /\ reboots = 0 => store.stamp >= acked

\* One SSH process at a time, but for those no signal ended: the one before is
\* shut down when its report is given up (_send_payload, _cleanup_process).
OneProcess == Cardinality(Live \ stuck) <= 1

\* When aclose returns, no process of the reporter is left, but for those no
\* signal ended (_close_impl).
ClosedIsQuiet == closed => Live \subseteq stuck

\* The reporter loses sight of none of its processes.
ReporterSound == TypeOK /\ OneProcess /\ ClosedIsQuiet

\* aclose returns, whatever the process does (_bounded_wait).
CloseEnds == closing ~> closed
=============================================================================
