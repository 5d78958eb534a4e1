------------------------------ MODULE Metrics ------------------------------
(***************************************************************************)
(* The metrics recorder: metrics/metrics.go, health.go, rebootEvents of     *)
(* events.go, and the collector of sysinfo/sysinfo.go it samples with.      *)
(*                                                                         *)
(* Time is in seconds, the resolution of the tables' key.  Of a sample's    *)
(* thirty columns the model keeps one of each kind: a level (cpu), a rate   *)
(* taken from a cumulative counter (rx), the fullest filesystem (disk), the *)
(* uptime and the steal the verdict averages.  A rate and a mean are what   *)
(* round1 makes of them, a whole number of tenths.                          *)
(***************************************************************************)
EXTENDS Integers, Sequences, FiniteSets
LOCAL INSTANCE FiniteSetsExt

CONSTANTS
    Loads,          \* what the host may be doing: [cpu, steal, iowait, blocked, load5, cores,
                    \* mounts, memTotal, memAvail, swapTotal, swap, psi, supported, timeWait, drops]
    Mounts,         \* the filesystems
    Unread,         \* which readings may fail at once: sets of "uptime", "net", "mounts"
    IntervalAsked, RetentionAsked,      \* JD_METRICS_INTERVAL, JD_METRICS_RETENTION
    MinInterval, MaxInterval, DefaultInterval, Hour,
    MaxClock, MaxTraffic, MaxReboots    \* bounds

ASSUME MetricsAssumption ==
    /\ {IntervalAsked, RetentionAsked, MaxClock, MaxTraffic, MaxReboots} \subseteq Nat
    /\ {MinInterval, MaxInterval, DefaultInterval, Hour} \subseteq Nat \ {0}
    /\ MinInterval <= MaxInterval
    /\ Unread \subseteq SUBSET {"uptime", "net", "mounts"}

(* New: what is out of the band is clamped; no retention is no recording.   *)
clamp(v, lo, hi) == IF v < lo THEN lo ELSE IF v > hi THEN hi ELSE v
Interval == clamp(IF IntervalAsked <= 0 THEN DefaultInterval ELSE IntervalAsked, MinInterval, MaxInterval)
MinRetention == Hour
Retention == IF RetentionAsked > 0 /\ RetentionAsked < MinRetention THEN MinRetention ELSE RetentionAsked
Enabled == Retention > 0
pruneEvery == Hour

VARIABLES
    clock, boots,       \* the clock and the moments the host started
    nic, boxNet,        \* cumulative byte counters of the host and a container
    carried,            \* what they really carried, never reset
    level,              \* the present load, and how full each filesystem is
    samples, mountSamples, boxSamples,   \* the three tables, keyed by second
    collector,          \* Collector: lastNet, lastAt
    rec                 \* Recorder: its loop, its context, its caller

hostVars == <<clock, boots, nic, boxNet, carried, level>>
storeVars == <<samples, mountSamples, boxSamples>>
metricVars == <<clock, boots, nic, boxNet, carried, level,
                samples, mountSamples, boxSamples, collector, rec>>

NewCollector == [read |-> FALSE, bytes |-> 0, at |-> 0, carried |-> 0]
Unstarted == [loop |-> "none", cancelled |-> FALSE, caller |-> "down", snap |-> <<>>,
              lastPrune |-> 0, lastTick |-> 0]

MetricsInit ==
    /\ clock = 1 /\ boots = {0}
    /\ nic = 0 /\ boxNet = 0 /\ carried = 0
    /\ level \in Loads
    /\ samples = <<>> /\ mountSamples = <<>> /\ boxSamples = <<>>
    /\ collector = NewCollector
    /\ rec = Unstarted

Booted == CHOOSE b \in boots : \A c \in boots : c <= b

-----------------------------------------------------------------------------
(* The host goes on by itself.                                             *)

TimePasses ==
    /\ clock < MaxClock
    /\ clock' = clock + 1
    /\ level' \in Loads
    /\ \E n \in 0..MaxTraffic :
         /\ nic' = nic + n /\ carried' = carried + n
         /\ boxNet' = boxNet + n
    /\ UNCHANGED <<boots, storeVars, collector, rec>>

(* An interface is reset, or the container is made anew under its name.     *)
CounterRestarts ==
    /\ \/ nic > 0 /\ nic' = 0 /\ UNCHANGED boxNet
       \/ boxNet > 0 /\ boxNet' = 0 /\ UNCHANGED nic
    /\ UNCHANGED <<clock, boots, carried, level, storeVars, collector, rec>>

Reboots ==
    /\ Cardinality(boots) <= MaxReboots /\ clock \notin boots
    /\ boots' = boots \cup {clock}
    /\ nic' = 0 /\ boxNet' = 0
    /\ collector' = NewCollector /\ rec' = Unstarted
    /\ UNCHANGED <<clock, carried, level, storeVars>>

-----------------------------------------------------------------------------
(* The collector.                                                          *)

(* sum / n to one decimal, half away from zero; of tenths it is round2.     *)
round1(sum, n) == (20 * sum + n) \div (2 * n)

(* A counter below its last reading restarted: no rate can be taken. *)
rate_Unguarded(cur, prev, elapsed) ==
    IF elapsed <= 0 THEN 0 ELSE round1(IF cur < prev THEN prev - cur ELSE cur - prev, elapsed)
rate(cur, prev, elapsed) ==
    IF cur < prev \/ elapsed <= 0 THEN 0 ELSE round1(cur - prev, elapsed)

(* The time since the last reading of anything; none before the first.      *)
elapsed == IF collector.at = 0 \/ clock <= collector.at THEN 0 ELSE clock - collector.at

(* A reading that fails leaves its part of the snapshot empty.  real is what *)
(* was carried since the counter was last read, over the same time.         *)
Collect(failed) ==
    [ts |-> clock,
     uptime |-> IF "uptime" \in failed THEN 0 ELSE clock - Booted,
     now |-> IF "mounts" \in failed THEN [level EXCEPT !.mounts = <<>>] ELSE level,
     rx |-> IF "net" \in failed \/ ~collector.read THEN 0 ELSE rate(nic, collector.bytes, elapsed),
     real |-> IF elapsed = 0 THEN 0 ELSE round1(carried - collector.carried, elapsed)]

(* network remembers the counters it could read, Collect the moment of the  *)
(* reading whatever failed in it.                                           *)
network(failed) ==
    IF "net" \in failed THEN [collector EXCEPT !.at = clock]
    ELSE [read |-> TRUE, bytes |-> nic, at |-> clock, carried |-> carried]

(* One number per series: the fullest filesystem stands for all of them.    *)
Reduced(snap, disk) ==
    [cpu |-> snap.now.cpu, steal |-> snap.now.steal, uptime |-> snap.uptime,
     rx |-> snap.rx, real |-> snap.real, disk |-> disk]
Fills(snap) == {snap.now.mounts[m].used : m \in DOMAIN snap.now.mounts}
Reduce_Emptiest(snap) == Reduced(snap, IF Fills(snap) = {} THEN 0 ELSE Min(Fills(snap)))
Reduce(snap) == Reduced(snap, Max({0} \cup Fills(snap)))

-----------------------------------------------------------------------------
(* The recorder's loop.                                                    *)

(* INSERT ... ON CONFLICT(ts) DO UPDATE *)
Upserted(rows, ts, row) == [t \in DOMAIN rows \cup {ts} |-> IF t = ts THEN row ELSE rows[t]]
Kept(rows) == [t \in {u \in DOMAIN rows : u >= clock - Retention} |-> rows[t]]

(* The three deletes one after another: one that fails ends the rest, and a *)
(* cancelled context fails them all.                                        *)
Prunes ==
    \E done \in 0..3 :
      /\ rec.cancelled => done = 0
      /\ samples' = IF done >= 1 THEN Kept(samples) ELSE samples
      /\ boxSamples' = IF done >= 2 THEN Kept(boxSamples) ELSE boxSamples
      /\ mountSamples' = IF done >= 3 THEN Kept(mountSamples) ELSE mountSamples

(* Start primes the collector, so that the first sample carries real rates, *)
(* and prunes; it starts the loop whether or not that worked, and returns   *)
(* at once where nothing is to be recorded.                                 *)
Start ==
    /\ rec.caller = "down"
    /\ IF Enabled
       THEN /\ \E failed \in Unread : collector' = network(failed)
            /\ Prunes
            /\ rec' = [Unstarted EXCEPT !.loop = "wait", !.caller = "up",
                                        !.lastPrune = clock, !.lastTick = clock]
       ELSE rec' = [rec EXCEPT !.caller = "up"] /\ UNCHANGED <<collector, storeVars>>
    /\ UNCHANGED hostVars

(* The ticker has fired: the host is sampled.  Ticks nobody took are        *)
(* dropped.  With a tick and the cancellation both waiting, select takes    *)
(* either.                                                                  *)
LatestTick == rec.lastTick + ((clock - rec.lastTick) \div Interval) * Interval
loop ==
    /\ rec.loop = "wait" /\ LatestTick > rec.lastTick
    /\ \E failed \in Unread :
         /\ rec' = [rec EXCEPT !.loop = "record", !.snap = Collect(failed), !.lastTick = LatestTick]
         /\ collector' = network(failed)
    /\ UNCHANGED <<hostVars, storeVars>>

(* sample: the host's row first; without it the other tables get none.  A   *)
(* write under a cancelled context fails; others may.                       *)
sample ==
    /\ rec.loop = "record"
    /\ \/ /\ ~rec.cancelled
          /\ samples' = Upserted(samples, rec.snap.ts, Reduce(rec.snap))
          /\ rec' = [rec EXCEPT !.loop = "mounts"]
       \/ samples' = samples /\ rec' = [rec EXCEPT !.loop = "prune", !.snap = <<>>]
    /\ UNCHANGED <<hostVars, mountSamples, boxSamples, collector>>

(* One transaction for the rows of every filesystem there is.               *)
recordMounts ==
    /\ rec.loop = "mounts"
    /\ \/ /\ ~rec.cancelled /\ rec.snap.now.mounts # <<>>
          /\ mountSamples' = Upserted(mountSamples, rec.snap.ts, rec.snap.now.mounts)
       \/ mountSamples' = mountSamples
    /\ rec' = [rec EXCEPT !.loop = "boxes"]
    /\ UNCHANGED <<hostVars, samples, boxSamples, collector>>

(* The container's cumulative counter is stored at the host sample's second; *)
(* a host without Docker stores none.                                       *)
recordContainers ==
    /\ rec.loop = "boxes"
    /\ \/ /\ ~rec.cancelled
          /\ boxSamples' = Upserted(boxSamples, rec.snap.ts,
                                    [net |-> boxNet, carried |-> carried, cpu |-> level.cpu])
       \/ boxSamples' = boxSamples
    /\ rec' = [rec EXCEPT !.loop = "prune", !.snap = <<>>]
    /\ UNCHANGED <<hostVars, samples, mountSamples, collector>>

(* The loop prunes once an hour; it has counted from that moment even if    *)
(* the deletes fail.                                                        *)
loopPrunes ==
    /\ rec.loop = "prune"
    /\ IF clock - rec.lastPrune < pruneEvery
       THEN UNCHANGED storeVars /\ rec' = [rec EXCEPT !.loop = "wait"]
       ELSE Prunes /\ rec' = [rec EXCEPT !.loop = "wait", !.lastPrune = clock]
    /\ UNCHANGED <<hostVars, collector>>

loopEnds ==
    /\ rec.loop = "wait" /\ rec.cancelled
    /\ rec' = [rec EXCEPT !.loop = "left"]
    /\ UNCHANGED <<hostVars, storeVars, collector>>

(* The process is told to end: the context Start was given is cancelled     *)
(* before Shutdown comes to the recorder.                                   *)
Signalled ==
    /\ rec.caller = "up" /\ ~rec.cancelled
    /\ rec' = [rec EXCEPT !.cancelled = TRUE]
    /\ UNCHANGED <<hostVars, storeVars, collector>>

(* Stop cancels and waits for the loop to leave; the store is closed after it. *)
Stop ==
    /\ rec.caller = "up"
    /\ rec' = [rec EXCEPT !.cancelled = TRUE, !.caller = "stopping"]
    /\ UNCHANGED <<hostVars, storeVars, collector>>

LoopLeft_NotAwaited == TRUE
LoopLeft == rec.loop \in {"none", "left"}
StopReturns ==
    /\ rec.caller = "stopping" /\ LoopLeft
    /\ rec' = [rec EXCEPT !.caller = "closed"]
    /\ UNCHANGED <<hostVars, storeVars, collector>>

(* The service is started again on the same host.                           *)
ServiceRestarts ==
    /\ rec.caller = "closed" /\ rec.loop \in {"none", "left"} /\ clock < MaxClock
    /\ collector' = NewCollector /\ rec' = Unstarted
    /\ UNCHANGED <<hostVars, storeVars>>

MetricsNext ==
    \/ TimePasses \/ CounterRestarts \/ Reboots
    \/ Start \/ loop \/ sample \/ recordMounts \/ recordContainers \/ loopPrunes \/ loopEnds
    \/ Signalled \/ Stop \/ StopReturns \/ ServiceRestarts

MetricsSpec == MetricsInit /\ [][MetricsNext]_metricVars

-----------------------------------------------------------------------------
(* What is read back.                                                      *)

(* A bucket is never finer than the samples, and a whole number of seconds. *)
bucketFor(span, points) ==
    IF span <= 0 THEN Interval
    ELSE Max({Interval, (span + points - 1) \div points})

InWindow(rows, from, to) == {t \in DOMAIN rows : t >= from /\ t <= to}
Of(rows, w, b) == {t \in InWindow(rows, w.from, w.to) : (t \div w.step) * w.step = b}
Buckets(rows, w) == {(t \div w.step) * w.step : t \in InWindow(rows, w.from, w.to)}

(* The frame of a series: its ends in order, its step and how far back the  *)
(* record goes (0: nothing is recorded).                                    *)
window(rows, from, to, points) ==
    LET lo == Min({from, to})
        hi == Max({from, to})
    IN  [from |-> lo, to |-> hi, step |-> bucketFor(hi - lo, Max({1, points})),
         interval |-> Interval, retention |-> Retention,
         earliest |-> IF rows = <<>> THEN 0 ELSE Min(DOMAIN rows)]

(* Range: every bucket with its count, its rounded means and its peak.      *)
Mean(f(_), rows) == round1(MapThenSumSet(f, rows), Cardinality(rows))
Point(b, rows, peak) ==
    [ts |-> b, n |-> Cardinality(rows), peak |-> peak,
     cpu |-> Mean(LAMBDA t : samples[t].cpu, rows),
     steal |-> Mean(LAMBDA t : samples[t].steal, rows),
     disk |-> Mean(LAMBDA t : samples[t].disk, rows)]
HistoryRange_PeakOfMeans(from, to, points) ==
    LET w == window(samples, from, to, points)
        At(b) == Of(samples, w, b)
    IN  [w |-> w, points |-> {Point(b, At(b), Mean(LAMBDA t : samples[t].cpu, At(b)) \div 10)
                                : b \in Buckets(samples, w)}]
HistoryRange(from, to, points) ==
    LET w == window(samples, from, to, points)
        At(b) == Of(samples, w, b)
    IN  [w |-> w, points |-> {Point(b, At(b), Max({samples[t].cpu : t \in At(b)}))
                                : b \in Buckets(samples, w)}]

(* A line per filesystem that has rows in the window.                       *)
StorageRange(from, to, points) ==
    LET w == window(mountSamples, from, to, points)
        With(b, m) == {t \in Of(mountSamples, w, b) : m \in DOMAIN mountSamples[t]}
        Line(m) == {[ts |-> b, n |-> Cardinality(With(b, m)),
                     used |-> Mean(LAMBDA t : mountSamples[t][m].used, With(b, m)),
                     peak |-> Max({mountSamples[t][m].used : t \in With(b, m)}),
                     inodes |-> Max({mountSamples[t][m].inodes : t \in With(b, m)})]
                      : b \in {c \in Buckets(mountSamples, w) : With(c, m) # {}}}
    IN  [w |-> w, mounts |-> [m \in {k \in Mounts : Line(k) # {}} |-> Line(m)]]

(* The growth of a container's counter across a bucket, over its width; a   *)
(* negative growth, a counter that restarted, would be none.                *)
spanRate(span, seconds) == IF span <= 0 \/ seconds <= 0 THEN 0 ELSE round1(span, seconds)
ContainerRange(from, to, points) ==
    LET w == window(boxSamples, from, to, points)
        nets(b) == {boxSamples[t].net : t \in Of(boxSamples, w, b)}
        real(b) == {boxSamples[t].carried : t \in Of(boxSamples, w, b)}
    IN  [w |-> w,
         points |-> {[ts |-> b, net |-> spanRate(Max(nets(b)) - Min(nets(b)), w.step),
                      real |-> spanRate(Max(real(b)) - Min(real(b)), w.step)] : b \in Buckets(boxSamples, w)}]

(* A container's row in the table: a peak per bucket, and their peak.       *)
Sparklines(from, to, points) ==
    LET w == window(boxSamples, from, to, Max({2, points}))
        cpu == [b \in Buckets(boxSamples, w) |-> Max({boxSamples[t].cpu : t \in Of(boxSamples, w, b)})]
    IN  [cpu |-> cpu, peak |-> Max({0} \cup {cpu[b] : b \in DOMAIN cpu})]

(* A sample whose uptime is below its predecessor's: the host was restarted, *)
(* at the sample's second less its uptime. *)
UptimeFell(rows, t) ==
    \E u \in rows : /\ u < t /\ \A v \in rows : v <= u \/ v >= t
                    /\ samples[t].uptime < samples[u].uptime
rebootEvents_AtSample(from, to) ==
    LET rows == {t \in InWindow(samples, from - 2 * Interval, to) : samples[t].uptime > 0}
    IN  {t \in rows : UptimeFell(rows, t) /\ t >= from}
rebootEvents(from, to) ==
    LET rows == {t \in InWindow(samples, from - 2 * Interval, to) : samples[t].uptime > 0}
    IN  {at \in {t - samples[t].uptime : t \in {u \in rows : UptimeFell(rows, u)}} : at >= from /\ at <= to}

(* The verdict: what the present snapshot shows, and the steal averaged     *)
(* over the recorded hour where there is one.                               *)
FoundAt(id, of, l) == {[id |-> id, of |-> of, level |-> l]}
MountFindings(m, mount) ==
    (IF mount.used >= 93 THEN FoundAt("disk", m, "critical")
     ELSE IF mount.used >= 85 THEN FoundAt("disk", m, "warning") ELSE {})
    \cup (IF mount.inodes >= 90 THEN FoundAt("inodes", m, "warning") ELSE {})
storageFindings(now) ==
    UNION {MountFindings(m, now.mounts[m]) : m \in {k \in DOMAIN now.mounts : now.mounts[k].total > 0}}

(* Memory is judged by what is available, not by what is used.              *)
memoryFindings(now) ==
    (IF now.memTotal = 0 THEN {}
     ELSE IF 100 * now.memAvail <= 5 * now.memTotal THEN FoundAt("memory", "", "critical")
     ELSE IF 100 * now.memAvail <= 10 * now.memTotal THEN FoundAt("memory", "", "warning") ELSE {})
    \cup (IF now.swapTotal > 0 /\ now.swap >= 50 THEN FoundAt("swap", "", "warning") ELSE {})

(* The mean of the points' means, in hundredths.                            *)
meanOf(points) == round1(MapThenSumSet(LAMBDA p : p.steal, points), Cardinality(points))
cpuFindings(now, recent) ==
    LET sustained == IF recent = {} THEN 100 * now.steal ELSE meanOf(recent)
        cores == Max({1, now.cores})
    IN  UNION {IF sustained >= 1500 THEN FoundAt("steal", "", "critical")
               ELSE IF sustained >= 500 THEN FoundAt("steal", "", "warning") ELSE {},
               IF now.iowait >= 20 /\ now.blocked > 0 THEN FoundAt("iowait", "", "warning") ELSE {},
               IF now.load5 >= 2 * cores THEN FoundAt("load", "", "warning")
               ELSE IF now.load5 >= cores THEN FoundAt("load", "", "notice") ELSE {}}
pressureFindings(now) ==
    IF ~now.supported THEN {}
    ELSE UNION {IF now.psi[k] >= 30 THEN FoundAt("psi", k, "critical")
                ELSE IF now.psi[k] >= 10 THEN FoundAt("psi", k, "warning") ELSE {} : k \in DOMAIN now.psi}
networkFindings(now) ==
    (IF now.timeWait >= 12000 THEN FoundAt("timewait", "", "notice") ELSE {})
    \cup (IF now.drops > 1000 THEN FoundAt("drops", "", "notice") ELSE {})

levelRank(l) == CASE l = "critical" -> 3 [] l = "warning" -> 2 [] l = "notice" -> 1 [] OTHER -> 0

(* The status is the worst level found.  The hour behind is asked of Range  *)
(* where it is recorded; a reading that fails leaves the verdict without.   *)
Assess(now, asked) ==
    LET recent == IF Enabled /\ asked THEN HistoryRange(clock - Hour, clock, 60).points ELSE {}
        found == UNION {storageFindings(now), memoryFindings(now), cpuFindings(now, recent),
                        pressureFindings(now), networkFindings(now)}
    IN  [findings |-> found, recorded |-> recent # {},
         status |-> IF found = {} THEN "ok"
                    ELSE (CHOOSE f \in found : \A g \in found :
                             levelRank(g.level) <= levelRank(f.level)).level]

-----------------------------------------------------------------------------
(* historyWindow: the windows a request may ask for end after they start.   *)
Windows == {w \in [from : 0..MaxClock, to : 0..MaxClock, points : 2..3] : w.from < w.to}

(* Downsampling loses nothing an operator looks for: in every window every  *)
(* recorded sample is in exactly one bucket, the highest peak drawn is the  *)
(* highest load recorded (Point: "the peaks are what make a downsampled     *)
(* week still worth reading"), no bucket is finer than the samples or spans *)
(* more than its step, and a filesystem's and a container's lines peak      *)
(* where their rows do.                                                     *)
PeaksSurvive ==
  {samples, mountSamples, boxSamples} # {<<>>} =>
    \A w \in Windows :
       LET series == HistoryRange(w.from, w.to, w.points)
           rows == InWindow(samples, w.from, w.to)
           boxes == InWindow(boxSamples, w.from, w.to)
           storage == StorageRange(w.from, w.to, w.points).mounts
       IN  /\ MapThenSumSet(LAMBDA p : p.n, series.points) = Cardinality(rows)
           /\ rows # {} => Max({p.peak : p \in series.points}) = Max({samples[t].cpu : t \in rows})
           /\ \A p \in series.points : p.cpu <= 10 * p.peak
           /\ boxes # {} => Sparklines(w.from, w.to, w.points).peak = Max({boxSamples[t].cpu : t \in boxes})
           /\ \A m \in DOMAIN storage : \A t \in InWindow(mountSamples, w.from, w.to) :
                m \in DOMAIN mountSamples[t] => \E p \in storage[m] : p.peak >= mountSamples[t][m].used

(* A recorded rate never shows more traffic than there was since the        *)
(* counter was last read, whatever was reset, restarted or unreadable in    *)
(* between (rate).                                                          *)
RatesAreReal == \A t \in DOMAIN samples : samples[t].rx <= samples[t].real

(* Every restart the chart marks happened, at that second (rebootEvents).   *)
RebootsAreReal == \A w \in Windows : rebootEvents(w.from, w.to) \subseteq boots

(* The recorder writes nothing once Stop has returned and the store is      *)
(* closed ("so a shutdown does not race a write against the closing         *)
(* database handle").                                                       *)
StopWaits == rec.caller = "closed" => rec.loop \in {"none", "left"}

(* The one figure kept of the filesystems tells of a disk about to fill up  *)
(* whenever the verdict does, and such a host is never called anything but  *)
(* critical, however calm the recorded hour was and whether or not it could *)
(* be read: Reduce keeps the fullest.                                       *)
FullestKept ==
    rec.loop = "record" =>
      \A asked \in BOOLEAN :
        LET verdict == Assess(rec.snap.now, asked)
            full == \E f \in verdict.findings : f.id = "disk" /\ f.level = "critical"
        IN  /\ full => Reduce(rec.snap).disk >= 93 /\ verdict.status = "critical"
            /\ Reduce(rec.snap).disk >= 93 => full

MetricsTypeOK ==
    /\ clock \in Nat /\ boots \subseteq 0..clock /\ nic \in Nat /\ boxNet \in Nat /\ carried \in Nat
    /\ collector \in [read : BOOLEAN, bytes : Nat, at : Nat, carried : 0..carried]
    /\ DOMAIN samples \subseteq Nat
    /\ rec.loop \in {"none", "wait", "record", "mounts", "boxes", "prune", "left"}
    /\ rec.caller \in {"down", "up", "stopping", "closed"}

(* A sample taken says no more traffic than there was, and a running time   *)
(* that began when the host started, unless it could not be read.           *)
SampleReal(ts, s) ==
    /\ s.rx \in Nat /\ s.real \in Nat /\ s.rx <= s.real /\ s.uptime \in Nat
    /\ s.uptime > 0 => ts - s.uptime \in boots

(* What the next rate can show has really been carried since the last one.  *)
CountersKept ==
    /\ \E b \in boots : \A c \in boots : c <= b
    /\ collector.read => nic - collector.bytes <= carried - collector.carried
    /\ rec.loop \in {"record", "mounts", "boxes"} => rec.snap.ts \in Nat /\ SampleReal(rec.snap.ts, rec.snap)
    /\ \A t \in DOMAIN samples : SampleReal(t, samples[t])

(* What is stored is what happened, and only while the store is open.       *)
RecordsReal ==
    MetricsTypeOK /\ CountersKept /\ StopWaits /\ RatesAreReal /\ RebootsAreReal

(* What the charts and the verdict rely on.                                 *)
ChartsTell == FullestKept /\ PeaksSurvive

(* A container's counter that restarted is not drawn as traffic: "reported  *)
(* as zero rather than as a negative throughput" (spanRate).                *)
ContainerRatesAreReal ==
    \A w \in Windows : \A p \in ContainerRange(w.from, w.to, w.points).points : p.net <= p.real

(* Range returns the window "reduced to at most maxPoints buckets".         *)
AtMostMaxPoints ==
    \A w \in Windows : Cardinality(HistoryRange(w.from, w.to, w.points).points) <= w.points
=============================================================================
