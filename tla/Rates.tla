------------------------------- MODULE Rates -------------------------------
(***************************************************************************)
(* The rates that getSystemStats computes from counters: the CPU, the      *)
(* devices of the monitored file systems, and the network interfaces.      *)
(*                                                                         *)
(* The collector collects for the default interval, live requests for      *)
(* intervals derived from their TTLs; all of them run under the mutex of   *)
(* the App, so one collection runs at a time, but it may be given up when  *)
(* its context is done, with some baselines already moved.  Each interval  *)
(* keeps its own baselines.  Those of a disk start from the baseline that  *)
(* all intervals share, those of the CPU from the default interval.        *)
(*                                                                         *)
(* One counter stands for all counters of a device: the code treats them   *)
(* alike.  The rate of a counter is kept as bytes and milliseconds, before *)
(* bytes * 1000 / ms; that product wraps only above 18 PB in one interval, *)
(* which is left out.  The bandwidth over all interfaces, where a vanished *)
(* interface does make it wrap, is computed as the code does.  The rates   *)
(* of extra file systems are fields of fsStats: they stay from answer to   *)
(* answer until they are measured again, for whichever interval.           *)
(* The interfaces known (netInterfaces) are those of the last reading: the *)
(* map is made equal to it at the start of every update.                   *)
(***************************************************************************)
EXTENDS Integers, FiniteSetsExt

CONSTANTS
  Intervals,     \* cache intervals
  Default,       \* the interval of the collector
  Disks,         \* devices that fsStats tracks
  Root,          \* the one of the root file system
  Nics,          \* network interfaces
  NicConfig,     \* the NICS setting, or None
  AutoSkipped,   \* loopback, bridges and the like
  CPU,           \* the counter of the CPU
  MinElapsed,    \* shortest time a disk rate is computed over
  MaxDiskRate,   \* a disk rate above it is taken for an error
  MaxNetRate,    \* a bandwidth above it is taken for an error
  PerSecond,     \* ticks of the clock in a second: 1000
  Wrap,          \* 2^64
  UsageCache,    \* diskUsageCacheDuration
  Machines,      \* the sets of counters a machine may have
  MaxBytes,      \* bound on every counter
  MaxPlugs,      \* bound on the devices that vanish or appear
  MaxTime,       \* bound on the clock
  None           \* no baseline, no setting, no collection under way

Counters == {CPU} \cup Disks \cup Nics

ASSUME IntervalAssumption == Default \in Intervals /\ None \notin Intervals
ASSUME DeviceAssumption ==
  /\ Root \in Disks
  /\ CPU \notin Disks \cup Nics
  /\ Disks \cap Nics = {}
  /\ IsFiniteSet(Nics)
ASSUME MachineAssumption == Machines \subseteq SUBSET Counters
ASSUME LimitAssumption ==
  /\ MinElapsed \in Nat \ {0} /\ MaxDiskRate \in Nat /\ MaxNetRate \in Nat /\ PerSecond \in Nat \ {0}
  /\ Wrap \in Nat \ {0} /\ UsageCache \in Nat /\ MaxBytes \in Nat \ {0} /\ MaxPlugs \in Nat /\ MaxTime \in Nat
VARIABLES
  clock,        \* the time
  counter,      \* counter[c]: what the operating system has counted
  devices,      \* the counters of this machine
  present,      \* those that the operating system reports
  plugs,        \* how many have vanished or appeared
  run,          \* the collection under way: its interval and its stage
  lastCpu,      \* lastCpuTimes
  fs,           \* fsStats: the baseline shared by the intervals, when the usage was read
  fsNames,      \* the devices whose counters are read
  diskPrev,     \* diskPrev[i][d]
  lastUsage,    \* lastDiskUsageUpdate
  netIoStats,   \* netIoStats[i]: total and time of the last reading
  tracker,      \* the current values of netInterfaceDeltaTrackers[i]
  shown,        \* the rates in the answer that is prepared; of extra disks, in fsStats
  bandwidth     \* Stats.Bandwidth in that answer, per second

env == <<clock, counter, devices, present, plugs>>
disk == <<fs, fsNames, diskPrev, lastUsage>>
net == <<netIoStats, tracker>>
answer == <<shown, bandwidth>>
vars == <<env, run, lastCpu, disk, net, answer>>

Time == 0 .. MaxTime
Bytes == 0 .. MaxBytes
Reading == [bytes : Bytes, at : Time]
Rate == [bytes : Nat, ms : Nat]
Zero == [bytes |-> 0, ms |-> 0]

Stages == {"cpu", "usage", "io", "net", "reply"}

ASSUME NoneAssumption ==
  None \notin [bytes : Int, at : Int] \cup Int \cup [interval : Intervals, stage : Stages]

TypeOK ==
  /\ clock \in Time
  /\ counter \in [Counters -> Bytes]
  /\ devices \in Machines
  /\ present \in SUBSET devices
  /\ plugs \in 0 .. MaxPlugs
  /\ run \in [interval : Intervals, stage : Stages] \cup {None}
  /\ lastCpu \in [Intervals -> Reading \cup {None}]
  /\ fs \in [Disks -> [bytes : Bytes, at : Time \cup {None}, checked : Time \cup {None}]]
  /\ fsNames \in SUBSET Disks
  /\ diskPrev \in [Intervals -> [Disks -> Reading \cup {None}]]
  /\ lastUsage \in Time \cup {None}
  /\ netIoStats \in [Intervals -> [bytes : Nat, at : Time \cup {None}]]
  /\ tracker \in [Intervals -> [Nics -> Bytes \cup {None}]]
  /\ shown \in [Counters -> Rate]
  /\ bandwidth \in Nat

\* A total that was never read has the zero time.
NoTotal == [bytes |-> 0, at |-> None]

Now(c) == [bytes |-> counter[c], at |-> clock]

\* initializeDiskIoStats: a device without counters keeps the zero time.
Init ==
  /\ clock = 0
  /\ counter = [c \in Counters |-> 1]
  /\ devices \in Machines
  /\ present = devices
  /\ plugs = 0
  /\ run = None
  /\ \E read \in SUBSET (present \cap {CPU}) :
       lastCpu = [i \in Intervals |-> IF i = Default /\ CPU \in read THEN Now(CPU) ELSE None]
  /\ fs = [d \in Disks |->
             [bytes |-> IF d \in present THEN counter[d] ELSE 0,
              at |-> IF d \in present THEN 0 ELSE None,
              checked |-> None]]
  /\ fsNames = Disks \cap present
  /\ diskPrev = [i \in Intervals |-> [d \in Disks |-> None]]
  /\ lastUsage = None
  /\ netIoStats = [i \in Intervals |-> NoTotal]
  /\ tracker = [i \in Intervals |-> [n \in Nics |-> None]]
  /\ shown = [c \in Counters |-> Zero]
  /\ bandwidth = 0

-----------------------------------------------------------------------------
(* The system that is watched.                                              *)

\* Time passes, idle or with traffic on all devices that are present.
Elapse ==
  /\ clock < MaxTime
  /\ run = None
  /\ clock' = clock + 1
  /\ \/ counter' = [c \in Counters |-> IF c \in present /\ counter[c] < MaxBytes
                                           THEN counter[c] + 1 ELSE counter[c]]
     \/ UNCHANGED counter
  /\ UNCHANGED <<devices, present, plugs, run, lastCpu, disk, net, answer>>

\* A device vanishes, or appears, with its counter as it was or at 0.
Plug ==
  /\ run = None
  /\ plugs < MaxPlugs
  /\ plugs' = plugs + 1
  /\ \E c \in devices \ {CPU} :
       IF c \in present
         THEN present' = present \ {c} /\ UNCHANGED counter
         ELSE /\ present' = present \cup {c}
              /\ counter' \in {counter, [counter EXCEPT ![c] = 0]}
  /\ UNCHANGED <<clock, devices, run, lastCpu, disk, net, answer>>

-----------------------------------------------------------------------------
(* A collection.                                                            *)

Collecting(i, stage) == run = [interval |-> i, stage |-> stage]

\* getSystemStats begins, with the mutex.
Begin(i) ==
  /\ run = None
  /\ run' = [interval |-> i, stage |-> "cpu"]
  /\ UNCHANGED <<env, lastCpu, disk, net, answer>>

\* The disks whose rates stay in fsStats when the answer is gone.
Extra == Disks \ {Root}

\* A new answer starts without rates, except those that fsStats keeps.
Cleared == [c \in Counters |-> IF c \in Extra THEN shown[c] ELSE Zero]

\* The context is done before or within a stage, or the answer is given.
End ==
  /\ run # None
  /\ run' = None
  /\ shown' = Cleared
  /\ bandwidth' = 0
  /\ UNCHANGED <<env, lastCpu, disk, net>>

\* A faulty variant: all intervals measure against the default one.
CpuBaseShared(i) == IF lastCpu[Default] # None THEN lastCpu[Default] ELSE Now(CPU)

\* The baseline of i: its own, that of the default interval, or this reading.
CpuBase(i) ==
  IF lastCpu[i] # None THEN lastCpu[i]
  ELSE IF lastCpu[Default] # None THEN lastCpu[Default]
  ELSE Now(CPU)

\* getCpuMetrics; the CPU counts time too, and without any nothing is computed.
Cpu(i) ==
  /\ Collecting(i, "cpu")
  /\ run' = [interval |-> i, stage |-> "usage"]
  /\ LET base == CpuBase(i)
         seeded == [lastCpu EXCEPT ![Default] = IF lastCpu[i] = None /\ @ = None
                                                  THEN Now(CPU) ELSE @]
     IN \/ UNCHANGED <<lastCpu, shown>>  \* the times cannot be read
        \/ /\ CPU \in present
           /\ clock <= base.at
           /\ lastCpu' = [seeded EXCEPT ![i] = base]
           /\ UNCHANGED shown
        \/ /\ CPU \in present
           /\ clock > base.at
           /\ lastCpu' = [seeded EXCEPT ![i] = Now(CPU)]
           /\ shown' = [shown EXCEPT ![CPU] = [bytes |-> counter[CPU] - base.bytes,
                                               ms |-> clock - base.at]]
  /\ UNCHANGED <<env, disk, net, bandwidth>>

-----------------------------------------------------------------------------
(* Usage of the file systems.                                               *)

\* cacheExtraFs: extra file systems, which may sleep, are left alone for a while.
CacheExtraFs == UsageCache > 0 /\ lastUsage # None /\ clock - lastUsage < UsageCache

\* The file systems whose usage is read.
UsageDue == devices \cap (IF CacheExtraFs THEN {Root} ELSE Disks)

\* A faulty variant: the time is noted when only the root file system was read.
UsageNotedAlways == clock

UsageNoted == IF CacheExtraFs THEN lastUsage ELSE clock

\* A failed reading of the usage of d forgets its counters too, but not their time.
Read(d, failed) ==
  [bytes |-> IF d \in failed THEN 0 ELSE fs[d].bytes, at |-> fs[d].at, checked |-> clock]

\* updateDiskUsage, completed or given up after some of the devices.
Usage(i) ==
  /\ Collecting(i, "usage")
  /\ \E failed \in SUBSET UsageDue, read \in SUBSET UsageDue :
       /\ failed \subseteq read
       /\ fs' = [d \in Disks |-> IF d \in read THEN Read(d, failed) ELSE fs[d]]
       /\ \/ /\ read = UsageDue
             /\ run' = [interval |-> i, stage |-> "io"]
             /\ lastUsage' = UsageNoted
             /\ UNCHANGED answer
          \/ /\ run' = None
             /\ shown' = Cleared
             /\ bandwidth' = 0
             /\ UNCHANGED lastUsage
  /\ UNCHANGED <<env, lastCpu, fsNames, diskPrev, net>>

-----------------------------------------------------------------------------
(* Disk counters.                                                           *)

\* IOCounters reads the devices it is given, or all when it is given none.
IoCounters == present \cap (IF fsNames = {} THEN Disks ELSE fsNames)

\* The snapshot i measures d against: its own, the shared one, or this reading.
DiskBase(i, d) ==
  IF diskPrev[i][d] # None THEN diskPrev[i][d]
  ELSE IF fs[d].at # None THEN [bytes |-> fs[d].bytes, at |-> fs[d].at]
  ELSE Now(d)

DiskMs(i, d) == clock - DiskBase(i, d).at

\* A faulty variant: a counter that went down is not noticed.
NoCounterReset(i, d) == FALSE

CounterReset(i, d) == counter[d] < DiskBase(i, d).bytes
DiskRate(i, d) == [bytes |-> counter[d] - DiskBase(i, d).bytes, ms |-> DiskMs(i, d)]

Measurable(i, d) == d \in IoCounters /\ DiskMs(i, d) >= MinElapsed
Invalid(i, d) ==
  /\ Measurable(i, d)
  /\ ~ CounterReset(i, d)
  /\ DiskRate(i, d).bytes > MaxDiskRate * DiskMs(i, d)
Measured(i, d) == Measurable(i, d) /\ ~ CounterReset(i, d) /\ ~ Invalid(i, d)

\* A device that is not read, was read just before, or has an invalid rate keeps its rate.
RateAfter(i, d) ==
  IF Measured(i, d) THEN DiskRate(i, d)
  ELSE IF Measurable(i, d) /\ CounterReset(i, d) THEN Zero
  ELSE shown[d]

\* initializeDiskIoStats lists the devices anew.
ReadNext(i) == IF \E d \in Disks : Invalid(i, d) THEN IoCounters ELSE fsNames

\* applyDiskIoCounters: a measured device, and one whose counter was reset, moves the
\* shared baseline; one with an invalid rate moves that of all devices that were read,
\* and those become the devices read from now on.
DiskIo(i) ==
  /\ Collecting(i, "io")
  /\ run' = [interval |-> i, stage |-> "net"]
  /\ \/ UNCHANGED <<disk, shown>>  \* the counters cannot be read
     \/ /\ devices \cap Disks # {}
        /\ LET moved == {d \in IoCounters : \/ Measurable(i, d) /\ ~ Invalid(i, d)
                                            \/ \E e \in Disks : Invalid(i, e)}
           IN /\ fs' = [d \in Disks |->
                          IF d \in moved
                            THEN [fs[d] EXCEPT !.bytes = counter[d], !.at = clock]
                            ELSE fs[d]]
              /\ fsNames' = ReadNext(i)
              /\ diskPrev' = [diskPrev EXCEPT ![i] = [d \in Disks |->
                                IF d \in IoCounters THEN Now(d) ELSE diskPrev[i][d]]]
              /\ shown' = [c \in Counters |-> IF c \in Disks THEN RateAfter(i, c) ELSE shown[c]]
              /\ UNCHANGED lastUsage
  /\ UNCHANGED <<env, lastCpu, net, bandwidth>>

-----------------------------------------------------------------------------
(* Network interfaces.                                                      *)

\* skipNetworkInterface: a whitelist is taken as it is, a blacklist after the filter.
Listed(n) == NicConfig # None /\ n \in NicConfig.nics
Skipped(n) ==
  IF NicConfig # None /\ ~ NicConfig.blacklist THEN ~ Listed(n)
                                               ELSE Listed(n) \/ n \in AutoSkipped

Valid == {n \in Nics \cap present : ~ Skipped(n)}
Total == SumFunctionOnSet(counter, Valid)

\* loadAndTickNetBaseline.
NetMs(i) == IF netIoStats[i].at = None THEN 0 ELSE clock - netIoStats[i].at

\* sumAndTrackPerNicDeltas, after tracker.Cycle: what was current is previous.
NicRate(i, n) ==
  IF NetMs(i) = 0 \/ tracker[i][n] = None
    THEN Zero
    ELSE [bytes |-> IF counter[n] >= tracker[i][n] THEN counter[n] - tracker[i][n]
                                                   ELSE counter[n],
          ms |-> NetMs(i)]

\* computeBytesPerSecond: the totals are unsigned, and so is their difference per second.
Bandwidth(i) ==
  IF NetMs(i) = 0 THEN 0
                  ELSE (((Total - netIoStats[i].bytes) * PerSecond) % Wrap) \div NetMs(i)

\* A faulty variant: every bandwidth is taken as it is.
NoInvalidBandwidth(i) == FALSE

InvalidBandwidth(i) == Bandwidth(i) > MaxNetRate

\* applyNetworkTotals: an invalid bandwidth resets the baselines of all intervals.
Net(i) ==
  /\ Collecting(i, "net")
  /\ run' = [interval |-> i, stage |-> "reply"]
  /\ \/ UNCHANGED <<net, answer>>  \* the counters cannot be read
     \/ /\ devices \cap Nics # {}
        /\ shown' = [c \in Counters |-> IF c \in Valid THEN NicRate(i, c) ELSE shown[c]]
        /\ IF InvalidBandwidth(i)
             THEN /\ bandwidth' = 0
                  /\ netIoStats' = [j \in Intervals |-> NoTotal]
                  /\ tracker' = [j \in Intervals |-> [n \in Nics |-> None]]
             ELSE /\ bandwidth' = Bandwidth(i)
                  /\ netIoStats' = [netIoStats EXCEPT ![i] = [bytes |-> Total, at |-> clock]]
                  /\ tracker' = [tracker EXCEPT ![i] = [n \in Nics |->
                                   IF n \in Valid THEN counter[n] ELSE None]]
  /\ UNCHANGED <<env, lastCpu, disk>>

-----------------------------------------------------------------------------
Next ==
  \/ Elapse
  \/ Plug
  \/ End
  \/ \E i \in Intervals : Begin(i) \/ Cpu(i) \/ Usage(i) \/ DiskIo(i) \/ Net(i)

Spec == Init /\ [][Next]_vars

-----------------------------------------------------------------------------
(* Properties.                                                              *)

\* What each interval measures a counter against, over the baselines of the managers.
Mark ==
  [i \in Intervals |-> [c \in Counters |->
     IF c = CPU THEN lastCpu[i]
     ELSE IF c \in Disks THEN diskPrev[i][c]
     ELSE IF tracker[i][c] = None THEN None
     ELSE [bytes |-> tracker[i][c], at |-> netIoStats[i].at]]]

Promise == INSTANCE IntervalRates WITH mark <- Mark, Kept <- Extra

(***************************************************************************)
(* The rates implement IntervalRates: whatever intervals are collected in  *)
(* between, given up or reset, a rate is the traffic of its counter since  *)
(* the last reading for the same interval over the time since it, or 0.    *)
(* The rate of an extra file system may also be the one fsStats had: it is *)
(* kept, with the interval it was measured for, when its device is absent, *)
(* was read just before or has an invalid rate (disk.go:673, 701-705).     *)
(***************************************************************************)
RatesImplementPromise == Promise!Spec

\* What the interfaces have counted since the last reading for i.
Counted(i) ==
  SumFunctionOnSet([n \in Nics |-> IF tracker[i][n] = None
                                     THEN counter[n]
                                     ELSE Promise!Since([bytes |-> tracker[i][n]], counter[n])],
                   Valid)

\* A total that went down by all it was, per second, still exceeds the limit of applyNetworkTotals.
ReadLately(i) == PerSecond * netIoStats[i].bytes + NetMs(i) * (MaxNetRate + 1) <= Wrap

(***************************************************************************)
(* The bandwidth is never more than the interfaces have counted since the  *)
(* last reading for the same interval, one that was not there counting     *)
(* from 0: the unsigned total that wraps when an interface vanishes is     *)
(* seen to be invalid (network.go:244).  With 2^64 and 10^10 this holds    *)
(* while the product of network.go:228 leaves room for the limit: less     *)
(* than 21 days between two readings for the interval, fewer as the totals *)
(* near 18 PB.  Beyond that the code may report a bandwidth that never     *)
(* was, and so does the model.                                             *)
(***************************************************************************)
BandwidthIsTraffic ==
  [][\A i \in Intervals : Collecting(i, "net") /\ ReadLately(i) =>
       bandwidth' * NetMs(i) <= PerSecond * Counted(i)]_vars

(***************************************************************************)
(* When a collection goes on to the disk counters, no usage it will report *)
(* is older than the cache duration, although collections are given up     *)
(* between the file systems (disk.go, updateDiskUsage).  The clock stands  *)
(* still during a collection: the code notes the time after the last file  *)
(* system, so that the first may be older by the length of the loop.       *)
(***************************************************************************)
UsageIsRecent ==
  [][\A i \in Intervals : Collecting(i, "usage") /\ run' # None =>
       \A d \in Disks \cap devices : fs'[d].checked # None
                        /\ (clock - fs'[d].checked < UsageCache \/ fs'[d].checked = clock)]_vars

=============================================================================
