---------------------------- MODULE RatesProofs ----------------------------
(***************************************************************************)
(* The rates implement IntervalRates for every set of intervals and        *)
(* devices and every limit, and the usage a collection reports is recent.  *)
(***************************************************************************)
EXTENDS Rates, FiniteSetTheorems, TLAPS

-----------------------------------------------------------------------------
(* The inductive invariant.                                                 *)

\* A reading of the CPU is not from the future, and the newest is what it shows now.
CpuReadings ==
  \A i \in Intervals : lastCpu[i] # None =>
    /\ lastCpu[i].bytes \in Int /\ lastCpu[i].at \in Int
    /\ lastCpu[i].bytes <= counter[CPU] /\ lastCpu[i].at <= clock
    /\ lastCpu[i].at = clock => lastCpu[i] = Now(CPU)

\* The stages fill the answer in their order; the rates that fsStats keeps are there before.
AnswerSoFar ==
  /\ run = None => \A c \in Counters \ Extra : shown[c] = Zero
  /\ \A i \in Intervals :
       /\ Collecting(i, "cpu") => \A c \in Counters \ Extra : shown[c] = Zero
       /\ Collecting(i, "usage") \/ Collecting(i, "io") =>
            \A c \in {Root} \cup Nics : shown[c] = Zero

\* A tracker that has values has the time they were read at.
TrackedSince ==
  \A i \in Intervals : netIoStats[i].at = None => \A n \in Nics : tracker[i][n] = None

\* When lastDiskUsageUpdate was set, every file system had been read since.
UsageSince ==
  lastUsage # None => /\ lastUsage \in Int /\ lastUsage <= clock
                      /\ \A d \in Disks \cap devices :
                           fs[d].checked \in Int /\ fs[d].checked >= lastUsage

AnyReading == [bytes : Int, at : Int] \cup {None}

\* Types, as far as the proofs need them.
Shape ==
  /\ clock \in Int
  /\ counter \in [Counters -> Int]
  /\ lastCpu \in [Intervals -> AnyReading]
  /\ fs \in [Disks -> [bytes : Int, at : Int \cup {None}, checked : Int \cup {None}]]
  /\ diskPrev \in [Intervals -> [Disks -> AnyReading]]
  /\ tracker \in [Intervals -> [Nics -> Int \cup {None}]]
  /\ netIoStats = [i \in Intervals |-> netIoStats[i]]
  /\ \A i \in Intervals : netIoStats[i].at \in Int \cup {None}
  /\ shown = [c \in Counters |-> shown[c]]

IInv == Shape /\ CpuReadings /\ AnswerSoFar /\ TrackedSince /\ UsageSince

LEMMA DistinctCounters ==
  /\ CPU \in Counters /\ CPU \notin Disks /\ CPU \notin Nics
  /\ \A d \in Disks : d \in Counters /\ d # CPU /\ d \notin Nics
  /\ \A n \in Nics : n \in Counters /\ n # CPU /\ n \notin Disks
  /\ Root \in Disks /\ Default \in Intervals
  /\ CPU \notin Extra /\ Root \notin Extra
  /\ \A n \in Nics : n \notin Extra
  /\ \A d \in Disks : d = Root \/ d \in Extra
PROOF BY DeviceAssumption, IntervalAssumption DEF Counters, Extra

LEMMA NoneIsNoReading ==
  /\ None \notin Int
  /\ \A b, t \in Int : [bytes |-> b, at |-> t] # None
  /\ \A i \in Intervals, g \in Stages : [interval |-> i, stage |-> g] # None
PROOF BY NoneAssumption

THEOREM InitIInv == Init => IInv
PROOF
  <1> SUFFICES ASSUME Init PROVE IInv
    OBVIOUS
  <1> USE DistinctCounters, NoneIsNoReading DEF Init, NoTotal
  <1>1. Shape
    <2>1. counter \in [Counters -> Int] /\ clock \in Int
      OBVIOUS
    <2>2. lastCpu \in [Intervals -> AnyReading]
      BY <2>1 DEF Now, AnyReading
    <2> QED
      BY <2>1, <2>2 DEF Shape, AnyReading, Zero
  <1>2. CpuReadings
    BY DEF CpuReadings, Now
  <1>3. AnswerSoFar
    BY DEF AnswerSoFar, Collecting
  <1>4. TrackedSince /\ UsageSince
    BY DEF TrackedSince, UsageSince
  <1> QED
    BY <1>1, <1>2, <1>3, <1>4 DEF IInv

-----------------------------------------------------------------------------
(* Every step preserves the invariant.                                      *)

LEMMA ElapseIInv == IInv /\ Elapse => IInv'
PROOF
  <1> SUFFICES ASSUME IInv, Elapse PROVE IInv'
    OBVIOUS
  <1> USE DistinctCounters DEF IInv, Elapse, disk, net, answer
  <1>1. /\ clock \in Int /\ clock' = clock + 1
        /\ counter \in [Counters -> Int]
        /\ counter' \in [Counters -> Int]
        /\ counter'[CPU] >= counter[CPU]
    <2>1. clock \in Int /\ clock' = clock + 1 /\ counter \in [Counters -> Int]
      BY DEF Shape
    <2>2. CASE counter' = [c \in Counters |-> IF c \in present /\ counter[c] < MaxBytes
                                                THEN counter[c] + 1 ELSE counter[c]]
      BY <2>1, <2>2
    <2> QED
      BY <2>1, <2>2
  <1>2. Shape'
    BY <1>1 DEF Shape
  <1>3. CpuReadings'
    BY <1>1 DEF CpuReadings, Now
  <1>4. AnswerSoFar' /\ TrackedSince' /\ UsageSince'
    BY <1>1 DEF AnswerSoFar, Collecting, TrackedSince, UsageSince
  <1> QED
    BY <1>2, <1>3, <1>4

LEMMA PlugIInv == IInv /\ Plug => IInv'
PROOF
  <1> SUFFICES ASSUME IInv, Plug PROVE IInv'
    OBVIOUS
  <1> USE DistinctCounters DEF IInv, Plug, disk, net, answer
  <1>1. counter' \in [Counters -> Int] /\ counter'[CPU] = counter[CPU]
    BY DEF Shape
  <1>2. Shape'
    BY <1>1 DEF Shape
  <1>3. CpuReadings'
    BY <1>1 DEF CpuReadings, Now
  <1>4. AnswerSoFar' /\ TrackedSince' /\ UsageSince'
    BY DEF AnswerSoFar, Collecting, TrackedSince, UsageSince
  <1> QED
    BY <1>2, <1>3, <1>4

LEMMA EndIInv == IInv /\ End => IInv'
PROOF
  <1> SUFFICES ASSUME IInv, End PROVE IInv'
    OBVIOUS
  <1> USE DistinctCounters, IntervalAssumption DEF IInv, End, env, disk, net
  <1>1. Shape'
    BY DEF Shape, Cleared
  <1>2. CpuReadings' /\ TrackedSince' /\ UsageSince'
    BY DEF CpuReadings, Now, TrackedSince, UsageSince
  <1>3. \A c \in Counters \ Extra : shown'[c] = Zero
    BY DEF Cleared
  <1>4. \A i \in Intervals, stage \in Stages : ~ Collecting(i, stage)'
    BY NoneIsNoReading DEF Collecting
  <1>5. AnswerSoFar'
    BY <1>3, <1>4 DEF AnswerSoFar, Stages
  <1> QED
    BY <1>1, <1>2, <1>5

LEMMA BeginIInv == ASSUME NEW i \in Intervals PROVE IInv /\ Begin(i) => IInv'
PROOF
  <1> SUFFICES ASSUME IInv, Begin(i) PROVE IInv'
    OBVIOUS
  <1> USE DistinctCounters DEF IInv, Begin, env, disk, net, answer
  <1>1. Shape'
    BY DEF Shape
  <1>2. CpuReadings' /\ TrackedSince' /\ UsageSince'
    BY DEF CpuReadings, Now, TrackedSince, UsageSince
  <1>3. AnswerSoFar'
    BY DEF AnswerSoFar, Collecting
  <1> QED
    BY <1>1, <1>2, <1>3

\* What the CPU is measured against is a reading that is not from the future.
LEMMA CpuBaseIsReading ==
  ASSUME IInv, NEW i \in Intervals
  PROVE  /\ CpuBase(i).bytes \in Int /\ CpuBase(i).at \in Int
         /\ CpuBase(i).bytes <= counter[CPU] /\ CpuBase(i).at <= clock
         /\ CpuBase(i).at = clock => CpuBase(i) = Now(CPU)
         /\ lastCpu[i] # None => CpuBase(i) = lastCpu[i]
         /\ counter[CPU] \in Int /\ clock \in Int
PROOF
  <1> USE DistinctCounters DEF IInv
  <1>1. counter[CPU] \in Int /\ clock \in Int
    BY DEF Shape
  <1>2. CASE lastCpu[i] # None
    BY <1>1, <1>2 DEF CpuBase, CpuReadings
  <1>3. CASE lastCpu[i] = None /\ lastCpu[Default] # None
    BY <1>1, <1>3 DEF CpuBase, CpuReadings
  <1>4. CASE lastCpu[i] = None /\ lastCpu[Default] = None
    BY <1>1, <1>4 DEF CpuBase, CpuReadings, Now
  <1> QED
    BY <1>2, <1>3, <1>4

\* What a step of the CPU does to the baselines, interval by interval.
LEMMA CpuMoves ==
  ASSUME IInv, NEW i \in Intervals, Cpu(i)
  PROVE  /\ lastCpu' \in [Intervals -> AnyReading]
         /\ \A j \in Intervals :
              \/ lastCpu'[j] = lastCpu[j]
              \/ lastCpu'[j] = Now(CPU) /\ (lastCpu[j] = None \/ j = i)
         /\ \/ shown' = shown /\ (lastCpu'[i] = lastCpu[i] \/ lastCpu'[i] = Now(CPU))
            \/ /\ shown' = [shown EXCEPT ![CPU] = [bytes |-> counter[CPU] - CpuBase(i).bytes,
                                                  ms |-> clock - CpuBase(i).at]]
               /\ lastCpu'[i] = Now(CPU)
PROOF
  <1> USE DistinctCounters, CpuBaseIsReading
  <1> DEFINE seeded == [lastCpu EXCEPT ![Default] = IF lastCpu[i] = None /\ @ = None
                                                      THEN Now(CPU) ELSE @]
  <1>1. lastCpu \in [Intervals -> AnyReading] /\ Now(CPU) \in AnyReading
    BY DEF IInv, Shape, Now, AnyReading
  <1>2. /\ seeded \in [Intervals -> AnyReading]
        /\ \A j \in Intervals : \/ seeded[j] = lastCpu[j]
                                \/ lastCpu[j] = None /\ seeded[j] = Now(CPU)
    BY <1>1
  <1>3. CASE UNCHANGED <<lastCpu, shown>>
    BY <1>1, <1>3
  <1>4. CASE clock <= CpuBase(i).at /\ lastCpu' = [seeded EXCEPT ![i] = CpuBase(i)]
             /\ UNCHANGED shown
    <2>1. CpuBase(i) = Now(CPU)
      BY <1>4
    <2> HIDE DEF seeded
    <2> QED
      BY <1>1, <1>2, <1>4, <2>1
  <1>5. CASE /\ lastCpu' = [seeded EXCEPT ![i] = Now(CPU)]
             /\ shown' = [shown EXCEPT ![CPU] = [bytes |-> counter[CPU] - CpuBase(i).bytes,
                                                ms |-> clock - CpuBase(i).at]]
    <2> HIDE DEF seeded
    <2> QED
      BY <1>1, <1>2, <1>5
  <1> QED
    BY <1>3, <1>4, <1>5 DEF Cpu

LEMMA CpuIInv == ASSUME NEW i \in Intervals PROVE IInv /\ Cpu(i) => IInv'
PROOF
  <1> SUFFICES ASSUME IInv, Cpu(i) PROVE IInv'
    OBVIOUS
  <1> USE DistinctCounters DEF IInv
  <1>1. UNCHANGED <<env, disk, net>> /\ run' = [interval |-> i, stage |-> "usage"]
        /\ Collecting(i, "cpu")
    BY DEF Cpu
  <1>2. counter[CPU] \in Int /\ clock \in Int
    BY DEF Shape
  <1>3. Shape'
    BY <1>1, CpuMoves DEF Shape, env, disk, net
  <1>4. CpuReadings'
    BY <1>1, <1>2, CpuMoves DEF CpuReadings, Now, env
  <1>5. AnswerSoFar'
    BY <1>1, CpuMoves, NoneIsNoReading DEF AnswerSoFar, Collecting, Shape, Stages
  <1>6. TrackedSince' /\ UsageSince'
    BY <1>1 DEF TrackedSince, UsageSince, env, disk, net
  <1> QED
    BY <1>3, <1>4, <1>5, <1>6

\* What a reading of the usage leaves of an entry.
LEMMA ReadUsage ==
  ASSUME Shape, NEW d \in Disks, NEW failed
  PROVE  /\ Read(d, failed) \in [bytes : Int, at : Int \cup {None}, checked : Int \cup {None}]
         /\ Read(d, failed).checked = clock
PROOF
  <1>1. fs[d] \in [bytes : Int, at : Int \cup {None}, checked : Int \cup {None}] /\ clock \in Int
    BY DEF Shape
  <1> QED
    BY <1>1 DEF Read

LEMMA UsageIInv == ASSUME NEW i \in Intervals PROVE IInv /\ Usage(i) => IInv'
PROOF
  <1> SUFFICES ASSUME IInv, Usage(i) PROVE IInv'
    OBVIOUS
  <1> USE DistinctCounters DEF IInv
  <1> PICK failed \in SUBSET UsageDue, read \in SUBSET UsageDue :
             /\ fs' = [d \in Disks |-> IF d \in read THEN Read(d, failed) ELSE fs[d]]
             /\ \/ /\ read = UsageDue
                   /\ run' = [interval |-> i, stage |-> "io"]
                   /\ lastUsage' = UsageNoted
                   /\ UNCHANGED answer
                \/ /\ run' = None
                   /\ shown' = Cleared
                   /\ bandwidth' = 0
                   /\ UNCHANGED lastUsage
    BY DEF Usage
  <1>1. UNCHANGED <<env, lastCpu, fsNames, diskPrev, net>> /\ Collecting(i, "usage")
    BY DEF Usage
  <1>2. clock \in Int
    BY DEF Shape
  <1>3. Shape'
    <2>1. fs' \in [Disks -> [bytes : Int, at : Int \cup {None}, checked : Int \cup {None}]]
      BY <1>2, ReadUsage DEF Shape
    <2>2. shown' = [c \in Counters |-> shown'[c]]
      BY DEF Shape, answer, Cleared
    <2> QED
      BY <1>1, <2>1, <2>2 DEF Shape, env, net
  <1>4. CpuReadings' /\ TrackedSince'
    BY <1>1 DEF CpuReadings, Now, TrackedSince, env, net
  <1>5. AnswerSoFar'
    <2>1. CASE run' = [interval |-> i, stage |-> "io"] /\ UNCHANGED answer
      BY <1>1, <2>1, NoneIsNoReading DEF AnswerSoFar, Collecting, Stages, answer
    <2>2. CASE run' = None /\ shown' = Cleared
      <3>1. \A c \in Counters \ Extra : shown'[c] = Zero
        BY <2>2 DEF Cleared
      <3>2. \A j \in Intervals, stage \in Stages : ~ Collecting(j, stage)'
        BY <2>2, NoneIsNoReading DEF Collecting
      <3> QED
        BY <3>1, <3>2 DEF AnswerSoFar, Stages
    <2> QED
      BY <2>1, <2>2
  <1>6. UsageSince'
    <2>1. \A d \in Disks : IF d \in read THEN fs'[d].checked = clock
                                         ELSE fs'[d].checked = fs[d].checked
      BY <1>2, ReadUsage DEF Shape
    <2>2. CASE UNCHANGED lastUsage
      <3>1. lastUsage # None => lastUsage \in Int
        BY DEF UsageSince
      <3>2. SUFFICES ASSUME lastUsage # None, NEW d \in Disks \cap devices
                     PROVE  fs'[d].checked \in Int /\ fs'[d].checked >= lastUsage
        BY <1>1, <2>2, <3>1 DEF UsageSince, env
      <3>3. fs[d].checked \in Int /\ fs[d].checked >= lastUsage
        BY <3>2 DEF UsageSince
      <3>4. lastUsage <= clock
        BY <3>2 DEF UsageSince
      <3> QED
        BY <1>2, <2>1, <3>1, <3>2, <3>3, <3>4
    <2>3. CASE read = UsageDue /\ ~ CacheExtraFs /\ lastUsage' = clock
      BY <1>1, <1>2, <2>1, <2>3 DEF UsageSince, UsageDue, env
    <2> QED
      BY <2>2, <2>3 DEF UsageNoted
  <1> QED
    BY <1>3, <1>4, <1>5, <1>6

\* What a reading of the disk counters does to the baselines and to the answer.
LEMMA DiskMoves ==
  ASSUME IInv, NEW i \in Intervals, DiskIo(i)
  PROVE  /\ fs' \in [Disks -> [bytes : Int, at : Int \cup {None}, checked : Int \cup {None}]]
         /\ \A d \in Disks : fs'[d].checked = fs[d].checked
         /\ diskPrev' \in [Intervals -> [Disks -> AnyReading]]
         /\ \A j \in Intervals \ {i}, d \in Disks : diskPrev'[j][d] = diskPrev[j][d]
         /\ shown' = [c \in Counters |-> shown'[c]]
         /\ \A c \in Counters \ Disks : shown'[c] = shown[c]
         /\ \A d \in Disks : /\ diskPrev'[i][d] \in {diskPrev[i][d], Now(d)}
                              /\ \/ shown'[d] = shown[d]
                                 \/ /\ diskPrev'[i][d] = Now(d)
                                    /\ \/ shown'[d] = Zero
                                       \/ shown'[d] = DiskRate(i, d) /\ ~ CounterReset(i, d)
PROOF
  <1> USE DistinctCounters DEF IInv
  <1>1. /\ clock \in Int /\ \A d \in Disks : counter[d] \in Int /\ Now(d) \in AnyReading
        /\ diskPrev \in [Intervals -> [Disks -> AnyReading]]
        /\ fs \in [Disks -> [bytes : Int, at : Int \cup {None}, checked : Int \cup {None}]]
        /\ shown = [c \in Counters |-> shown[c]]
    BY DEF Now, Shape, AnyReading
  <1>2. CASE UNCHANGED <<disk, shown>>
    BY <1>1, <1>2 DEF disk
  <1> DEFINE row == [d \in Disks |-> IF d \in IoCounters THEN Now(d) ELSE diskPrev[i][d]]
  <1>3. ASSUME ~ UNCHANGED <<disk, shown>>
        PROVE  /\ fs' = [d \in Disks |-> fs'[d]]
               /\ \A d \in Disks : \/ fs'[d] = fs[d]
                                   \/ fs'[d] = [fs[d] EXCEPT !.bytes = counter[d], !.at = clock]
               /\ diskPrev' = [diskPrev EXCEPT ![i] = row]
               /\ shown' = [c \in Counters |-> IF c \in Disks THEN RateAfter(i, c) ELSE shown[c]]
    BY <1>3 DEF DiskIo
  <1>4. CASE ~ UNCHANGED <<disk, shown>>
    <2>1. ASSUME NEW d \in Disks
          PROVE  /\ fs'[d] \in [bytes : Int, at : Int \cup {None}, checked : Int \cup {None}]
                 /\ fs'[d].checked = fs[d].checked
      <3>1. fs[d] \in [bytes : Int, at : Int \cup {None}, checked : Int \cup {None}]
        BY <1>1
      <3>2. CASE fs'[d] = fs[d]
        BY <3>1, <3>2
      <3>3. CASE fs'[d] = [fs[d] EXCEPT !.bytes = counter[d], !.at = clock]
        BY <1>1, <3>1, <3>3
      <3> QED
        BY <1>3, <1>4, <3>2, <3>3
    <2>2. row \in [Disks -> AnyReading]
      BY <1>1
    <2>3. \A d \in Disks : row[d] = IF d \in IoCounters THEN Now(d) ELSE diskPrev[i][d]
      OBVIOUS
    <2> HIDE DEF row
    <2>4. /\ diskPrev' \in [Intervals -> [Disks -> AnyReading]]
          /\ \A j \in Intervals \ {i} : diskPrev'[j] = diskPrev[j]
          /\ diskPrev'[i] = row
      <3>1. diskPrev' = [diskPrev EXCEPT ![i] = row]
        BY <1>3, <1>4
      <3> QED
        BY <1>1, <2>2, <3>1
    <2>5. fs' \in [Disks -> [bytes : Int, at : Int \cup {None}, checked : Int \cup {None}]]
      BY <1>3, <1>4, <2>1
    <2>6. \A c \in Counters \ Disks : shown'[c] = shown[c]
      <3>1. shown' = [c \in Counters |-> IF c \in Disks THEN RateAfter(i, c) ELSE shown[c]]
        BY <1>3, <1>4
      <3> QED
        BY <3>1
    <2>7. ASSUME NEW d \in Disks
          PROVE  /\ diskPrev'[i][d] \in {diskPrev[i][d], Now(d)}
                 /\ \/ shown'[d] = shown[d]
                    \/ /\ diskPrev'[i][d] = Now(d)
                       /\ \/ shown'[d] = Zero
                          \/ shown'[d] = DiskRate(i, d) /\ ~ CounterReset(i, d)
      <3>1. shown'[d] = RateAfter(i, d)
        BY <1>3, <1>4
      <3>2. Measurable(i, d) => d \in IoCounters
        BY DEF Measurable
      <3>3. \/ RateAfter(i, d) = shown[d]
            \/ Measurable(i, d) /\ RateAfter(i, d) = Zero
            \/ Measurable(i, d) /\ RateAfter(i, d) = DiskRate(i, d) /\ ~ CounterReset(i, d)
        BY DEF RateAfter, Measured
      <3> QED
        BY <2>3, <2>4, <3>1, <3>2, <3>3
    <2> QED
      BY <1>3, <1>4, <2>1, <2>4, <2>5, <2>6, <2>7
  <1> QED
    BY <1>2, <1>4

LEMMA DiskIoIInv == ASSUME NEW i \in Intervals PROVE IInv /\ DiskIo(i) => IInv'
PROOF
  <1> SUFFICES ASSUME IInv, DiskIo(i) PROVE IInv'
    OBVIOUS
  <1> USE DistinctCounters DEF IInv
  <1>1. /\ UNCHANGED <<env, lastCpu, net, bandwidth>> /\ UNCHANGED lastUsage
        /\ run' = [interval |-> i, stage |-> "net"]
    BY DEF DiskIo, disk
  <1>2. shown' = [c \in Counters |-> shown'[c]]
    BY DiskMoves
  <1>3. Shape'
    BY <1>1, <1>2, DiskMoves DEF Shape, env, net
  <1>4. CpuReadings' /\ TrackedSince' /\ UsageSince'
    BY <1>1, DiskMoves DEF CpuReadings, Now, TrackedSince, UsageSince, env, net
  <1>5. AnswerSoFar'
    BY <1>1, NoneIsNoReading DEF AnswerSoFar, Collecting, Stages
  <1> QED
    BY <1>3, <1>4, <1>5

\* What a reading of the interfaces does to the baselines and to the answer.
LEMMA NetMoves ==
  ASSUME IInv, NEW i \in Intervals, Net(i)
  PROVE  /\ netIoStats' = [j \in Intervals |-> netIoStats'[j]]
         /\ tracker' \in [Intervals -> [Nics -> Int \cup {None}]]
         /\ shown' = [c \in Counters |-> shown'[c]]
         /\ \/ UNCHANGED <<netIoStats, tracker, shown>>
            \/ /\ \A c \in Counters : shown'[c] = IF c \in Valid THEN NicRate(i, c) ELSE shown[c]
               /\ \/ \A j \in Intervals : /\ netIoStats'[j].at = None
                                          /\ \A n \in Nics : tracker'[j][n] = None
                  \/ /\ netIoStats'[i].at = clock
                     /\ \A n \in Nics : tracker'[i][n] = IF n \in Valid THEN counter[n] ELSE None
                     /\ \A j \in Intervals \ {i} : /\ netIoStats'[j] = netIoStats[j]
                                                   /\ tracker'[j] = tracker[j]
PROOF
  <1> USE DistinctCounters DEF IInv
  <1>1. /\ \A n \in Nics : counter[n] \in Int
        /\ tracker \in [Intervals -> [Nics -> Int \cup {None}]]
        /\ netIoStats = [j \in Intervals |-> netIoStats[j]]
        /\ shown = [c \in Counters |-> shown[c]]
    BY DEF Shape
  <1>2. CASE UNCHANGED <<net, answer>>
    BY <1>1, <1>2 DEF net, answer
  <1>3. CASE /\ shown' = [c \in Counters |-> IF c \in Valid THEN NicRate(i, c) ELSE shown[c]]
             /\ netIoStats' = [j \in Intervals |-> NoTotal]
             /\ tracker' = [j \in Intervals |-> [n \in Nics |-> None]]
    BY <1>1, <1>3 DEF NoTotal
  <1>4. CASE /\ shown' = [c \in Counters |-> IF c \in Valid THEN NicRate(i, c) ELSE shown[c]]
             /\ netIoStats' = [netIoStats EXCEPT ![i] = [bytes |-> Total, at |-> clock]]
             /\ tracker' = [tracker EXCEPT ![i] = [n \in Nics |->
                              IF n \in Valid THEN counter[n] ELSE None]]
    BY <1>1, <1>4
  <1> QED
    BY <1>2, <1>3, <1>4 DEF Net

LEMMA NetIInv == ASSUME NEW i \in Intervals PROVE IInv /\ Net(i) => IInv'
PROOF
  <1> SUFFICES ASSUME IInv, Net(i) PROVE IInv'
    OBVIOUS
  <1> USE DistinctCounters DEF IInv
  <1>1. /\ UNCHANGED <<env, lastCpu, disk>>
        /\ run' = [interval |-> i, stage |-> "reply"]
    BY DEF Net
  <1>2. clock \in Int /\ clock # None
    BY NoneAssumption DEF Shape
  <1>3. \A j \in Intervals : netIoStats'[j].at \in {netIoStats[j].at, None, clock}
    BY NetMoves
  <1>4. Shape'
    BY <1>1, <1>2, <1>3, NetMoves DEF Shape, env, disk
  <1>5. CpuReadings' /\ UsageSince'
    BY <1>1 DEF CpuReadings, Now, UsageSince, env, disk
  <1>6. TrackedSince'
    BY <1>2, NetMoves DEF TrackedSince
  <1>7. AnswerSoFar'
    BY <1>1, NoneIsNoReading DEF AnswerSoFar, Collecting, Stages
  <1> QED
    BY <1>4, <1>5, <1>6, <1>7

LEMMA StutterIInv == IInv /\ UNCHANGED vars => IInv'
PROOF
  <1> SUFFICES ASSUME IInv, UNCHANGED vars PROVE IInv'
    OBVIOUS
  <1> USE DEF IInv, vars, env, disk, net, answer
  <1>1. Shape'
    BY DEF Shape
  <1>2. CpuReadings' /\ TrackedSince' /\ UsageSince'
    BY DEF CpuReadings, Now, TrackedSince, UsageSince
  <1>3. AnswerSoFar'
    BY DEF AnswerSoFar, Collecting
  <1> QED
    BY <1>1, <1>2, <1>3

THEOREM NextIInv == IInv /\ [Next]_vars => IInv'
PROOF
  BY ElapseIInv, PlugIInv, EndIInv, BeginIInv, CpuIInv, UsageIInv, DiskIoIInv, NetIInv,
     StutterIInv
  DEF Next

THEOREM SpecIInv == Spec => []IInv
PROOF
  BY InitIInv, NextIInv, PTL DEF Spec

-----------------------------------------------------------------------------
(* The refinement.                                                          *)

\* The marks of the abstract specification, counter by counter, before and after a step.
LEMMA Marks ==
  ASSUME NEW i \in Intervals
  PROVE  /\ Mark[i][CPU] = lastCpu[i] /\ Mark'[i][CPU] = lastCpu'[i]
         /\ \A d \in Disks : Mark[i][d] = diskPrev[i][d] /\ Mark'[i][d] = diskPrev'[i][d]
         /\ \A n \in Nics :
              /\ Mark[i][n] = IF tracker[i][n] = None
                                THEN None
                                ELSE [bytes |-> tracker[i][n], at |-> netIoStats[i].at]
              /\ Mark'[i][n] = IF tracker'[i][n] = None
                                 THEN None
                                 ELSE [bytes |-> tracker'[i][n], at |-> netIoStats'[i].at]
PROOF
  BY DistinctCounters DEF Mark

LEMMA MarkIsFunction ==
  /\ Mark = [i \in Intervals |-> [c \in Counters |-> Mark[i][c]]]
  /\ Mark' = [i \in Intervals |-> [c \in Counters |-> Mark'[i][c]]]
PROOF
  BY DEF Mark

LEMMA CounterCases == \A c \in Counters : c = CPU \/ c \in Disks \/ c \in Nics
PROOF
  BY DEF Counters

LEMMA InitRefines == Init => Promise!Init
PROOF
  <1> SUFFICES ASSUME Init PROVE Promise!Init
    OBVIOUS
  <1>1. ASSUME NEW i \in Intervals, NEW c \in Counters
        PROVE  Mark[i][c] \in {None, Promise!Now(c)}
    <2>1. CASE c = CPU
      BY <2>1, Marks, IntervalAssumption DEF Init, Now, Promise!Now
    <2>2. CASE c \in Disks
      BY <2>2, Marks DEF Init
    <2>3. CASE c \in Nics
      BY <2>3, Marks DEF Init
    <2> QED
      BY <2>1, <2>2, <2>3, CounterCases
  <1>2. shown = [c \in Counters |-> Promise!Zero]
    BY DEF Init, Zero, Promise!Zero
  <1> QED
    BY <1>1, <1>2, MarkIsFunction DEF Promise!Init

\* Nothing but the time and the counters changes.
LEMMA QuietRefines ==
  ASSUME UNCHANGED <<lastCpu, disk, net, answer>>
  PROVE  Promise!Elapse
PROOF
  BY DEF Promise!Elapse, Mark, disk, net, answer

\* An answer is given, or given up.
LEMMA EndRefines ==
  ASSUME UNCHANGED <<env, lastCpu, diskPrev, net>>, shown' = Cleared
  PROVE  Promise!End
PROOF
  BY DEF Promise!End, Promise!Zero, Zero, Cleared, Mark, env, net

LEMMA UsageRefines ==
  ASSUME NEW i \in Intervals, Usage(i)
  PROVE  Promise!Elapse \/ Promise!End
PROOF
  <1>1. UNCHANGED <<env, lastCpu, diskPrev, net>>
    BY DEF Usage
  <1>2. UNCHANGED shown \/ shown' = Cleared
    BY DEF Usage, answer
  <1>3. CASE UNCHANGED shown
    BY <1>1, <1>3 DEF Promise!Elapse, Mark, net
  <1>4. CASE shown' = Cleared
    BY <1>1, <1>4, EndRefines
  <1> QED
    BY <1>2, <1>3, <1>4

\* The marks of the counters that a step does not touch.
LEMMA KeptMarks ==
  ASSUME NEW j \in Intervals
  PROVE  /\ UNCHANGED <<diskPrev, net>> =>
              \A c \in Counters \ {CPU} : Mark'[j][c] = Mark[j][c]
         /\ UNCHANGED <<lastCpu, net>> =>
              \A c \in Counters \ Disks : Mark'[j][c] = Mark[j][c]
         /\ UNCHANGED <<lastCpu, diskPrev>> =>
              \A c \in Counters \ Nics : Mark'[j][c] = Mark[j][c]
PROOF
  <1>1. UNCHANGED lastCpu => Mark'[j][CPU] = Mark[j][CPU]
    BY Marks
  <1>2. UNCHANGED diskPrev => \A d \in Disks : Mark'[j][d] = Mark[j][d]
    BY Marks
  <1>3. UNCHANGED net => \A n \in Nics : Mark'[j][n] = Mark[j][n]
    <2> SUFFICES ASSUME UNCHANGED net, NEW n \in Nics PROVE Mark'[j][n] = Mark[j][n]
      OBVIOUS
    <2>1. tracker'[j][n] = tracker[j][n] /\ netIoStats'[j].at = netIoStats[j].at
      BY DEF net
    <2>2. Mark[j][n] = IF tracker[j][n] = None
                         THEN None
                         ELSE [bytes |-> tracker[j][n], at |-> netIoStats[j].at]
      BY Marks
    <2>3. Mark'[j][n] = IF tracker'[j][n] = None
                          THEN None
                          ELSE [bytes |-> tracker'[j][n], at |-> netIoStats'[j].at]
      BY Marks
    <2> QED
      BY <2>1, <2>2, <2>3
  <1> QED
    BY <1>1, <1>2, <1>3, CounterCases

\* A step that measures no counter.
LEMMA MeasureNothing ==
  ASSUME NEW i \in Intervals, UNCHANGED <<clock, counter>>, UNCHANGED shown,
         \A c \in Counters : Mark'[i][c] = Mark[i][c],
         \A j \in Intervals \ {i}, c \in Counters :
            \/ Mark'[j][c] = Mark[j][c]
            \/ Mark[j][c] = None /\ Mark'[j][c] = Promise!Now(c)
  PROVE  Promise!Measure(i)
PROOF
  <1> DEFINE measured == {}
  <1>1. measured \in SUBSET Counters /\ \A c \in measured : FALSE
    OBVIOUS
  <1> HIDE DEF measured
  <1> QED
    BY <1>1 DEF Promise!Measure

\* A step that measures the given counters.
LEMMA MeasureBy ==
  ASSUME NEW i \in Intervals, NEW measured \in SUBSET Counters,
         UNCHANGED <<clock, counter>>,
         \A c \in measured : Promise!Honest(i, c) /\ Mark'[i][c] \in {None, Promise!Now(c)},
         \A c \in Counters \ measured :
            shown'[c] = shown[c] /\ Mark'[i][c] \in {None, Mark[i][c]},
         \A j \in Intervals \ {i}, c \in Counters :
            \/ Mark'[j][c] \in {None, Mark[j][c]}
            \/ Mark[j][c] = None /\ Mark'[j][c] = Promise!Now(c)
  PROVE  Promise!Measure(i)
PROOF
  BY DEF Promise!Measure

LEMMA CpuRefines ==
  ASSUME IInv, NEW i \in Intervals, Cpu(i)
  PROVE  Promise!Measure(i)
PROOF
  <1> USE DistinctCounters
  <1>1. UNCHANGED <<env, diskPrev, net>> /\ Collecting(i, "cpu")
    BY DEF Cpu, disk
  <1>2. UNCHANGED <<clock, counter>>
    BY <1>1 DEF env
  <1>3. \A j \in Intervals, c \in Counters \ {CPU} : Mark'[j][c] = Mark[j][c]
    BY <1>1, KeptMarks
  <1>4. \A j \in Intervals \ {i} : \/ Mark'[j][CPU] = Mark[j][CPU]
                                   \/ Mark[j][CPU] = None /\ Mark'[j][CPU] = Promise!Now(CPU)
    BY CpuMoves, Marks DEF Now, Promise!Now
  <1>5. shown[CPU] = Zero /\ shown = [c \in Counters |-> shown[c]]
    BY <1>1 DEF IInv, AnswerSoFar, Shape
  <1>6. \A c \in Counters \ {CPU} : shown'[c] = shown[c]
    BY CpuMoves, <1>5
  <1>7. CASE lastCpu'[i] = Now(CPU)
    <2>1. Promise!Honest(i, CPU)
      <3>1. CASE shown' = shown
        BY <1>5, <3>1 DEF Promise!Honest, Promise!Allowed, Promise!Zero, Zero
      <3>2. CASE shown' = [shown EXCEPT ![CPU] = [bytes |-> counter[CPU] - CpuBase(i).bytes,
                                                 ms |-> clock - CpuBase(i).at]]
        <4>1. shown'[CPU] = [bytes |-> counter[CPU] - CpuBase(i).bytes,
                             ms |-> clock - CpuBase(i).at]
          BY <1>5, <3>2
        <4>2. lastCpu[i] # None => counter[CPU] >= lastCpu[i].bytes /\ CpuBase(i) = lastCpu[i]
          BY CpuBaseIsReading
        <4> QED
          BY <4>1, <4>2, Marks DEF Promise!Honest, Promise!Allowed, Promise!Exact, Promise!Since
      <3> QED
        BY <3>1, <3>2, CpuMoves
    <2>2. Mark'[i][CPU] = Promise!Now(CPU)
      BY <1>7, Marks DEF Now, Promise!Now
    <2> DEFINE measured == {CPU}
    <2>3. measured \in SUBSET Counters /\ \A c \in measured : c = CPU
      OBVIOUS
    <2>4. \A c \in Counters \ measured : c \in Counters \ {CPU}
      OBVIOUS
    <2> HIDE DEF measured
    <2> QED
      BY <1>2, <1>3, <1>4, <1>6, <2>1, <2>2, <2>3, <2>4, MeasureBy
  <1>8. CASE shown' = shown /\ lastCpu'[i] = lastCpu[i]
    <2>1. Mark'[i][CPU] = Mark[i][CPU]
      BY <1>8, Marks
    <2> QED
      BY <1>2, <1>3, <1>4, <1>8, <2>1, MeasureNothing
  <1> QED
    BY <1>7, <1>8, CpuMoves

LEMMA DiskIoRefines ==
  ASSUME IInv, NEW i \in Intervals, DiskIo(i)
  PROVE  Promise!Measure(i)
PROOF
  <1> USE DistinctCounters
  <1>1. UNCHANGED <<env, lastCpu, net>> /\ Collecting(i, "io")
    BY DEF DiskIo
  <1>2. UNCHANGED <<clock, counter>>
    BY <1>1 DEF env
  <1>3. \A j \in Intervals, c \in Counters \ Disks : Mark'[j][c] = Mark[j][c]
    BY <1>1, KeptMarks
  <1>4. \A j \in Intervals \ {i}, c \in Counters : Mark'[j][c] = Mark[j][c]
    BY <1>3, DiskMoves, Marks
  <1>5. shown[Root] = Zero
    BY <1>1 DEF IInv, AnswerSoFar
  <1>6. \A c \in Counters \ Disks : shown'[c] = shown[c]
    BY DiskMoves
  <1>7. \A d \in Disks : Mark'[i][d] \in {Mark[i][d], Promise!Now(d)}
    <2>1. \A d \in Disks : diskPrev'[i][d] \in {diskPrev[i][d], Now(d)}
      BY DiskMoves
    <2>2. \A d \in Disks : Mark[i][d] = diskPrev[i][d] /\ Mark'[i][d] = diskPrev'[i][d]
      BY Marks
    <2>3. \A d \in Disks : Promise!Now(d) = Now(d)
      BY DEF Now, Promise!Now
    <2> QED
      BY <2>1, <2>2, <2>3
  <1>8. ASSUME NEW d \in Disks PROVE Promise!Honest(i, d)
    <2>1. CASE shown'[d] = shown[d]
      BY <1>5, <2>1 DEF Promise!Honest, Promise!Allowed, Promise!Zero, Zero
    <2>2. CASE shown'[d] = Zero
      BY <2>2 DEF Promise!Honest, Promise!Allowed, Promise!Zero, Zero
    <2>3. CASE shown'[d] = DiskRate(i, d) /\ ~ CounterReset(i, d)
      <3>1. SUFFICES ASSUME diskPrev[i][d] # None
                     PROVE  DiskRate(i, d) = Promise!Exact(i, d)
        BY <2>3, Marks DEF Promise!Honest, Promise!Allowed
      <3>2. DiskBase(i, d) = Mark[i][d]
        BY <3>1, Marks DEF DiskBase
      <3>3. counter[d] \in Int /\ DiskBase(i, d).bytes \in Int
        BY <3>1 DEF DiskBase, IInv, Shape, AnyReading
      <3>4. counter[d] >= DiskBase(i, d).bytes
        BY <2>3, <3>3 DEF CounterReset
      <3> QED
        BY <3>2, <3>4 DEF DiskRate, DiskMs, Promise!Exact, Promise!Since
    <2> QED
      BY <2>1, <2>2, <2>3, DiskMoves
  <1> DEFINE measured == {d \in Disks : Mark'[i][d] = Promise!Now(d)}
  <1>9. \A d \in Disks : shown'[d] = shown[d] \/ d \in measured
    BY DiskMoves, Marks DEF Now, Promise!Now
  <1>10. \A c \in measured : Promise!Honest(i, c)
    BY <1>8
  <1>11. measured \in SUBSET Counters
    OBVIOUS
  <1>12. \A c \in Counters \ measured : shown'[c] = shown[c] /\ Mark'[i][c] = Mark[i][c]
    BY <1>3, <1>6, <1>7, <1>9
  <1>13. \A c \in measured : Mark'[i][c] = Promise!Now(c)
    OBVIOUS
  <1> HIDE DEF measured
  <1> QED
    BY <1>2, <1>4, <1>10, <1>11, <1>12, <1>13, MeasureBy

LEMMA NetRefines ==
  ASSUME IInv, NEW i \in Intervals, Net(i)
  PROVE  Promise!Measure(i)
PROOF
  <1> USE DistinctCounters
  <1>1. UNCHANGED <<env, lastCpu, diskPrev>>
    BY DEF Net, disk
  <1>2. UNCHANGED <<clock, counter>>
    BY <1>1 DEF env
  <1>3. \A j \in Intervals, c \in Counters \ Nics : Mark'[j][c] = Mark[j][c]
    BY <1>1, KeptMarks
  <1>4. CASE UNCHANGED <<netIoStats, tracker, shown>>
    <2>1. Mark' = Mark
      BY <1>1, <1>4 DEF Mark
    <2> QED
      BY <1>2, <1>4, <2>1, MeasureNothing
  <1>5. CASE ~ UNCHANGED <<netIoStats, tracker, shown>>
    <2>1. /\ \A c \in Counters : shown'[c] = IF c \in Valid THEN NicRate(i, c) ELSE shown[c]
          /\ \/ \A j \in Intervals : /\ netIoStats'[j].at = None
                                     /\ \A n \in Nics : tracker'[j][n] = None
             \/ /\ netIoStats'[i].at = clock
                /\ \A n \in Nics : tracker'[i][n] = IF n \in Valid THEN counter[n] ELSE None
                /\ \A j \in Intervals \ {i} : /\ netIoStats'[j] = netIoStats[j]
                                              /\ tracker'[j] = tracker[j]
      BY <1>5, NetMoves
    <2>2. Valid \in SUBSET Counters /\ Valid \subseteq Nics
      BY DEF Valid
    <2>3. ASSUME NEW n \in Nics
          PROVE  /\ n \in Valid => Mark'[i][n] \in {None, Promise!Now(n)}
                 /\ n \notin Valid => Mark'[i][n] = None
      <3>1. Mark'[i][n] = IF tracker'[i][n] = None
                            THEN None
                            ELSE [bytes |-> tracker'[i][n], at |-> netIoStats'[i].at]
        BY Marks
      <3>2. counter[n] = counter'[n] /\ clock' = clock
        BY <1>2
      <3> QED
        BY <2>1, <3>1, <3>2 DEF Promise!Now
    <2>4. ASSUME NEW j \in Intervals \ {i}, NEW n \in Nics
          PROVE  Mark'[j][n] \in {None, Mark[j][n]}
      <3>1. /\ Mark[j][n] = IF tracker[j][n] = None
                              THEN None
                              ELSE [bytes |-> tracker[j][n], at |-> netIoStats[j].at]
            /\ Mark'[j][n] = IF tracker'[j][n] = None
                               THEN None
                               ELSE [bytes |-> tracker'[j][n], at |-> netIoStats'[j].at]
        BY Marks
      <3> QED
        BY <2>1, <3>1
    <2>5. ASSUME NEW n \in Valid
          PROVE  Promise!Honest(i, n)
      <3>1. n \in Nics /\ shown'[n] = NicRate(i, n)
        BY <2>1, <2>2
      <3>2. CASE tracker[i][n] = None
        BY <3>1, <3>2, Marks DEF Promise!Honest
      <3>3. CASE tracker[i][n] # None
        <4>1. Mark[i][n] = [bytes |-> tracker[i][n], at |-> netIoStats[i].at]
          BY <3>1, <3>3, Marks
        <4>2. netIoStats[i].at # None
          BY <3>1, <3>3 DEF IInv, TrackedSince
        <4>3. NicRate(i, n) \in {Promise!Zero, Promise!Exact(i, n)}
          BY <3>3, <4>1, <4>2 DEF NicRate, NetMs, Zero, Promise!Zero, Promise!Exact, Promise!Since
        <4> QED
          BY <3>1, <4>3 DEF Promise!Honest, Promise!Allowed
      <3> QED
        BY <3>2, <3>3
    <2>6. \A c \in Counters \ Valid :
             shown'[c] = shown[c] /\ Mark'[i][c] \in {None, Mark[i][c]}
      BY <1>3, <2>1, <2>3
    <2>7. \A j \in Intervals \ {i}, c \in Counters : Mark'[j][c] \in {None, Mark[j][c]}
      BY <1>3, <2>4
    <2> QED
      BY <1>2, <2>2, <2>3, <2>5, <2>6, <2>7, MeasureBy
  <1> QED
    BY <1>4, <1>5

THEOREM NextRefines == IInv /\ [Next]_vars => [Promise!Next]_(Promise!vars)
PROOF
  <1> SUFFICES ASSUME IInv, [Next]_vars PROVE Promise!Next
    OBVIOUS
  <1>1. CASE Elapse \/ Plug
    BY <1>1, QuietRefines DEF Elapse, Plug, Promise!Next
  <1>2. CASE End
    BY <1>2, EndRefines DEF End, disk, Promise!Next
  <1>3. ASSUME NEW i \in Intervals, Begin(i) PROVE Promise!Next
    BY <1>3, QuietRefines DEF Begin, Promise!Next
  <1>4. ASSUME NEW i \in Intervals, Cpu(i) \/ DiskIo(i) \/ Net(i) PROVE Promise!Next
    BY <1>4, CpuRefines, DiskIoRefines, NetRefines DEF Promise!Next
  <1>5. ASSUME NEW i \in Intervals, Usage(i) PROVE Promise!Next
    BY <1>5, UsageRefines DEF Promise!Next
  <1>6. CASE UNCHANGED vars
    BY <1>6, QuietRefines DEF vars, Promise!Next
  <1> QED
    BY <1>1, <1>2, <1>3, <1>4, <1>5, <1>6 DEF Next

(***************************************************************************)
(* Rates implements IntervalRates: for any number of intervals, devices    *)
(* and interfaces and any limits, a rate that is reported is the traffic   *)
(* since the last reading for its own interval.                            *)
(***************************************************************************)
THEOREM RatesImplement == Spec => RatesImplementPromise
PROOF
  <1>1. Init => Promise!Init
    BY InitRefines
  <1>2. IInv /\ [Next]_vars => [Promise!Next]_(Promise!vars)
    BY NextRefines
  <1> QED
    BY <1>1, <1>2, SpecIInv, PTL DEF Spec, RatesImplementPromise, Promise!Spec

-----------------------------------------------------------------------------
(* The usage that is reported.                                              *)

(***************************************************************************)
(* No usage that a collection goes on with is older than the cache         *)
(* duration: lastDiskUsageUpdate is moved only when every file system has  *)
(* been read (updateDiskUsage).                                            *)
(***************************************************************************)
THEOREM ReportedUsageIsRecent == Spec => UsageIsRecent
PROOF
  <1> DEFINE Recent == \A i \in Intervals : Collecting(i, "usage") /\ run' # None =>
       \A d \in Disks \cap devices : fs'[d].checked # None
                        /\ (clock - fs'[d].checked < UsageCache \/ fs'[d].checked = clock)
  <1>1. IInv /\ [Next]_vars => [Recent]_vars
    <2> SUFFICES ASSUME IInv, Next,
                        NEW i \in Intervals, Collecting(i, "usage"), run' # None,
                        NEW d \in Disks \cap devices
                 PROVE  /\ fs'[d].checked # None
                        /\ clock - fs'[d].checked < UsageCache \/ fs'[d].checked = clock
      OBVIOUS
    <2>1. Usage(i)
      BY NoneIsNoReading DEF Next, Elapse, Plug, End, Begin, Cpu, Usage, DiskIo, Net, Collecting, Stages
    <2>2. PICK failed \in SUBSET UsageDue :
             fs' = [e \in Disks |-> IF e \in UsageDue THEN Read(e, failed) ELSE fs[e]]
      BY <2>1 DEF Usage
    <2>3. clock \in Int /\ clock # None /\ UsageCache \in Nat
      BY NoneIsNoReading, LimitAssumption DEF IInv, Shape
    <2>4. CASE d \in UsageDue
      BY <2>2, <2>3, <2>4, ReadUsage DEF IInv
    <2>5. CASE d \notin UsageDue
      <3>1. CacheExtraFs /\ fs'[d] = fs[d]
        BY <2>2, <2>5 DEF UsageDue
      <3>2. /\ lastUsage \in Int /\ clock - lastUsage < UsageCache
            /\ fs[d].checked \in Int /\ fs[d].checked >= lastUsage
        BY <3>1 DEF CacheExtraFs, IInv, UsageSince
      <3> QED
        BY <2>3, <3>1, <3>2, NoneIsNoReading
    <2> QED
      BY <2>4, <2>5
  <1> QED
    BY <1>1, SpecIInv, PTL DEF Spec, UsageIsRecent

-----------------------------------------------------------------------------
(* Sums over finite sets.  The library's induction theorems are about      *)
(* operators, which the provers cannot instantiate; what follows draws on  *)
(* the well-foundedness they rest on instead, for sets of numbers and for  *)
(* families of sets.                                                       *)

\* A set of naturals that holds 0 and every successor holds them all.
LEMMA AllNumbers ==
  ASSUME NEW N \in SUBSET Nat, 0 \in N, \A n \in N : n + 1 \in N
  PROVE  N = Nat
<1> DEFINE Out == Nat \ N
<1> SUFFICES ASSUME Out # {} PROVE FALSE
  OBVIOUS
<1>1. \E n \in Out : \A m \in Out : ~ (<<m, n>> \in OpToRel(<, Nat))
  <2>1. Out \subseteq Nat
    OBVIOUS
  <2> HIDE DEF Out
  <2> QED
    BY <2>1, NatLessThanWellFounded, WFMin
<1>2. \A m, n \in Nat : m < n => <<m, n>> \in OpToRel(<, Nat)
  BY DEF OpToRel
<1>3. PICK n \in Out : \A m \in Out : ~ (m < n)
  BY <1>1, <1>2
<1>4. n # 0 /\ n \in Nat
  OBVIOUS
<1>5. n - 1 \in Nat /\ n - 1 < n
  BY <1>4
<1>6. n - 1 \in N
  BY <1>3, <1>5
<1>7. (n - 1) + 1 \in N
  BY <1>6
<1> QED
  BY <1>4, <1>7

\* A family of subsets of a finite set that holds a set when it holds those with one element less.
LEMMA AllSubsets ==
  ASSUME NEW S, IsFiniteSet(S), NEW G \in SUBSET SUBSET S,
         \A s \in SUBSET S : (\A x \in s : s \ {x} \in G) => s \in G
  PROVE  G = SUBSET S
<1> DEFINE Out == (SUBSET S) \ G
<1> SUFFICES ASSUME Out # {} PROVE FALSE
  OBVIOUS
<1>1. \E s \in Out : \A t \in Out : ~ (<<t, s>> \in StrictSubsetOrdering(S))
  <2>1. Out \subseteq SUBSET S /\ FiniteSubsetsOf(S) = SUBSET S
    BY FS_FiniteSubsetsOfFinite
  <2> HIDE DEF Out
  <2>2. IsWellFoundedOn(StrictSubsetOrdering(S), SUBSET S)
    BY <2>1, FS_StrictSubsetOrderingWellFounded
  <2> QED
    BY <2>1, <2>2, WFMin
<1>2. PICK s \in Out : \A t \in Out : ~ (<<t, s>> \in StrictSubsetOrdering(S))
  BY <1>1
<1>3. PICK x \in s : s \ {x} \notin G
  BY <1>2
<1>4. <<s \ {x}, s>> \in StrictSubsetOrdering(S)
  BY <1>2, <1>3 DEF StrictSubsetOrdering
<1> QED
  BY <1>2, <1>3, <1>4


\* The element that the sum over s takes first, and the others.
One(s) == CHOOSE x \in s : TRUE
Rest(s) == s \ {One(s)}

\* g adds up f over the subsets of S.
AddUp(f, g, s) == IF s = {} THEN 0 ELSE f[One(s)] + g[Rest(s)]
AddsUp(g, f, S) == g = [s \in SUBSET S |-> AddUp(f, g, s)]

LEMMA RestOfSubset ==
  ASSUME NEW S, IsFiniteSet(S), NEW s \in SUBSET S, s # {}
  PROVE  /\ One(s) \in s /\ Rest(s) \in SUBSET S /\ Rest(s) \in SUBSET s
         /\ Cardinality(s) \in Nat \ {0} /\ Cardinality(Rest(s)) = Cardinality(s) - 1
<1>1. One(s) \in s
  BY DEF One
<1>2. IsFiniteSet(s)
  BY FS_Subset
<1> QED
  BY <1>1, <1>2, FS_RemoveElement, FS_EmptySet, FS_CardinalityType DEF Rest

\* Some function adds up f over the subsets of a finite set.
LEMMA SumsExist ==
  ASSUME NEW f, NEW S, IsFiniteSet(S)
  PROVE  \E g : AddsUp(g, f, S)
<1> DEFINE Small(n) == {s \in SUBSET S : Cardinality(s) <= n}
           Good == {n \in Nat : \E g : g = [s \in Small(n) |-> AddUp(f, g, s)]}
<1>1. \A s \in SUBSET S : Cardinality(s) \in Nat /\ Cardinality(s) <= Cardinality(S)
  BY FS_Subset, FS_CardinalityType
<1>2. 0 \in Good
  <2> DEFINE g == [s \in Small(0) |-> 0]
  <2>1. ASSUME NEW s \in Small(0) PROVE s = {}
    <3>1. s \in SUBSET S /\ Cardinality(s) <= 0
      OBVIOUS
    <3> QED
      BY <3>1, RestOfSubset
  <2>2. g = [s \in Small(0) |-> AddUp(f, g, s)]
    BY <2>1 DEF AddUp
  <2> QED
    BY <2>2
<1>3. ASSUME NEW n \in Good PROVE n + 1 \in Good
  <2>1. PICK g : g = [s \in Small(n) |-> AddUp(f, g, s)]
    OBVIOUS
  <2> DEFINE h == [s \in Small(n + 1) |-> AddUp(f, g, s)]
  <2>2. n \in Nat /\ Small(n) \subseteq Small(n + 1)
    BY <1>1
  <2>3. \A s \in Small(n) : h[s] = g[s]
    BY <2>1, <2>2
  <2>4. ASSUME NEW s \in Small(n + 1), s # {} PROVE Rest(s) \in Small(n)
    <3>1. s \in SUBSET S /\ Cardinality(s) <= n + 1
      OBVIOUS
    <3> QED
      BY <2>2, <2>4, <3>1, RestOfSubset
  <2>5. ASSUME NEW s \in Small(n + 1) PROVE AddUp(f, g, s) = AddUp(f, h, s)
    <3> HIDE DEF Small, h
    <3>1. s # {} => h[Rest(s)] = g[Rest(s)]
      BY <2>3, <2>4
    <3> QED
      BY <3>1 DEF AddUp
  <2>6. h = [s \in Small(n + 1) |-> AddUp(f, h, s)]
    BY <2>5
  <2> HIDE DEF h, Small
  <2>7. \E k : k = [s \in Small(n + 1) |-> AddUp(f, k, s)]
    BY <2>6
  <2> QED
    BY <2>2, <2>7
<1>4. Good = Nat
  <2> HIDE DEF Small
  <2>1. Good \in SUBSET Nat
    OBVIOUS
  <2> HIDE DEF Good
  <2> QED
    BY <1>2, <1>3, <2>1, AllNumbers
<1>5. Cardinality(S) \in Good
  BY <1>4, FS_CardinalityType
<1>6. Small(Cardinality(S)) = SUBSET S
  BY <1>1
<1> QED
  BY <1>5, <1>6 DEF AddsUp

\* Functions that add up f over two finite sets agree on the subsets of both.
LEMMA SumsAgree ==
  ASSUME NEW f, NEW S, IsFiniteSet(S), NEW T \in SUBSET S, NEW g, NEW h,
         AddsUp(g, f, S), AddsUp(h, f, T)
  PROVE  \A s \in SUBSET T : g[s] = h[s]
<1> DEFINE G == {s \in SUBSET T : g[s] = h[s]}
<1>1. IsFiniteSet(T)
  BY FS_Subset
<1>2. ASSUME NEW s \in SUBSET T, \A x \in s : s \ {x} \in G PROVE g[s] = h[s]
  <2>1. g[s] = AddUp(f, g, s) /\ h[s] = AddUp(f, h, s)
    BY DEF AddsUp
  <2>2. s # {} => g[Rest(s)] = h[Rest(s)]
    BY <1>2 DEF Rest, One
  <2> QED
    BY <2>1, <2>2 DEF AddUp
<1>3. G \in SUBSET SUBSET T /\ \A s \in SUBSET T : (\A x \in s : s \ {x} \in G) => s \in G
  BY <1>2
<1> HIDE DEF G
<1>4. G = SUBSET T
  BY <1>1, <1>3, AllSubsets
<1> QED
  BY <1>4 DEF G

\* The sum over a finite set is that of the elements but one, and this one.
LEMMA SumUnfolds ==
  ASSUME NEW f, NEW S, IsFiniteSet(S)
  PROVE  SumFunctionOnSet(f, S) =
           IF S = {} THEN 0 ELSE f[One(S)] + SumFunctionOnSet(f, Rest(S))
<1> DEFINE T == Rest(S)
           g == CHOOSE k : AddsUp(k, f, S)
           h == CHOOSE k : AddsUp(k, f, T)
<1>1. \A R : SumFunctionOnSet(f, R) = (CHOOSE k : AddsUp(k, f, R))[R]
  BY DEF SumFunctionOnSet, FoldFunctionOnSet, MapThenFoldSet, AddsUp, AddUp, One, Rest
<1>2. T \in SUBSET S /\ IsFiniteSet(T)
  BY FS_Subset DEF Rest
<1>3. SumFunctionOnSet(f, S) = g[S] /\ SumFunctionOnSet(f, T) = h[T]
  BY <1>1
<1>4. AddsUp(g, f, S)
  BY SumsExist
<1>5. AddsUp(h, f, T)
  BY <1>2, SumsExist
<1> HIDE DEF g, h, T
<1>6. g[T] = h[T]
  BY <1>2, <1>4, <1>5, SumsAgree
<1>7. g[S] = AddUp(f, g, S)
  BY <1>4 DEF AddsUp
<1> QED
  BY <1>3, <1>6, <1>7 DEF AddUp, T

\* A sum of integers is one.
LEMMA SumType ==
  ASSUME NEW S, IsFiniteSet(S), NEW f, \A x \in S : f[x] \in Int
  PROVE  SumFunctionOnSet(f, S) \in Int
<1> DEFINE G == {s \in SUBSET S : SumFunctionOnSet(f, s) \in Int}
<1>1. ASSUME NEW s \in SUBSET S, \A x \in s : s \ {x} \in G PROVE SumFunctionOnSet(f, s) \in Int
  <2>1. IsFiniteSet(s)
    BY FS_Subset
  <2>2. SumFunctionOnSet(f, s) = IF s = {} THEN 0 ELSE f[One(s)] + SumFunctionOnSet(f, Rest(s))
    BY <2>1, SumUnfolds
  <2>3. s # {} => f[One(s)] \in Int /\ SumFunctionOnSet(f, Rest(s)) \in Int
    BY <1>1 DEF One, Rest
  <2> QED
    BY <2>2, <2>3
<1>2. G \in SUBSET SUBSET S /\ \A s \in SUBSET S : (\A x \in s : s \ {x} \in G) => s \in G
  BY <1>1
<1> HIDE DEF G
<1>3. G = SUBSET S
  BY <1>2, AllSubsets
<1> QED
  BY <1>3 DEF G

\* Any element can be taken out of a sum.
LEMMA SumWithout ==
  ASSUME NEW S, IsFiniteSet(S), NEW f, \A x \in S : f[x] \in Int, NEW y \in S
  PROVE  SumFunctionOnSet(f, S) = f[y] + SumFunctionOnSet(f, S \ {y})
<1> DEFINE Splits(s) == \A x \in s : SumFunctionOnSet(f, s) = f[x] + SumFunctionOnSet(f, s \ {x})
           G == {s \in SUBSET S : Splits(s)}
<1>1. \A s \in SUBSET S : IsFiniteSet(s) /\ SumFunctionOnSet(f, s) \in Int
  <2> SUFFICES ASSUME NEW s \in SUBSET S PROVE IsFiniteSet(s) /\ SumFunctionOnSet(f, s) \in Int
    OBVIOUS
  <2>1. IsFiniteSet(s)
    BY FS_Subset
  <2> QED
    BY <2>1, SumType
<1>2. ASSUME NEW s \in SUBSET S, \A x \in s : s \ {x} \in G, NEW x \in s
      PROVE  SumFunctionOnSet(f, s) = f[x] + SumFunctionOnSet(f, s \ {x})
  <2> DEFINE o == One(s)
  <2>1. o \in s /\ SumFunctionOnSet(f, s) = f[o] + SumFunctionOnSet(f, s \ {o})
    BY <1>1, SumUnfolds DEF One, Rest
  <2> HIDE DEF o
  <2>2. CASE x = o
    BY <2>1, <2>2
  <2>3. CASE x # o
    <3>1. x \in s \ {o} /\ o \in s \ {x}
      BY <2>1, <2>3
    <3>2. SumFunctionOnSet(f, s \ {o}) = f[x] + SumFunctionOnSet(f, (s \ {o}) \ {x})
      BY <1>2, <2>1, <3>1
    <3>3. SumFunctionOnSet(f, s \ {x}) = f[o] + SumFunctionOnSet(f, (s \ {x}) \ {o})
      BY <1>2, <3>1
    <3> DEFINE r == SumFunctionOnSet(f, (s \ {x}) \ {o})
    <3>4. (s \ {o}) \ {x} = (s \ {x}) \ {o} /\ (s \ {x}) \ {o} \in SUBSET S
      OBVIOUS
    <3>5. f[x] \in Int /\ f[o] \in Int /\ r \in Int
      BY <1>1, <2>1, <3>4
    <3>6. SumFunctionOnSet(f, s \ {o}) = f[x] + r /\ SumFunctionOnSet(f, s \ {x}) = f[o] + r
      BY <3>2, <3>3, <3>4
    <3> HIDE DEF r
    <3> QED
      BY <2>1, <3>5, <3>6
  <2> QED
    BY <2>2, <2>3
<1>3. G \in SUBSET SUBSET S /\ \A s \in SUBSET S : (\A x \in s : s \ {x} \in G) => s \in G
  BY <1>2
<1> HIDE DEF G
<1>4. G = SUBSET S
  BY <1>3, AllSubsets
<1>5. S \in G
  BY <1>4
<1> QED
  BY <1>5 DEF G

\* Sums are compared element by element.
LEMMA SumBound ==
  ASSUME NEW S, IsFiniteSet(S), NEW f, NEW g, NEW h,
         \A x \in S : f[x] \in Int /\ g[x] \in Int /\ h[x] \in Int /\ f[x] <= g[x] + h[x]
  PROVE  SumFunctionOnSet(f, S) <= SumFunctionOnSet(g, S) + SumFunctionOnSet(h, S)
<1> DEFINE Bounded(s) == SumFunctionOnSet(f, s) <= SumFunctionOnSet(g, s) + SumFunctionOnSet(h, s)
           G == {s \in SUBSET S : Bounded(s)}
<1>1. ASSUME NEW s \in SUBSET S, \A x \in s : s \ {x} \in G PROVE Bounded(s)
  <2>1. IsFiniteSet(s) /\ IsFiniteSet(Rest(s)) /\ Rest(s) \in SUBSET S
    BY FS_Subset DEF Rest
  <2>2. \A k : SumFunctionOnSet(k, s) = IF s = {} THEN 0 ELSE k[One(s)] + SumFunctionOnSet(k, Rest(s))
    BY <2>1, SumUnfolds
  <2>3. CASE s = {}
    BY <2>2, <2>3
  <2>4. CASE s # {}
    <3>1. One(s) \in s /\ Rest(s) \in G
      BY <1>1, <2>4 DEF One, Rest
    <3>2. /\ SumFunctionOnSet(f, Rest(s)) \in Int
          /\ SumFunctionOnSet(g, Rest(s)) \in Int
          /\ SumFunctionOnSet(h, Rest(s)) \in Int
      BY <2>1, SumType
    <3>3. /\ f[One(s)] \in Int /\ g[One(s)] \in Int /\ h[One(s)] \in Int
          /\ f[One(s)] <= g[One(s)] + h[One(s)]
      BY <3>1
    <3>4. SumFunctionOnSet(f, Rest(s)) <= SumFunctionOnSet(g, Rest(s)) + SumFunctionOnSet(h, Rest(s))
      BY <3>1
    <3>5. /\ SumFunctionOnSet(f, s) = f[One(s)] + SumFunctionOnSet(f, Rest(s))
          /\ SumFunctionOnSet(g, s) = g[One(s)] + SumFunctionOnSet(g, Rest(s))
          /\ SumFunctionOnSet(h, s) = h[One(s)] + SumFunctionOnSet(h, Rest(s))
      BY <2>2, <2>4
    <3> QED
      BY <3>2, <3>3, <3>4, <3>5
  <2> QED
    BY <2>3, <2>4
<1>2. G \in SUBSET SUBSET S /\ \A s \in SUBSET S : (\A x \in s : s \ {x} \in G) => s \in G
  BY <1>1
<1> HIDE DEF G
<1>3. G = SUBSET S
  BY <1>2, AllSubsets
<1>4. S \in G
  BY <1>3
<1> QED
  BY <1>4 DEF G

\* Elements that count nothing can be left out of a sum.
LEMMA SumOfCounted ==
  ASSUME NEW S, IsFiniteSet(S), NEW f, \A x \in S : f[x] \in Int,
         NEW V \in SUBSET S, \A x \in S \ V : f[x] = 0
  PROVE  SumFunctionOnSet(f, S) = SumFunctionOnSet(f, V)
<1> DEFINE Same(s) == SumFunctionOnSet(f, s) = SumFunctionOnSet(f, s \cap V)
           G == {s \in SUBSET S : Same(s)}
<1>1. ASSUME NEW s \in SUBSET S, \A x \in s : s \ {x} \in G PROVE Same(s)
  <2>1. CASE s = {}
    BY <2>1
  <2>2. CASE s # {}
    <3>1. PICK o \in s : TRUE
      BY <2>2
    <3>2. /\ IsFiniteSet(s) /\ IsFiniteSet(s \cap V) /\ IsFiniteSet((s \ {o}) \cap V)
          /\ \A x \in s : f[x] \in Int
      BY FS_Subset
    <3>3. SumFunctionOnSet(f, s) = f[o] + SumFunctionOnSet(f, s \ {o})
      BY <3>2, SumWithout
    <3>4. SumFunctionOnSet(f, s \ {o}) = SumFunctionOnSet(f, (s \ {o}) \cap V)
      BY <1>1
    <3>5. f[o] \in Int /\ SumFunctionOnSet(f, (s \ {o}) \cap V) \in Int
      BY <3>2, SumType
    <3>6. CASE o \in V
      <4>1. o \in s \cap V /\ (s \cap V) \ {o} = (s \ {o}) \cap V
        BY <3>6
      <4>2. SumFunctionOnSet(f, s \cap V) = f[o] + SumFunctionOnSet(f, (s \cap V) \ {o})
        BY <3>2, <4>1, SumWithout
      <4> QED
        BY <3>3, <3>4, <4>1, <4>2
    <3>7. CASE o \notin V
      <4>1. f[o] = 0 /\ s \cap V = (s \ {o}) \cap V
        BY <3>7
      <4>2. SumFunctionOnSet(f, s \cap V) = SumFunctionOnSet(f, (s \ {o}) \cap V)
        BY <4>1
      <4> HIDE DEF Same
      <4>3. SumFunctionOnSet(f, s) = SumFunctionOnSet(f, s \cap V)
        BY <3>3, <3>4, <3>5, <4>1, <4>2
      <4> QED
        BY <4>3 DEF Same
    <3> QED
      BY <3>6, <3>7
  <2> QED
    BY <2>1, <2>2
<1>2. G \in SUBSET SUBSET S /\ \A s \in SUBSET S : (\A x \in s : s \ {x} \in G) => s \in G
  BY <1>1
<1> HIDE DEF G
<1>3. G = SUBSET S
  BY <1>2, AllSubsets
<1>4. S \in G /\ S \cap V = V
  BY <1>3
<1> QED
  BY <1>4 DEF G

\* A sum is bounded by the number of its elements.
LEMMA SumOfBounded ==
  ASSUME NEW S, IsFiniteSet(S), NEW M \in Nat, NEW f, \A x \in S : f[x] \in 0 .. M
  PROVE  SumFunctionOnSet(f, S) \in 0 .. M * Cardinality(S)
<1> DEFINE G == {s \in SUBSET S : SumFunctionOnSet(f, s) \in 0 .. M * Cardinality(s)}
<1>1. ASSUME NEW s \in SUBSET S, \A x \in s : s \ {x} \in G
      PROVE  SumFunctionOnSet(f, s) \in 0 .. M * Cardinality(s)
  <2>1. IsFiniteSet(s)
    BY FS_Subset
  <2>2. SumFunctionOnSet(f, s) = IF s = {} THEN 0 ELSE f[One(s)] + SumFunctionOnSet(f, Rest(s))
    BY <2>1, SumUnfolds
  <2>3. CASE s = {}
    BY <2>2, <2>3, FS_EmptySet
  <2>4. CASE s # {}
    <3>1. /\ Cardinality(s) \in Nat \ {0} /\ Cardinality(Rest(s)) = Cardinality(s) - 1
          /\ One(s) \in s /\ Rest(s) \in G
      BY <1>1, <2>4, RestOfSubset DEF One, Rest
    <3>2. f[One(s)] \in 0 .. M /\ SumFunctionOnSet(f, Rest(s)) \in 0 .. M * Cardinality(Rest(s))
      BY <3>1
    <3>3. ASSUME NEW n \in Nat \ {0} PROVE M * (n - 1) + M = M * n /\ M * n \in Nat /\ M * (n - 1) \in Nat
      OBVIOUS
    <3>4. M * Cardinality(Rest(s)) + M = M * Cardinality(s)
          /\ M * Cardinality(s) \in Nat /\ M * Cardinality(Rest(s)) \in Nat
      BY <3>1, <3>3
    <3> QED
      BY <2>2, <2>4, <3>2, <3>4
  <2> QED
    BY <2>3, <2>4
<1>2. G \in SUBSET SUBSET S /\ \A s \in SUBSET S : (\A x \in s : s \ {x} \in G) => s \in G
  BY <1>1
<1> HIDE DEF G
<1>3. G = SUBSET S
  BY <1>2, AllSubsets
<1> QED
  BY <1>3 DEF G

-----------------------------------------------------------------------------
(* Types, and the totals of the interfaces.                                 *)

\* What interval i still holds of the interfaces.
Held(i) == [n \in Nics |-> IF tracker[i][n] = None THEN 0 ELSE tracker[i][n]]

\* The total of an interval is that of the values it tracks, and was read in the past.
TotalsHeld ==
  \A i \in Intervals :
    /\ netIoStats[i].bytes = SumFunctionOnSet(Held(i), Nics)
    /\ netIoStats[i].at # None => netIoStats[i].at <= clock

\* Only the last stage fills in the bandwidth.
NoBandwidthYet == (\A i \in Intervals : ~ Collecting(i, "reply")) => bandwidth = 0

TotalsInv == TypeOK /\ TotalsHeld /\ NoBandwidthYet

LEMMA NumberFacts ==
  /\ Time \subseteq Int /\ Bytes \subseteq Int /\ 0 \in Time /\ 0 \in Bytes
  /\ Zero \in Rate /\ None \notin Time /\ None \notin Bytes
  /\ \A t \in Time : t >= 0 /\ t <= MaxTime
  /\ \A b \in Bytes : b >= 0 /\ b <= MaxBytes
PROOF
  BY LimitAssumption, NoneIsNoReading DEF Time, Bytes, Zero, Rate

\* What is read now is a reading.
LEMMA NowIsReading ==
  ASSUME TypeOK, NEW c \in Counters
  PROVE  Now(c) \in Reading /\ counter[c] \in Bytes /\ clock \in Time
PROOF
  BY DEF TypeOK, Now, Reading

LEMMA TotalType == ASSUME TypeOK PROVE Total \in Nat
PROOF
  <1>1. Valid \in SUBSET Nics /\ IsFiniteSet(Valid)
    BY DeviceAssumption, FS_Subset DEF Valid
  <1>2. \A n \in Valid : counter[n] \in 0 .. MaxBytes
    BY <1>1, DistinctCounters DEF TypeOK, Bytes
  <1>3. Total \in 0 .. MaxBytes * Cardinality(Valid)
    BY <1>1, <1>2, SumOfBounded, LimitAssumption DEF Total
  <1> QED
    BY <1>3

\* Nothing held adds up to nothing.
LEMMA NothingHeld ==
  ASSUME NEW f, \A n \in Nics : f[n] = 0
  PROVE  SumFunctionOnSet(f, Nics) = 0
PROOF
  <1>1. IsFiniteSet(Nics) /\ Cardinality(Nics) \in Nat
    BY DeviceAssumption, FS_CardinalityType
  <1>2. SumFunctionOnSet(f, Nics) \in 0 .. 0 * Cardinality(Nics)
    BY <1>1, SumOfBounded
  <1> QED
    BY <1>1, <1>2

LEMMA InitTotals == Init => TotalsInv
PROOF
  <1> SUFFICES ASSUME Init PROVE TotalsInv
    OBVIOUS
  <1> USE NumberFacts, DistinctCounters, NoneIsNoReading DEF Init
  <1>1. clock \in Time /\ counter \in [Counters -> Bytes] /\ 1 \in Bytes
    BY LimitAssumption DEF Bytes
  <1>2. lastCpu \in [Intervals -> Reading \cup {None}]
    BY <1>1 DEF Now, Reading
  <1>3. fs \in [Disks -> [bytes : Bytes, at : Time \cup {None}, checked : Time \cup {None}]]
    BY <1>1
  <1>4. devices \in Machines /\ present \in SUBSET devices /\ plugs \in 0 .. MaxPlugs
    BY LimitAssumption
  <1>5. netIoStats \in [Intervals -> [bytes : Nat, at : Time \cup {None}]]
    BY DEF NoTotal
  <1>6. TypeOK
    BY <1>1, <1>2, <1>3, <1>4, <1>5 DEF TypeOK
  <1>7. TotalsHeld
    BY NothingHeld DEF TotalsHeld, NoTotal, Held
  <1> QED
    BY <1>6, <1>7 DEF TotalsInv, NoBandwidthYet

\* A step that leaves the interfaces and the time alone keeps the totals.
LEMMA TotalsKept ==
  ASSUME TotalsHeld, UNCHANGED <<clock, net>>
  PROVE  TotalsHeld'
PROOF
  <1>1. UNCHANGED <<clock, netIoStats, tracker>>
    BY DEF net
  <1>2. \A i \in Intervals : Held(i)' = Held(i)
    BY <1>1 DEF Held
  <1> QED
    BY <1>1, <1>2 DEF TotalsHeld

LEMMA ElapseTotals == TotalsInv /\ (Elapse \/ Plug) => TotalsInv'
PROOF
  <1> SUFFICES ASSUME TotalsInv, Elapse \/ Plug PROVE TotalsInv'
    OBVIOUS
  <1>1. UNCHANGED <<devices, run, lastCpu, disk, net, answer>>
    BY DEF Elapse, Plug
  <1>2. /\ counter \in [Counters -> Bytes] /\ clock \in Time /\ devices \in SUBSET Counters
        /\ plugs \in 0 .. MaxPlugs /\ present \in SUBSET devices
    BY MachineAssumption DEF TotalsInv, TypeOK
  <1>3. clock' \in Time /\ clock' >= clock
    BY <1>2, LimitAssumption DEF Elapse, Plug, Time
  <1>4. counter' \in [Counters -> Bytes]
    <2>1. CASE Elapse
      <3>1. \A c \in Counters : counter[c] < MaxBytes => counter[c] + 1 \in Bytes
        BY <1>2, LimitAssumption DEF Bytes
      <3> QED
        BY <1>2, <2>1, <3>1 DEF Elapse
    <2>2. CASE Plug
      BY <1>2, <2>2, NumberFacts DEF Plug
    <2> QED
      BY <2>1, <2>2
  <1>5. present' \in SUBSET devices /\ plugs' \in 0 .. MaxPlugs
    BY <1>2, LimitAssumption DEF Elapse, Plug
  <1>6. TypeOK'
    BY <1>1, <1>3, <1>4, <1>5 DEF TotalsInv, TypeOK, disk, net, answer
  <1>7. TotalsHeld'
    <2>1. UNCHANGED <<netIoStats, tracker>>
      BY <1>1 DEF net
    <2>2. \A i \in Intervals : Held(i)' = Held(i)
      BY <2>1 DEF Held
    <2>3. clock \in Int /\ clock' \in Int
          /\ \A i \in Intervals : netIoStats[i].at # None => netIoStats[i].at \in Int
      BY <1>2, <1>3, NumberFacts DEF TotalsInv, TypeOK
    <2>4. ASSUME NEW i \in Intervals, netIoStats[i].at # None PROVE netIoStats[i].at <= clock'
      BY <1>3, <2>3, <2>4 DEF TotalsInv, TotalsHeld
    <2> QED
      BY <2>1, <2>2, <2>4 DEF TotalsInv, TotalsHeld
  <1>8. NoBandwidthYet'
    BY <1>1 DEF TotalsInv, NoBandwidthYet, Collecting, answer
  <1> QED
    BY <1>6, <1>7, <1>8 DEF TotalsInv

LEMMA EndTotals == TotalsInv /\ End => TotalsInv'
PROOF
  <1> SUFFICES ASSUME TotalsInv, End PROVE TotalsInv'
    OBVIOUS
  <1> USE DEF End
  <1>1. TypeOK'
    BY NumberFacts DEF TotalsInv, TypeOK, Cleared, env, disk, net
  <1>2. TotalsHeld'
    BY TotalsKept DEF TotalsInv, env
  <1>3. NoBandwidthYet'
    BY DEF NoBandwidthYet
  <1> QED
    BY <1>1, <1>2, <1>3 DEF TotalsInv

LEMMA BeginTotals == ASSUME NEW i \in Intervals PROVE TotalsInv /\ Begin(i) => TotalsInv'
PROOF
  <1> SUFFICES ASSUME TotalsInv, Begin(i) PROVE TotalsInv'
    OBVIOUS
  <1> USE DEF Begin
  <1>1. TypeOK'
    BY DEF TotalsInv, TypeOK, env, disk, net, answer, Stages
  <1>2. TotalsHeld'
    BY TotalsKept DEF TotalsInv, env
  <1>3. NoBandwidthYet'
    BY NoneIsNoReading DEF TotalsInv, NoBandwidthYet, Collecting, answer, Stages
  <1> QED
    BY <1>1, <1>2, <1>3 DEF TotalsInv

LEMMA StutterTotals == TotalsInv /\ UNCHANGED vars => TotalsInv'
PROOF
  <1> SUFFICES ASSUME TotalsInv, UNCHANGED vars PROVE TotalsInv'
    OBVIOUS
  <1>1. UNCHANGED <<env, run, lastCpu, disk, net, answer>>
    BY DEF vars
  <1>2. TypeOK'
    BY <1>1 DEF TotalsInv, TypeOK, env, disk, net, answer
  <1>3. TotalsHeld'
    BY <1>1, TotalsKept DEF TotalsInv, env
  <1>4. NoBandwidthYet'
    BY <1>1 DEF TotalsInv, NoBandwidthYet, Collecting, answer
  <1> QED
    BY <1>2, <1>3, <1>4 DEF TotalsInv

\* A stage before the last leaves the bandwidth as it was.
LEMMA StageTotals ==
  ASSUME TotalsInv, NEW i \in Intervals, NEW g \in Stages \ {"reply"}, Collecting(i, g),
         bandwidth' \in {bandwidth, 0}
  PROVE  NoBandwidthYet'
PROOF
  <1>1. \A j \in Intervals : ~ Collecting(j, "reply")
    BY DEF Collecting
  <1>2. bandwidth = 0
    BY <1>1 DEF TotalsInv, NoBandwidthYet
  <1> QED
    BY <1>2 DEF NoBandwidthYet

LEMMA CpuTotals == ASSUME NEW i \in Intervals PROVE IInv /\ TotalsInv /\ Cpu(i) => TotalsInv'
PROOF
  <1> SUFFICES ASSUME IInv, TotalsInv, Cpu(i) PROVE TotalsInv'
    OBVIOUS
  <1>1. /\ UNCHANGED <<env, disk, net, bandwidth>> /\ run' = [interval |-> i, stage |-> "usage"]
        /\ Collecting(i, "cpu")
    BY DEF Cpu
  <1>2. TypeOK
    BY DEF TotalsInv
  <1>3. Now(CPU) \in Reading /\ counter[CPU] \in Bytes /\ clock \in Time
    BY <1>2, NowIsReading, DistinctCounters
  <1>4. lastCpu' \in [Intervals -> Reading \cup {None}]
    <2>1. lastCpu \in [Intervals -> Reading \cup {None}]
      BY <1>2 DEF TypeOK
    <2>2. \A j \in Intervals : lastCpu'[j] \in Reading \cup {None}
      BY <1>3, <2>1, CpuMoves
    <2>3. lastCpu' = [j \in Intervals |-> lastCpu'[j]]
      BY CpuMoves
    <2> QED
      BY <2>2, <2>3
  <1>5. shown' \in [Counters -> Rate]
    <2>1. shown \in [Counters -> Rate]
      BY <1>2 DEF TypeOK
    <2>2. CASE shown' = shown
      BY <2>1, <2>2
    <2>3. CASE shown' # shown
      <3>1. shown' = [shown EXCEPT ![CPU] = [bytes |-> counter[CPU] - CpuBase(i).bytes,
                                            ms |-> clock - CpuBase(i).at]]
        BY <2>3, CpuMoves
      <3>2. counter[CPU] - CpuBase(i).bytes \in Nat /\ clock - CpuBase(i).at \in Nat
        BY CpuBaseIsReading
      <3> QED
        BY <2>1, <3>1, <3>2 DEF Rate
    <2> QED
      BY <2>2, <2>3
  <1>6. TypeOK'
    BY <1>1, <1>2, <1>4, <1>5 DEF TypeOK, env, disk, net, Stages
  <1>7. TotalsHeld'
    BY <1>1, TotalsKept DEF TotalsInv, env
  <1>8. NoBandwidthYet'
    BY <1>1, StageTotals DEF Stages
  <1> QED
    BY <1>6, <1>7, <1>8 DEF TotalsInv

LEMMA UsageTotals == ASSUME NEW i \in Intervals PROVE TotalsInv /\ Usage(i) => TotalsInv'
PROOF
  <1> SUFFICES ASSUME TotalsInv, Usage(i) PROVE TotalsInv'
    OBVIOUS
  <1> PICK failed \in SUBSET UsageDue, read \in SUBSET UsageDue :
             /\ fs' = [d \in Disks |-> IF d \in read THEN Read(d, failed) ELSE fs[d]]
             /\ \/ /\ read = UsageDue
                   /\ run' = [interval |-> i, stage |-> "io"]
                   /\ lastUsage' = UsageNoted
                   /\ UNCHANGED answer
                \/ /\ run' = None
                   /\ shown' = Cleared
                   /\ bandwidth' = 0
                   /\ UNCHANGED lastUsage
    BY DEF Usage
  <1>1. UNCHANGED <<env, lastCpu, fsNames, diskPrev, net>> /\ Collecting(i, "usage")
    BY DEF Usage
  <1>2. TypeOK /\ clock \in Time
    BY DEF TotalsInv, TypeOK
  <1>3. fs' \in [Disks -> [bytes : Bytes, at : Time \cup {None}, checked : Time \cup {None}]]
    <2>1. ASSUME NEW d \in Disks
          PROVE  Read(d, failed) \in [bytes : Bytes, at : Time \cup {None}, checked : Time \cup {None}]
      BY <1>2, NumberFacts DEF TypeOK, Read
    <2> QED
      BY <1>2, <2>1 DEF TypeOK
  <1>4. lastUsage' \in Time \cup {None}
    BY <1>2 DEF TypeOK, UsageNoted
  <1>5. shown' \in [Counters -> Rate] /\ bandwidth' \in Nat /\ bandwidth' \in {bandwidth, 0}
    BY <1>2, NumberFacts DEF TypeOK, answer, Cleared
  <1>6. run' \in [interval : Intervals, stage : Stages] \cup {None}
    BY DEF Stages
  <1>7. TypeOK'
    BY <1>1, <1>2, <1>3, <1>4, <1>5, <1>6 DEF TypeOK, env, net
  <1>8. TotalsHeld'
    BY <1>1, TotalsKept DEF TotalsInv, env
  <1>9. NoBandwidthYet'
    BY <1>1, <1>5, StageTotals DEF Stages
  <1> QED
    BY <1>7, <1>8, <1>9 DEF TotalsInv

LEMMA DiskIoTotals == ASSUME NEW i \in Intervals PROVE TotalsInv /\ DiskIo(i) => TotalsInv'
PROOF
  <1> SUFFICES ASSUME TotalsInv, DiskIo(i) PROVE TotalsInv'
    OBVIOUS
  <1>1. /\ UNCHANGED <<env, lastCpu, net, bandwidth>> /\ run' = [interval |-> i, stage |-> "net"]
        /\ Collecting(i, "io") /\ lastUsage' = lastUsage
    BY DEF DiskIo, disk
  <1>2. TypeOK
    BY DEF TotalsInv
  <1>3. /\ clock \in Time /\ \A d \in Disks : counter[d] \in Bytes /\ Now(d) \in Reading
        /\ fs \in [Disks -> [bytes : Bytes, at : Time \cup {None}, checked : Time \cup {None}]]
        /\ fsNames \in SUBSET Disks /\ shown \in [Counters -> Rate]
        /\ diskPrev \in [Intervals -> [Disks -> Reading \cup {None}]]
    BY <1>2, NowIsReading, DistinctCounters DEF TypeOK
  <1>4. CASE UNCHANGED <<disk, shown>>
    <2>1. TypeOK'
      BY <1>1, <1>2, <1>4 DEF TypeOK, env, disk, net, Stages
    <2> QED
      BY <1>1, <2>1, TotalsKept, StageTotals DEF TotalsInv, env, Stages
  <1>5. CASE ~ UNCHANGED <<disk, shown>>
    <2> DEFINE row == [d \in Disks |-> IF d \in IoCounters THEN Now(d) ELSE diskPrev[i][d]]
    <2>1. /\ \E moved : fs' = [d \in Disks |-> IF d \in moved
                                 THEN [fs[d] EXCEPT !.bytes = counter[d], !.at = clock]
                                 ELSE fs[d]]
          /\ fsNames' = ReadNext(i)
          /\ diskPrev' = [diskPrev EXCEPT ![i] = row]
          /\ shown' = [c \in Counters |-> IF c \in Disks THEN RateAfter(i, c) ELSE shown[c]]
      BY <1>5 DEF DiskIo
    <2>2. fs' \in [Disks -> [bytes : Bytes, at : Time \cup {None}, checked : Time \cup {None}]]
      <3>1. \A d \in Disks : [fs[d] EXCEPT !.bytes = counter[d], !.at = clock]
                               \in [bytes : Bytes, at : Time \cup {None}, checked : Time \cup {None}]
        BY <1>3
      <3> QED
        BY <1>3, <2>1, <3>1
    <2>3. fsNames' \in SUBSET Disks
      BY <1>3, <2>1 DEF ReadNext, IoCounters
    <2>4. diskPrev' \in [Intervals -> [Disks -> Reading \cup {None}]]
      <3>1. row \in [Disks -> Reading \cup {None}]
        BY <1>3
      <3> HIDE DEF row
      <3> QED
        BY <1>3, <2>1, <3>1
    <2>5. shown' \in [Counters -> Rate]
      <3>1. ASSUME NEW d \in Disks, Measured(i, d) PROVE DiskRate(i, d) \in Rate
        <4>1. DiskMs(i, d) >= MinElapsed /\ ~ (counter[d] < DiskBase(i, d).bytes)
          BY <3>1 DEF Measured, Measurable, CounterReset
        <4>2. DiskBase(i, d).bytes \in Bytes /\ DiskBase(i, d).at \in Time
          BY <1>3 DEF DiskBase, Reading
        <4>3. /\ counter[d] \in Int /\ DiskBase(i, d).bytes \in Int
              /\ clock \in Int /\ DiskBase(i, d).at \in Int /\ MinElapsed \in Nat
          BY <1>3, <4>2, NumberFacts, LimitAssumption
        <4>4. counter[d] - DiskBase(i, d).bytes \in Nat
          BY <4>1, <4>3
        <4>5. DiskMs(i, d) \in Nat
          BY <4>1, <4>3 DEF DiskMs
        <4> QED
          BY <4>4, <4>5 DEF DiskRate, Rate
      <3>2. \A d \in Disks : d \in Counters /\ shown[d] \in Rate
        BY <1>3, DistinctCounters
      <3>3. \A d \in Disks : RateAfter(i, d) \in Rate
        BY <3>1, <3>2, NumberFacts DEF RateAfter
      <3> QED
        BY <1>3, <2>1, <3>3
    <2>6. TypeOK'
      BY <1>1, <1>2, <2>2, <2>3, <2>4, <2>5 DEF TypeOK, env, net, Stages
    <2> QED
      BY <1>1, <2>6, TotalsKept, StageTotals DEF TotalsInv, env, Stages
  <1> QED
    BY <1>4, <1>5

\* A quotient of naturals, rounded down.
LEMMA QuotientBounds ==
  ASSUME NEW r \in Nat, NEW m \in Nat \ {0}
  PROVE  /\ r \div m \in Nat
         /\ (r \div m) * m <= r
         /\ \A l \in Nat : l * m <= r => l <= r \div m
PROOF
  <1>1. r \div m \in Nat /\ (r \div m) * m <= r /\ r < (r \div m) * m + m
    BY Z3
  <1> DEFINE q == r \div m
  <1>2. q \in Nat /\ r < q * m + m
    BY <1>1
  <1> HIDE DEF q
  <1>3. ASSUME NEW l \in Nat, l * m <= r, q < l PROVE FALSE
    <2>1. q + 1 <= l
      BY <1>2, <1>3
    <2>2. (q + 1) * m <= l * m
      BY <1>2, <2>1
    <2>3. (q + 1) * m = q * m + m
      BY <1>2
    <2> QED
      BY <1>2, <1>3, <2>2, <2>3
  <1> QED
    BY <1>1, <1>2, <1>3 DEF q

\* The rates of a reading of the interfaces are never negative.
LEMMA NetRates ==
  ASSUME TotalsInv, NEW i \in Intervals
  PROVE  NetMs(i) \in Nat /\ NetMs(i) <= MaxTime /\ Bandwidth(i) \in Nat
         /\ \A n \in Nics : NicRate(i, n) \in Rate
PROOF
  <1>1. /\ TypeOK /\ clock \in Time /\ netIoStats[i].at \in Time \cup {None}
        /\ netIoStats[i].bytes \in Nat
        /\ \A n \in Nics : counter[n] \in Bytes /\ tracker[i][n] \in Bytes \cup {None}
    BY DistinctCounters DEF TotalsInv, TypeOK
  <1>2. NetMs(i) \in Nat /\ NetMs(i) <= MaxTime
    <2>1. CASE netIoStats[i].at = None
      BY <2>1, LimitAssumption DEF NetMs
    <2>2. CASE netIoStats[i].at # None
      <3>1. netIoStats[i].at <= clock /\ netIoStats[i].at \in Time
        BY <1>1, <2>2 DEF TotalsInv, TotalsHeld
      <3> QED
        BY <1>1, <2>2, <3>1, LimitAssumption DEF NetMs, Time
    <2> QED
      BY <2>1, <2>2
  <1>3. Bandwidth(i) \in Nat
    <2>1. /\ Total - netIoStats[i].bytes \in Int /\ PerSecond \in Nat
          /\ Wrap \in Nat \ {0}
      BY <1>1, TotalType, LimitAssumption
    <2> DEFINE product == (Total - netIoStats[i].bytes) * PerSecond
    <2>2. product \in Int
      BY <2>1
    <2> HIDE DEF product
    <2>3. product % Wrap \in Nat
      BY <2>1, <2>2
    <2>4. NetMs(i) # 0 => (product % Wrap) \div NetMs(i) \in Nat
      BY <1>2, <2>3, QuotientBounds
    <2> QED
      BY <2>4 DEF product, Bandwidth
  <1>5. ASSUME NEW n \in Nics PROVE NicRate(i, n) \in Rate
    <2>1. CASE NetMs(i) = 0 \/ tracker[i][n] = None
      BY <2>1, NumberFacts DEF NicRate
    <2>2. CASE ~ (NetMs(i) = 0 \/ tracker[i][n] = None)
      <3>1. counter[n] \in Nat /\ tracker[i][n] \in Nat
        BY <1>1, <2>2, LimitAssumption DEF Bytes
      <3> QED
        BY <1>2, <2>2, <3>1 DEF NicRate, Rate
    <2> QED
      BY <2>1, <2>2
  <1> QED
    BY <1>2, <1>3, <1>5

\* What interval i holds after it has read the valid interfaces adds up to their total.
LEMMA HeldAfterReading ==
  ASSUME TypeOK, NEW f, f = [n \in Nics |-> IF n \in Valid THEN counter[n] ELSE 0]
  PROVE  SumFunctionOnSet(f, Nics) = Total
PROOF
  <1>1. IsFiniteSet(Nics) /\ Valid \in SUBSET Nics /\ IsFiniteSet(Valid)
    BY DeviceAssumption, FS_Subset DEF Valid
  <1>2. \A n \in Nics : counter[n] \in Int /\ f[n] \in Int
    BY NumberFacts, DistinctCounters DEF TypeOK
  <1>3. SumFunctionOnSet(f, Nics) = SumFunctionOnSet(f, Valid)
    BY <1>1, <1>2, SumOfCounted
  <1> DEFINE none == [n \in Nics |-> 0]
  <1>4. SumFunctionOnSet(none, Valid) = 0
    <2>1. SumFunctionOnSet(none, Nics) = 0
      BY NothingHeld
    <2>2. SumFunctionOnSet(none, Nics) = SumFunctionOnSet(none, Valid)
      BY <1>1, SumOfCounted
    <2> QED
      BY <2>1, <2>2
  <1>5. \A n \in Valid : /\ f[n] \in Int /\ counter[n] \in Int /\ none[n] \in Int
                         /\ f[n] <= counter[n] + none[n] /\ counter[n] <= f[n] + none[n]
    BY <1>1, <1>2
  <1> HIDE DEF none
  <1>6. SumFunctionOnSet(f, Valid) <= SumFunctionOnSet(counter, Valid) + SumFunctionOnSet(none, Valid)
    BY <1>1, <1>5, SumBound
  <1>7. SumFunctionOnSet(counter, Valid) <= SumFunctionOnSet(f, Valid) + SumFunctionOnSet(none, Valid)
    BY <1>1, <1>5, SumBound
  <1>8. SumFunctionOnSet(f, Valid) \in Int /\ SumFunctionOnSet(counter, Valid) \in Int
    BY <1>1, <1>5, SumType
  <1> QED
    BY <1>3, <1>4, <1>6, <1>7, <1>8 DEF Total

LEMMA NetTotals == ASSUME NEW i \in Intervals PROVE TotalsInv /\ Net(i) => TotalsInv'
PROOF
  <1> SUFFICES ASSUME TotalsInv, Net(i) PROVE TotalsInv'
    OBVIOUS
  <1>1. /\ UNCHANGED <<env, lastCpu, disk>> /\ run' = [interval |-> i, stage |-> "reply"]
    BY DEF Net
  <1>2. /\ TypeOK /\ clock \in Time /\ shown \in [Counters -> Rate]
        /\ netIoStats \in [Intervals -> [bytes : Nat, at : Time \cup {None}]]
        /\ tracker \in [Intervals -> [Nics -> Bytes \cup {None}]]
        /\ \A n \in Nics : counter[n] \in Bytes
    BY DistinctCounters DEF TotalsInv, TypeOK
  <1>3. NoBandwidthYet'
    <2>1. Collecting(i, "reply")'
      BY <1>1 DEF Collecting
    <2> QED
      BY <2>1 DEF NoBandwidthYet
  <1>4. CASE UNCHANGED <<net, answer>>
    <2>1. TypeOK'
      BY <1>1, <1>2, <1>4 DEF TypeOK, env, disk, net, answer, Stages
    <2> QED
      BY <1>1, <1>3, <1>4, <2>1, TotalsKept DEF TotalsInv, env
  <1>5. CASE ~ UNCHANGED <<net, answer>>
    <2>1. shown' = [c \in Counters |-> IF c \in Valid THEN NicRate(i, c) ELSE shown[c]]
      BY <1>5 DEF Net
    <2>2. shown' \in [Counters -> Rate]
      <3>1. \A c \in Valid : NicRate(i, c) \in Rate
        BY NetRates DEF Valid
      <3> QED
        BY <1>2, <2>1, <3>1
    <2>3. CASE /\ bandwidth' = 0
               /\ netIoStats' = [j \in Intervals |-> NoTotal]
               /\ tracker' = [j \in Intervals |-> [n \in Nics |-> None]]
      <3>1. /\ netIoStats' \in [Intervals -> [bytes : Nat, at : Time \cup {None}]]
            /\ tracker' \in [Intervals -> [Nics -> Bytes \cup {None}]]
            /\ bandwidth' \in Nat
        BY <2>3, NumberFacts DEF NoTotal
      <3>2. TypeOK'
        BY <1>1, <1>2, <2>2, <3>1 DEF TypeOK, env, disk, Stages
      <3>3. ASSUME NEW j \in Intervals
            PROVE  netIoStats'[j].bytes = SumFunctionOnSet(Held(j)', Nics) /\ netIoStats'[j].at = None
        <4> DEFINE f == Held(j)'
        <4>1. netIoStats'[j].bytes = 0 /\ netIoStats'[j].at = None /\ \A n \in Nics : f[n] = 0
          BY <2>3 DEF NoTotal, Held
        <4> HIDE DEF f
        <4>2. SumFunctionOnSet(f, Nics) = 0
          BY <4>1, NothingHeld
        <4> QED
          BY <4>1, <4>2 DEF f
      <3>4. TotalsHeld'
        BY <3>3 DEF TotalsHeld
      <3> QED
        BY <1>3, <3>2, <3>4 DEF TotalsInv
    <2>4. CASE /\ bandwidth' = Bandwidth(i)
               /\ netIoStats' = [netIoStats EXCEPT ![i] = [bytes |-> Total, at |-> clock]]
               /\ tracker' = [tracker EXCEPT ![i] = [n \in Nics |->
                                IF n \in Valid THEN counter[n] ELSE None]]
      <3>1. netIoStats' \in [Intervals -> [bytes : Nat, at : Time \cup {None}]]
        BY <1>2, <2>4, TotalType
      <3>2. tracker' \in [Intervals -> [Nics -> Bytes \cup {None}]]
        BY <1>2, <2>4
      <3>3. bandwidth' \in Nat
        BY <2>4, NetRates
      <3>4. TypeOK'
        BY <1>1, <1>2, <2>2, <3>1, <3>2, <3>3 DEF TypeOK, env, disk, Stages
      <3>5. netIoStats'[i].bytes = SumFunctionOnSet(Held(i)', Nics) /\ netIoStats'[i].at = clock
        <4> DEFINE f == Held(i)'
        <4>1. f = [n \in Nics |-> IF n \in Valid THEN counter[n] ELSE 0]
          BY <1>2, <2>4, NumberFacts DEF Held
        <4> HIDE DEF f
        <4>2. SumFunctionOnSet(f, Nics) = Total
          BY <1>2, <4>1, HeldAfterReading
        <4> QED
          BY <1>2, <2>4, <4>2 DEF f
      <3>6. ASSUME NEW j \in Intervals, j # i
            PROVE  netIoStats'[j] = netIoStats[j] /\ Held(j)' = Held(j)
        BY <1>2, <2>4, <3>6 DEF Held
      <3>7. clock' = clock /\ clock \in Int
        BY <1>1, <1>2, NumberFacts DEF env
      <3>8. TotalsHeld'
        <4>1. ASSUME NEW j \in Intervals
              PROVE  /\ netIoStats'[j].bytes = SumFunctionOnSet(Held(j)', Nics)
                     /\ netIoStats'[j].at # None => netIoStats'[j].at <= clock'
          <5>1. CASE j = i
            BY <3>5, <3>7, <5>1
          <5>2. CASE j # i
            BY <3>6, <3>7, <5>2 DEF TotalsInv, TotalsHeld
          <5> QED
            BY <5>1, <5>2
        <4> QED
          BY <4>1 DEF TotalsHeld
      <3> QED
        BY <1>3, <3>4, <3>8 DEF TotalsInv
    <2> QED
      BY <1>5, <2>3, <2>4 DEF Net
  <1> QED
    BY <1>4, <1>5

LEMMA SpecTotals == Spec => []TotalsInv
PROOF
  <1>1. IInv /\ TotalsInv /\ [Next]_vars => TotalsInv'
    BY ElapseTotals, EndTotals, BeginTotals, StutterTotals, CpuTotals, UsageTotals, DiskIoTotals,
       NetTotals
    DEF Next
  <1> QED
    BY <1>1, InitTotals, SpecIInv, PTL DEF Spec

(***************************************************************************)
(* The clock, the counters, the baselines of every manager and the answer  *)
(* keep their types: above all, no rate has a negative number of bytes or  *)
(* milliseconds, whatever counters are reset and devices come and go.      *)
(***************************************************************************)
THEOREM RatesTypeCorrect == Spec => []TypeOK
PROOF
  <1>1. TotalsInv => TypeOK
    BY DEF TotalsInv
  <1> QED
    BY <1>1, SpecTotals, PTL

-----------------------------------------------------------------------------
(* The bandwidth.                                                           *)

\* What an interface has counted since the last reading makes up for what is held of it.
LEMMA CountedIsEnough ==
  ASSUME TotalsInv, NEW i \in Intervals
  PROVE  /\ Counted(i) \in Nat
         /\ Total - netIoStats[i].bytes <= Counted(i)
         /\ netIoStats[i].bytes \in 0 .. MaxBytes * Cardinality(Nics)
PROOF
  <1> DEFINE counted == [n \in Nics |-> IF tracker[i][n] = None
                                          THEN counter[n]
                                          ELSE Promise!Since([bytes |-> tracker[i][n]], counter[n])]
             held == Held(i)
  <1>1. /\ IsFiniteSet(Nics) /\ Valid \in SUBSET Nics /\ IsFiniteSet(Valid)
        /\ Cardinality(Valid) \in Nat /\ Cardinality(Nics) \in Nat
    BY DeviceAssumption, FS_Subset, FS_CardinalityType DEF Valid
  <1>2. \A n \in Nics : counter[n] \in Bytes /\ tracker[i][n] \in Bytes \cup {None}
    BY DistinctCounters DEF TotalsInv, TypeOK
  <1>3. ASSUME NEW n \in Nics
        PROVE  /\ held[n] \in 0 .. MaxBytes /\ counted[n] \in 0 .. MaxBytes
               /\ counter[n] \in Int /\ counter[n] <= counted[n] + held[n]
    <2>1. CASE tracker[i][n] = None
      BY <1>2, <2>1, LimitAssumption DEF Held, Bytes
    <2>2. CASE tracker[i][n] # None
      <3>1. counter[n] \in Bytes /\ tracker[i][n] \in Bytes
        BY <1>2, <2>2
      <3> QED
        BY <2>2, <3>1, LimitAssumption DEF Held, Bytes, Promise!Since
    <2> QED
      BY <2>1, <2>2
  <1>4. Counted(i) = SumFunctionOnSet(counted, Valid)
    BY DEF Counted
  <1>5. netIoStats[i].bytes = SumFunctionOnSet(held, Nics)
    BY DEF TotalsInv, TotalsHeld
  <1> HIDE DEF counted, held
  <1>6. /\ SumFunctionOnSet(counted, Valid) \in 0 .. MaxBytes * Cardinality(Valid)
        /\ SumFunctionOnSet(held, Nics) \in 0 .. MaxBytes * Cardinality(Nics)
        /\ SumFunctionOnSet(held, Valid) \in Int
        /\ SumFunctionOnSet(counter, Valid) \in Int
    BY <1>1, <1>3, SumOfBounded, SumType, LimitAssumption
  <1>7. SumFunctionOnSet(counter, Valid)
          <= SumFunctionOnSet(counted, Valid) + SumFunctionOnSet(held, Valid)
    BY <1>1, <1>3, SumBound
  <1>8. SumFunctionOnSet(held, Valid) <= SumFunctionOnSet(held, Nics)
    <2> DEFINE some == [n \in Nics |-> IF n \in Valid THEN held[n] ELSE 0]
               none == [n \in Nics |-> 0]
    <2>1. \A n \in Nics : /\ some[n] \in Int /\ held[n] \in Int /\ none[n] \in Int
                          /\ some[n] <= held[n] + none[n]
      BY <1>3
    <2>2. \A n \in Valid : /\ some[n] \in Int /\ held[n] \in Int /\ none[n] \in Int
                           /\ held[n] <= some[n] + none[n]
      BY <1>1, <1>3
    <2>3. (\A n \in Nics \ Valid : some[n] = 0) /\ \A n \in Nics : none[n] = 0
      OBVIOUS
    <2> HIDE DEF some, none
    <2>4. SumFunctionOnSet(some, Nics) <= SumFunctionOnSet(held, Nics) + SumFunctionOnSet(none, Nics)
      BY <1>1, <2>1, SumBound
    <2>5. SumFunctionOnSet(held, Valid) <= SumFunctionOnSet(some, Valid) + SumFunctionOnSet(none, Valid)
      BY <1>1, <2>2, SumBound
    <2>6. SumFunctionOnSet(some, Nics) = SumFunctionOnSet(some, Valid)
      BY <1>1, <2>1, <2>3, SumOfCounted
    <2>7. SumFunctionOnSet(none, Nics) = 0 /\ SumFunctionOnSet(none, Nics) = SumFunctionOnSet(none, Valid)
      BY <1>1, <2>1, <2>3, NothingHeld, SumOfCounted
    <2>8. SumFunctionOnSet(some, Valid) \in Int
      BY <1>1, <2>2, SumType
    <2> QED
      BY <1>6, <2>4, <2>5, <2>6, <2>7, <2>8
  <1>9. MaxBytes * Cardinality(Valid) \in Nat /\ MaxBytes * Cardinality(Nics) \in Nat
    BY <1>1, LimitAssumption
  <1> QED
    BY <1>4, <1>5, <1>6, <1>7, <1>8, <1>9 DEF Total

\* The remainder of a number that is not negative is not above it; the unsigned
\* difference of a smaller and a larger total lies close to the limit.
LEMMA UnsignedDifference ==
  ASSUME NEW w \in Nat \ {0}, NEW d \in Int, - w <= d
  PROVE  (d >= 0 => d % w <= d) /\ (d < 0 => d % w = w + d)
PROOF
  <1>1. d >= 0 => d % w <= d
    OBVIOUS
  <1>2. d < 0 => d % w = w + d
    OBVIOUS
  <1> QED
    BY <1>1, <1>2

\* What is reported per second, when it is not above the limit of l.
LEMMA PerSecondBound ==
  ASSUME NEW w \in Nat \ {0}, NEW p \in Nat \ {0}, NEW m \in Nat \ {0}, NEW l \in Nat,
         NEW base \in Nat, NEW total \in Nat, NEW counted \in Nat,
         total - base <= counted,
         p * base + m * (l + 1) <= w,
         (((total - base) * p) % w) \div m <= l
  PROVE  ((((total - base) * p) % w) \div m) * m <= p * counted
PROOF
  <1> DEFINE x == (total - base) * p
             r == x % w
  <1>1. x \in Int /\ p * base \in Nat /\ m * (l + 1) \in Nat /\ p * counted \in Nat
    OBVIOUS
  <1>2. x <= p * counted
    <2>1. p * (counted - (total - base)) >= 0
      OBVIOUS
    <2>2. p * (counted - (total - base)) = p * counted - x
      OBVIOUS
    <2> QED
      BY <1>1, <2>1, <2>2
  <1>3. - (p * base) <= x
    <2>1. x = p * total - p * base /\ p * total \in Nat
      OBVIOUS
    <2> QED
      BY <1>1, <2>1
  <1> HIDE DEF x
  <1>4. - w <= x
    BY <1>1, <1>3
  <1>5. r \in Nat
    BY <1>1
  <1>6. (x >= 0 => r <= x) /\ (x < 0 => r = w + x)
    BY <1>1, <1>4, UnsignedDifference
  <1> HIDE DEF r
  <1>7. CASE x >= 0
    <2>1. (r \div m) * m <= r /\ r \div m \in Nat
      BY <1>5, QuotientBounds
    <2>2. (r \div m) * m \in Int
      BY <2>1
    <2> QED
      BY <1>1, <1>2, <1>5, <1>6, <1>7, <2>1, <2>2 DEF r, x
  <1>8. CASE x < 0
    <2>1. (l + 1) * m <= r
      <3>1. (l + 1) * m = m * (l + 1)
        OBVIOUS
      <3> QED
        BY <1>1, <1>3, <1>6, <1>8, <3>1
    <2>2. l + 1 <= r \div m /\ r \div m \in Nat
      BY <1>5, <2>1, QuotientBounds
    <2>3. r \div m <= l
      BY DEF r, x
    <2> QED
      BY <2>2, <2>3
  <1> QED
    BY <1>1, <1>7, <1>8

(***************************************************************************)
(* No bandwidth is reported beyond what the interfaces have counted since  *)
(* the last reading for the interval, for any interfaces, intervals,       *)
(* filters and limits, when the total held and the time since leave the    *)
(* product of computeBytesPerSecond room for the limit (ReadLately).       *)
(***************************************************************************)
THEOREM BandwidthIsCounted == Spec => BandwidthIsTraffic
PROOF
  <1> DEFINE Bounded == \A i \in Intervals : Collecting(i, "net") /\ ReadLately(i) =>
                          bandwidth' * NetMs(i) <= PerSecond * Counted(i)
  <1>1. TotalsInv /\ [Next]_vars => [Bounded]_vars
    <2> SUFFICES ASSUME TotalsInv, Next, NEW i \in Intervals, Collecting(i, "net"), ReadLately(i)
                 PROVE  bandwidth' * NetMs(i) <= PerSecond * Counted(i)
      OBVIOUS
    <2>1. Counted(i) \in Nat /\ Total - netIoStats[i].bytes <= Counted(i)
      BY CountedIsEnough
    <2>2. NetMs(i) \in Nat /\ PerSecond \in Nat \ {0} /\ PerSecond * Counted(i) \in Nat
      BY <2>1, NetRates, LimitAssumption
    <2>3. CASE bandwidth' = 0
      BY <2>2, <2>3
    <2>4. bandwidth = 0
      BY NoneIsNoReading DEF TotalsInv, NoBandwidthYet, Collecting, Stages
    <2>5. End \/ Net(i)
      BY NoneIsNoReading
      DEF Next, Elapse, Plug, Begin, Cpu, Usage, DiskIo, Net, Collecting, Stages
    <2>6. CASE bandwidth' # 0
      <3>1. bandwidth' = Bandwidth(i) /\ ~ InvalidBandwidth(i)
        BY <2>4, <2>5, <2>6 DEF End, Net, answer
      <3>2. NetMs(i) \in Nat \ {0}
        BY <2>2, <2>6, <3>1 DEF Bandwidth
      <3>3. Bandwidth(i) = (((Total - netIoStats[i].bytes) * PerSecond) % Wrap) \div NetMs(i)
        BY <3>2 DEF Bandwidth
      <3>4. Total \in Nat /\ netIoStats[i].bytes \in Nat
        BY TotalType DEF TotalsInv, TypeOK
      <3>5. Bandwidth(i) \in Nat /\ Bandwidth(i) <= MaxNetRate
        BY <3>1, NetRates, LimitAssumption DEF InvalidBandwidth
      <3>6. PerSecond * netIoStats[i].bytes + NetMs(i) * (MaxNetRate + 1) <= Wrap
        BY DEF ReadLately
      <3>7. /\ (((Total - netIoStats[i].bytes) * PerSecond) % Wrap) \div NetMs(i) <= MaxNetRate
            /\ MaxNetRate \in Nat /\ Wrap \in Nat \ {0}
        BY <3>3, <3>5, LimitAssumption
      <3>8. ((((Total - netIoStats[i].bytes) * PerSecond) % Wrap) \div NetMs(i)) * NetMs(i)
               <= PerSecond * Counted(i)
        BY <2>1, <2>2, <3>2, <3>4, <3>6, <3>7, PerSecondBound, Zenon
      <3> QED
        BY <3>1, <3>3, <3>8
    <2> QED
      BY <2>3, <2>6
  <1> QED
    BY <1>1, SpecTotals, PTL DEF Spec, BandwidthIsTraffic

=============================================================================
