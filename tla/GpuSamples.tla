----------------------------- MODULE GpuSamples -----------------------------
(***************************************************************************)
(* The samples of the GPUs and the averages that are reported of them.     *)
(*                                                                         *)
(* A collector adds what it reads to the sums of an entry of GpuDataMap    *)
(* and counts it.  GetCurrentData(key) reports for each entry the average  *)
(* of what was added since the last report with that key, and the average  *)
(* calculated last, for whatever key, when nothing was added; an entry     *)
(* without temperature and memory in use is then reported as idle.         *)
(*                                                                         *)
(* nvtop does not name its GPUs uniquely nor keep their order, so its      *)
(* samples are matched to the entries "n0", "n1", ... by position and by   *)
(* name.  The sums are represented by the GPUs that were sampled, in       *)
(* order; the entries of other sources are found by an id of the GPU.      *)
(***************************************************************************)
EXTENDS FiniteSets, Naturals, Sequences

CONSTANTS
  GpuMachines, \* [nvtop: the names of the GPUs nvtop may show, others: the ids of the GPUs
              \*  of other sources, keys: the cache keys that are asked for]
  Others,     \* all ids
  Keys,       \* all cache keys
  MaxSlots,   \* at least the GPUs of each machine
  MaxSamples  \* bound on the samples of an entry

VARIABLES
  gpus,      \* this machine's GPUs
  complete,  \* the first answer of nvtop showed all of them
  samples,   \* samples[e]: the GPUs whose values were added to entry e of GpuDataMap
  shown,     \* shown[e]: e has a temperature or memory in use
  answer,    \* the answer of nvtop: what is left to match, the entries it has used
  snapshot,  \* lastSnapshots[key][e]: its count
  average,   \* lastAvgData[e]: the first and last sample it is of
  reported   \* reported[key][e]: the last report with key, and how many samples e had then

sampleVars == <<gpus, complete, samples, shown, answer, snapshot, average, reported>>

Slots == 0 .. MaxSlots - 1
Entries == Slots \cup Others
GpuNames == UNION {{m.nvtop[i] : i \in DOMAIN m.nvtop} : m \in GpuMachines}

ASSUME MachineAssumption ==
  /\ \A m \in GpuMachines :
       /\ m.nvtop \in Seq(GpuNames) /\ Len(m.nvtop) <= MaxSlots
       /\ m.others \subseteq Others /\ m.keys \subseteq Keys
  /\ Others \cap Slots = {}
ASSUME SamplesAssumption == MaxSlots \in Nat /\ MaxSamples \in Nat

Count(e) == Len(samples[e])
Exists(e) == samples[e] # <<>>

\* Samples after the first up to the second; nothing was added, or the entry is idle.
Span == [after : Nat, upto : Nat]
Nothing == [after |-> 0, upto |-> 0]

\* No answer is being matched.
Matched == [left |-> <<>>, used |-> {}, at |-> 0]

SampleTypeOK ==
  /\ samples \in [Entries -> Seq(GpuNames \cup Others)]
  /\ \A e \in Entries : Count(e) <= MaxSamples
  /\ \A o \in Others, i \in 1 .. MaxSamples : i <= Count(o) => samples[o][i] = o
  /\ shown \in [Entries -> BOOLEAN]
  /\ answer \in [left : Seq(GpuNames), used : SUBSET {e \in Slots : Exists(e)}, at : Nat]
  /\ answer.at + Len(answer.left) <= Len(gpus.nvtop)
  /\ gpus \in GpuMachines /\ complete \in BOOLEAN
  /\ snapshot \in [Keys -> [Entries -> 0 .. MaxSamples]]
  /\ average \in [Entries -> Span]
  /\ reported \in [Keys -> [Entries -> [of : Span, seen : 0 .. MaxSamples]]]
  /\ \A e \in Entries : average[e].upto <= Count(e)
  /\ \A k \in Keys, e \in Entries : snapshot[k][e] <= Count(e)

SampleInit ==
  /\ gpus \in GpuMachines
  /\ complete = FALSE
  /\ samples = [e \in Entries |-> <<>>]
  /\ shown = [e \in Entries |-> FALSE]
  /\ answer = Matched
  /\ snapshot = [k \in Keys |-> [e \in Entries |-> 0]]
  /\ average = [e \in Entries |-> Nothing]
  /\ reported = [k \in Keys |-> [e \in Entries |-> [of |-> Nothing, seen |-> 0]]]

-----------------------------------------------------------------------------
AddSample(e, gpu) ==
  /\ Count(e) < MaxSamples
  /\ samples' = [samples EXCEPT ![e] = Append(@, gpu)]
  /\ \E b \in BOOLEAN : shown' = [shown EXCEPT ![e] = b]

Unlocked == answer.left = <<>>

\* parseNvidiaData, parseAmdData, updateIntelFromStats, updateAmdGpuData, nvml's collect.
UpdateGpu(o) ==
  /\ Unlocked
  /\ AddSample(o, o)
  /\ UNCHANGED <<gpus, complete, answer, snapshot, average, reported>>

\* nvml's collect: a suspended GPU loses its values and is not counted.
SuspendGpu(o) ==
  /\ Unlocked
  /\ Exists(o)
  /\ shown' = [shown EXCEPT ![o] = FALSE]
  /\ UNCHANGED <<gpus, complete, samples, answer, snapshot, average, reported>>

\* nvtop prints an answer, with some GPUs in some order; updateNvtopSnapshots takes the lock.
NvtopAnswers ==
  /\ Unlocked
  /\ \E n \in 1 .. Len(gpus.nvtop) : \E p \in [1 .. n -> 1 .. Len(gpus.nvtop)] :
       /\ \A i, j \in 1 .. n : p[i] = p[j] => i = j
       /\ answer' = [left |-> [i \in 1 .. n |-> gpus.nvtop[p[i]]], used |-> {}, at |-> 0]
       /\ complete' = IF \A e \in Slots : ~ Exists(e) THEN n = Len(gpus.nvtop) ELSE complete
  /\ UNCHANGED <<gpus, samples, shown, snapshot, average, reported>>

\* The name of an entry is the one of its last sample.
EntryNamed(e, name) == Exists(e) /\ samples[e][Count(e)] = name

\* A faulty variant: a sample always belongs to the entry of its position.
MatchByPosition(name) == {answer.at}

\* The entries that a sample may be added to: the map has no order.
Match(name) ==
  LET free == {e \in Slots \ answer.used : EntryNamed(e, name)}
  IN IF Exists(answer.at) /\ ~ EntryNamed(answer.at, name) /\ free # {} THEN free ELSE {answer.at}

\* One iteration of updateNvtopSnapshots, which returns after the last.
MatchSample ==
  /\ ~ Unlocked
  /\ LET name == Head(answer.left)
     IN \E e \in Match(name) :
          /\ AddSample(e, name)
          /\ answer' = [left |-> Tail(answer.left), used |-> answer.used \cup {e},
                        at |-> answer.at + 1]
  /\ UNCHANGED <<gpus, complete, snapshot, average, reported>>

-----------------------------------------------------------------------------
\* calculateGPUAverage for an entry that exists.
Average(key, e) ==
  IF Count(e) > snapshot[key][e] THEN [after |-> snapshot[key][e], upto |-> Count(e)]
  ELSE IF shown[e] THEN average[e]
  ELSE Nothing

\* A faulty variant: the snapshots are not kept apart.
StoreSharedSnapshot(key) == [k \in Keys |-> [e \in Entries |-> Count(e)]]

\* storeSnapshot for every entry.
StoreSnapshot(key) == [snapshot EXCEPT ![key] = [e \in Entries |-> Count(e)]]

\* The average is remembered when something was added.
Remember(key, e) == IF Count(e) > snapshot[key][e] THEN Average(key, e) ELSE average[e]

GetCurrentData(key) ==
  /\ Unlocked
  /\ reported' = [reported EXCEPT ![key] =
                    [e \in Entries |-> [of |-> Average(key, e), seen |-> Count(e)]]]
  /\ average' = [e \in Entries |-> Remember(key, e)]
  /\ snapshot' = StoreSnapshot(key)
  /\ UNCHANGED <<gpus, complete, samples, shown, answer>>

SampleNext ==
  \/ NvtopAnswers \/ MatchSample
  \/ \E o \in gpus.others : UpdateGpu(o) \/ SuspendGpu(o)
  \/ \E k \in gpus.keys : GetCurrentData(k)

SampleSpec == SampleInit /\ [][SampleNext]_sampleVars

-----------------------------------------------------------------------------
(* Properties.                                                              *)

(***************************************************************************)
(* If the first answer of nvtop shows all GPUs, the sums of an entry are   *)
(* always of one GPU or of GPUs of the same name, in whatever order the    *)
(* later answers come and whatever they leave out.                         *)
(***************************************************************************)
EntriesKeepTheirName ==
  complete => \A e \in Slots : \A i \in 1 .. Count(e) : samples[e][i] = samples[e][1]

(***************************************************************************)
(* Reports with one key neither lose samples nor average one twice, and    *)
(* when nothing was added they are not of older samples than the newest,   *)
(* whatever is reported with other keys in between.                        *)
(***************************************************************************)
ReportsCoverNewSamples ==
  [][\A k \in gpus.keys, e \in Entries :
       LET old == reported[k][e].seen
           new == reported'[k][e].of
       IN reported'[k] # reported[k] =>
            IF Count(e) > old THEN new = [after |-> old, upto |-> Count(e)]
                              ELSE new = Nothing \/ new.upto = old]_reported

=============================================================================
