--------------------------- MODULE GpuCollectors ---------------------------
(***************************************************************************)
(* The collectors of the GPUManager: which are started, how they go on     *)
(* when their command fails, and how they are stopped.                     *)
(*                                                                         *)
(* Start goes through a list of sources, GPU_COLLECTOR or the one chosen   *)
(* from what is installed, and starts the first source of each vendor.     *)
(* nvtop is for all vendors: it is started alone, and when it fails its    *)
(* goroutine goes through the rest of the list.  A Jetson has tegrastats   *)
(* only.  Stop cancels the context and waits for the goroutines.           *)
(***************************************************************************)
EXTENDS Naturals, Sequences

CONSTANTS
  Machines,       \* [has: the sources that are there, priority: GPU_COLLECTOR]
  MaxRetries,     \* maxFailureRetries
  NoList          \* GPU_COLLECTOR is not set; nobody goes through a list

Group == [nvml |-> "nvidia", nvidia_smi |-> "nvidia", amd_sysfs |-> "amd", rocm_smi |-> "amd",
          intel_gpu_top |-> "intel", tegrastats |-> "nvidia", nvtop |-> "all"]
Sources == DOMAIN Group

ASSUME MachinesAssumption == \A m \in Machines : m.has \subseteq Sources
ASSUME RetriesAssumption == MaxRetries \in Nat

VARIABLES
  machine,       \* the machine the agent runs on
  manager,       \* "new", "starting", "started", "stopping" or "stopped"
  gpuCancelled,  \* the collectors' context is done
  starter,       \* startCollectorsByPriority: who calls it, what is left, the groups it started
  gpuCollector,  \* gpuCollector[s]: "off", "collecting", "resting", "falling back" or "ended"
  failures,      \* failures[s]
  rest           \* the sources after nvtop in the list

gpuVars == <<machine, manager, gpuCancelled, starter, gpuCollector, failures, rest>>

Running(s) == gpuCollector[s] \in {"collecting", "resting"}

GpuTypeOK ==
  /\ machine \in Machines
  /\ manager \in {"new", "starting", "started", "stopping", "stopped"}
  /\ gpuCancelled \in BOOLEAN
  /\ starter # NoList => /\ starter.by \in {"Start", "nvtop"}
                         /\ starter.groups \subseteq {Group[s] : s \in Sources}
                         /\ starter.by = "nvtop" => gpuCollector["nvtop"] = "falling back"
  /\ gpuCollector \in [Sources -> {"off", "collecting", "resting", "falling back", "ended"}]
  /\ failures \in [Sources -> 0 .. MaxRetries + 1]
  /\ \A s \in Sources : gpuCollector[s] # "off" => s = "nvml" \/ s \in machine.has

GpuInit ==
  /\ machine \in Machines
  /\ manager = "new"
  /\ gpuCancelled = FALSE
  /\ starter = NoList
  /\ gpuCollector = [s \in Sources |-> "off"]
  /\ failures = [s \in Sources |-> 0]
  /\ rest = <<>>

-----------------------------------------------------------------------------
(* Starting.                                                                *)

\* resolveAutoCollectorPriority, with an entry for each source that is installed.
AutoPriority ==
  LET vendors == <<"nvidia_smi", "nvml", "amd_sysfs", "rocm_smi", "intel_gpu_top">>
      found == SelectSeq(vendors, LAMBDA s : s \in machine.has)
  IN IF found = <<>> THEN SelectSeq(<<"nvtop">>, LAMBDA s : s \in machine.has) ELSE found

\* Start.
StartGpu ==
  /\ manager = "new"
  /\ IF "tegrastats" \in machine.has
       THEN /\ manager' = "started"
            /\ gpuCollector' = [gpuCollector EXCEPT !["tegrastats"] = "collecting"]
            /\ UNCHANGED starter
       ELSE /\ manager' = "starting"
            /\ starter' = [by |-> "Start", groups |-> {},
                           left |-> IF machine.priority = NoList THEN AutoPriority
                                                                 ELSE machine.priority]
            /\ UNCHANGED gpuCollector
  /\ UNCHANGED <<machine, gpuCancelled, failures, rest>>

\* NVML is tried wherever it is listed; any other source must be installed.
Available(s) == s = "nvml" \/ s \in machine.has

\* nvtop is passed over when another source is started, a source when its vendor has one.
Eligible(s) ==
  /\ Available(s)
  /\ IF s = "nvtop" THEN starter.groups = {} ELSE Group[s] \notin starter.groups

NextInList == starter # NoList /\ starter.left # <<>>

\* The entry is passed over, or the NVML library cannot be loaded.
SkipSource ==
  /\ NextInList
  /\ ~ Eligible(Head(starter.left)) \/ Head(starter.left) = "nvml"
  /\ starter' = [by |-> starter.by, groups |-> starter.groups, left |-> Tail(starter.left)]
  /\ UNCHANGED <<machine, manager, gpuCancelled, gpuCollector, failures, rest>>

StartVendorSource ==
  /\ NextInList
  /\ LET s == Head(starter.left)
     IN /\ s # "nvtop" /\ Eligible(s)
        /\ gpuCollector' = [gpuCollector EXCEPT ![s] = "collecting"]
        /\ starter' = [by |-> starter.by, groups |-> starter.groups \cup {Group[s]},
                       left |-> Tail(starter.left)]
  /\ UNCHANGED <<machine, manager, gpuCancelled, failures, rest>>

\* Nothing is started beside nvtop.  (The list may name it twice: then its goroutine
\* starts another one and ends.)
StartNvtop ==
  /\ NextInList
  /\ Head(starter.left) = "nvtop" /\ Eligible("nvtop")
  /\ gpuCollector' = [gpuCollector EXCEPT !["nvtop"] = "collecting"]
  /\ rest' = Tail(starter.left)
  /\ starter' = IF starter.by = "nvtop" THEN NoList
                ELSE [by |-> "Start", groups |-> {"all"}, left |-> <<>>]
  /\ UNCHANGED <<machine, manager, gpuCancelled, failures>>

\* The list is done.  Start stops the manager when nothing was started.
ListDone ==
  /\ starter # NoList /\ starter.left = <<>>
  /\ starter' = NoList
  /\ IF starter.by = "nvtop"
       THEN /\ gpuCollector' = [gpuCollector EXCEPT !["nvtop"] = "ended"]
            /\ UNCHANGED <<manager, gpuCancelled>>
       ELSE /\ manager' = IF starter.groups = {} THEN "stopping" ELSE "started"
            /\ gpuCancelled' = (gpuCancelled \/ starter.groups = {})
            /\ UNCHANGED gpuCollector
  /\ UNCHANGED <<machine, failures, rest>>

-----------------------------------------------------------------------------
(* The loops of the collectors.  A collection of nvidia-smi, tegrastats,    *)
(* intel_gpu_top and nvtop lasts as long as the command runs.               *)

\* Sources whose failures are counted, and those where a success forgets them.
Counted == {"intel_gpu_top", "amd_sysfs", "rocm_smi"}
Forgiving == {"intel_gpu_top", "amd_sysfs"}

\* The collection succeeds: the collector sleeps before the next one.
CollectionEnds(s) ==
  /\ gpuCollector[s] = "collecting"
  /\ gpuCollector' = [gpuCollector EXCEPT ![s] = "resting"]
  /\ failures' = IF s \in Forgiving THEN [failures EXCEPT ![s] = 0] ELSE failures
  /\ UNCHANGED <<machine, manager, gpuCancelled, starter, rest>>

\* Too many failures, or a command of a driver that prints no data, end it for good.
CollectionFails(s) ==
  /\ gpuCollector[s] = "collecting"
  /\ ~ gpuCancelled
  /\ s \notin {"nvtop", "nvml"}
  /\ failures' = IF s \in Counted THEN [failures EXCEPT ![s] = @ + 1] ELSE failures
  /\ \/ /\ s \in Counted => failures'[s] <= MaxRetries
        /\ gpuCollector' = [gpuCollector EXCEPT ![s] = "resting"]
     \/ /\ failures'[s] > MaxRetries \/ s \in {"nvidia_smi", "tegrastats"}
        /\ gpuCollector' = [gpuCollector EXCEPT ![s] = "ended"]
  /\ UNCHANGED <<machine, manager, gpuCancelled, starter, rest>>

\* A faulty variant: nvtop is tried again while the others collect.
FallBackAndRetry ==
  /\ gpuCollector["nvtop"] = "collecting"
  /\ ~ gpuCancelled
  /\ starter = NoList
  /\ starter' = [by |-> "Start", left |-> rest, groups |-> {}]
  /\ gpuCollector' = [gpuCollector EXCEPT !["nvtop"] = "resting"]
  /\ UNCHANGED <<machine, manager, gpuCancelled, failures, rest>>

\* A faulty variant: the fallback has a goroutine that Stop does not wait for.
FallBackDetached ==
  /\ gpuCollector["nvtop"] = "collecting"
  /\ ~ gpuCancelled
  /\ starter = NoList
  /\ starter' = [by |-> "Start", left |-> rest, groups |-> {}]
  /\ gpuCollector' = [gpuCollector EXCEPT !["nvtop"] = "ended"]
  /\ UNCHANGED <<machine, manager, gpuCancelled, failures, rest>>

\* The first failure of nvtop: its goroutine starts the rest of the list.  (It may
\* do so while Start, which is done with the list, has not returned yet.)
FallBack ==
  /\ gpuCollector["nvtop"] = "collecting"
  /\ ~ gpuCancelled
  /\ starter = NoList
  /\ starter' = [by |-> "nvtop", left |-> rest, groups |-> {}]
  /\ gpuCollector' = [gpuCollector EXCEPT !["nvtop"] = "falling back"]
  /\ UNCHANGED <<machine, manager, gpuCancelled, failures, rest>>

CollectAgain(s) ==
  /\ gpuCollector[s] = "resting"
  /\ ~ gpuCancelled
  /\ gpuCollector' = [gpuCollector EXCEPT ![s] = "collecting"]
  /\ UNCHANGED <<machine, manager, gpuCancelled, starter, failures, rest>>

\* A faulty variant: the command does not have the context.
ReturnsFromRest(s) ==
  /\ gpuCancelled
  /\ gpuCollector[s] = "resting"
  /\ gpuCollector' = [gpuCollector EXCEPT ![s] = "ended"]
  /\ UNCHANGED <<machine, manager, gpuCancelled, starter, failures, rest>>

\* The command is killed, the sleep ends, or the loop looks at its context.
CollectorReturns(s) ==
  /\ gpuCancelled
  /\ Running(s)
  /\ gpuCollector' = [gpuCollector EXCEPT ![s] = "ended"]
  /\ UNCHANGED <<machine, manager, gpuCancelled, starter, failures, rest>>

-----------------------------------------------------------------------------
(* Stopping.                                                                *)

\* The agent is told to stop; the context of the manager descends from its own.
AgentCancelled ==
  /\ manager \in {"starting", "started"}
  /\ gpuCancelled' = TRUE
  /\ UNCHANGED <<machine, manager, starter, gpuCollector, failures, rest>>

StopGpu ==
  /\ manager = "started"
  /\ manager' = "stopping"
  /\ gpuCancelled' = TRUE
  /\ UNCHANGED <<machine, starter, gpuCollector, failures, rest>>

\* wg.Wait.
CollectorsJoined ==
  /\ manager = "stopping"
  /\ \A s \in Sources : gpuCollector[s] \in {"off", "ended"}
  /\ manager' = "stopped"
  /\ UNCHANGED <<machine, gpuCancelled, starter, gpuCollector, failures, rest>>

WorkThroughList == SkipSource \/ StartVendorSource \/ StartNvtop \/ ListDone

GpuNext ==
  \/ StartGpu \/ WorkThroughList \/ FallBack \/ AgentCancelled \/ StopGpu \/ CollectorsJoined
  \/ \E s \in Sources :
       CollectionEnds(s) \/ CollectionFails(s) \/ CollectAgain(s) \/ CollectorReturns(s)

(***************************************************************************)
(* The list is gone through without waiting; a command is killed when its  *)
(* context is done, and a sleep ends.                                      *)
(***************************************************************************)
GpuFairness ==
  /\ WF_gpuVars(WorkThroughList)
  /\ WF_gpuVars(CollectorsJoined)
  /\ \A s \in Sources : WF_gpuVars(CollectorReturns(s))

GpuSpec == GpuInit /\ [][GpuNext]_gpuVars /\ GpuFairness

-----------------------------------------------------------------------------
(* Properties.                                                              *)

\* The GPUs of a vendor are sampled by one source, also when nvtop is given up
\* and its goroutine starts others: two would count every GPU twice.
OneSourcePerVendor ==
  \A s, t \in Sources :
    Running(s) /\ Running(t) /\ s # t => Group[s] # Group[t] /\ s # "nvtop"

\* When Stop has returned no collector runs and none is started any more, also
\* if nvtop failed just then and its goroutine was starting the others.
NoCollectorAfterStop ==
  manager = "stopped" => starter = NoList /\ \A s \in Sources : ~ Running(s)

\* Stop returns, whatever the collectors were doing when it was called.
StopGpuReturns == manager = "stopping" ~> manager = "stopped"

=============================================================================
