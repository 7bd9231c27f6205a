---------------------------- MODULE MCStartStop ----------------------------
(***************************************************************************)
(* What has to come to an end or to settle: the agent runtime, the worker  *)
(* of the systemd services and the GPU collectors.  They share no state,   *)
(* so one of them runs in each behaviour and the others are at rest, with  *)
(* nothing that fairness would have them do.                               *)
(***************************************************************************)
EXTENDS AgentRuntime, SystemdServices, GpuCollectors

CONSTANTS h1, h2, c1, c2, u1, u2, r1

\* The configuration of an agent that is at rest.
ASSUME RestAssumption == c1 \in Configs

VARIABLE part

allVars == <<part, vars, systemdVars, gpuVars>>

RuntimeAtRest ==
  /\ main = "exited" /\ collector = "none" /\ cycle = "off" /\ result = "ok"
  /\ reload = [a \in Actor |-> NotReloading]
  /\ busy = {} /\ updates = <<>> /\ registered = FALSE
  /\ config = [history |-> c1, reported |-> c1, ticker |-> c1]
  /\ cancelled = TRUE /\ stopped = TRUE /\ hup = FALSE /\ serverErr = FALSE
  /\ http = "off" /\ managers = FALSE /\ store = "nil" /\ health = FALSE /\ reloads = 0

StartStopInit ==
  /\ part \in {"runtime", "systemd", "gpu"}
  /\ IF part = "runtime" THEN Init ELSE RuntimeAtRest
  /\ SystemdInit /\ (part # "systemd" => \A u \in Units : units[u] = "active")
  /\ GpuInit /\ (part # "gpu" => machine.has = {})

StartStopNext ==
  \/ part = "runtime" /\ Next /\ UNCHANGED <<part, systemdVars, gpuVars>>
  \/ part = "systemd" /\ SystemdNext /\ UNCHANGED <<part, vars, gpuVars>>
  \/ part = "gpu" /\ GpuNext /\ UNCHANGED <<part, vars, systemdVars>>

StartStopSpec ==
  StartStopInit /\ [][StartStopNext]_allVars /\ Fairness /\ SystemdFairness /\ GpuFairness

\* The type invariants of the three parts: the values that StartContext and its goroutines,
\* the systemd manager and the GPU manager may leave behind.
PartsTypeOK == TypeOK /\ SystemdTypeOK /\ GpuTypeOK

\* A machine for each way the list of sources may go.
MCMachines ==
  {[has |-> {"tegrastats", "nvidia_smi"}, priority |-> <<"nvidia_smi">>],
   [has |-> {"nvidia_smi", "nvml", "amd_sysfs", "rocm_smi"}, priority |-> NoList],
   [has |-> {"nvtop"}, priority |-> NoList],
   [has |-> {"nvtop", "amd_sysfs"}, priority |-> <<"nvtop", "nvtop", "amd_sysfs">>],
   [has |-> {"nvtop", "nvidia_smi", "rocm_smi"}, priority |-> <<"nvtop", "nvml", "nvidia_smi", "rocm_smi">>],
   [has |-> {"nvtop", "intel_gpu_top"}, priority |-> <<"intel_gpu_top", "nvtop", "amd_sysfs">>],
   [has |-> {}, priority |-> NoList]}
=============================================================================
