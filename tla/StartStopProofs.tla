-------------------------- MODULE StartStopProofs --------------------------
(***************************************************************************)
(* What comes to an end or settles, for every value of the constants: the  *)
(* agent runtime with any handlers, configurations and reloads; the GPU    *)
(* collectors of any machine and any list of sources; the map of any       *)
(* systemd units; and the type invariant of the three beside each other.   *)
(***************************************************************************)
EXTENDS MCStartStop, TLAPS

-----------------------------------------------------------------------------
(* The agent runtime: who holds what, and who may use it.                   *)

\* StartContext between starting the managers and stopping them.
ManagersUp == {"initial", "http", "listeners", "undo", "register", "start", "loop", "shutdown",
               "cleanup", "unregister", "cancel", "join", "stopManagers"}

\* Where in StartContext the collector may be running.
CollectorUp == {"loop", "shutdown", "cleanup", "unregister", "cancel", "join"}

\* Who holds what, by the place StartContext has reached.
ResourcesInv ==
  /\ main \in ManagersUp => managers = TRUE
  /\ main \in {"open", "managers", "closeStore", "clearStore", "exited"} => managers = FALSE
  /\ main \in ManagersUp \cup {"managers", "closeStore"} => store = "open"
  /\ main = "clearStore" => store = "closed"
  /\ main = "exited" => store \in {"none", "nil"}

\* A collection belongs to StartContext while it starts, or to the collector.
CycleInv ==
  /\ cycle # "off" => main = "initial" \/ collector = "running"
  /\ collector = "running" => main \in CollectorUp

\* What the API can still reach.
ServingInv ==
  /\ registered = TRUE => main \in {"start", "loop", "shutdown", "cleanup", "unregister"}
  /\ http = "serving" => main \in {"listeners", "register", "start", "loop"}
  /\ busy \ SlowHandlers # {} =>
       main \in {"listeners", "register", "start", "loop", "shutdown", "undo"}

RuntimeInv == main \in MainStage /\ ResourcesInv /\ CycleInv /\ ServingInv

USE DEF ManagersUp, CollectorUp, MainStage, Startup, Deferred

-----------------------------------------------------------------------------
LEMMA RuntimeInitInv == Init => RuntimeInv
BY DEF Init, RuntimeInv, ResourcesInv, CycleInv, ServingInv

\* Steps that leave StartContext where it is and start nothing.
LEMMA ReloadInv ==
  ASSUME RuntimeInv,
         \/ TakeSIGHUP
         \/ \E a \in Actor : ReloadStep(a)
         \/ \E h \in Handlers : ReloadCommand(h) \/ EndCommand(h)
         \/ CollectorTakesInterval
         \/ Cancel \/ SendSIGHUP \/ ServerFails
  PROVE  RuntimeInv'
<1>1. /\ UNCHANGED <<main, collector, cycle, registered, http, managers, store>>
      /\ busy' \subseteq busy
  BY DEF TakeSIGHUP, ReloadStep, ApplyHistory, ReportConfig, LookUpChannel, SendInterval,
         DrainInterval, ResendInterval, ReloadCommand, EndCommand, CollectorTakesInterval,
         Cancel, SendSIGHUP, ServerFails, reloadEnv, commandEnv
<1> QED
  BY <1>1 DEF RuntimeInv, ResourcesInv, CycleInv, ServingInv

LEMMA CommandInv ==
  ASSUME RuntimeInv, NEW h \in Handlers, StartCommand(h)
  PROVE  RuntimeInv'
<1>1. /\ UNCHANGED <<main, collector, cycle, registered, http, managers, store>>
      /\ http = "serving"
  BY DEF StartCommand, commandEnv
<1> QED
  BY <1>1 DEF RuntimeInv, ResourcesInv, CycleInv, ServingInv

LEMMA CycleStepInv ==
  ASSUME RuntimeInv, CycleStep \/ CollectorTicks \/ CollectorStops
  PROVE  RuntimeInv'
<1>1. UNCHANGED <<busy, registered, http, managers, store>>
  BY DEF CycleStep, CollectorTicks, CollectorStops, Gather, WriteSnapshot, UpdateHealth,
         RefreshSmartIfDue, RunMaintenance, cycleEnv, runtimeVars
<1>2. CASE CycleStep
  <2>1. collector' = collector /\ cycle # "off"
    BY <1>2 DEF CycleStep, Gather, WriteSnapshot, UpdateHealth, RefreshSmartIfDue,
                RunMaintenance, cycleEnv
  <2>2. \/ cycle' # "off" /\ main' = main
        \/ cycle' = "off" /\ main = "initial" /\ main' \in {"cancel", "http"}
        \/ cycle' = "off" /\ main' = main
    BY <1>2 DEF CycleStep, Gather, WriteSnapshot, UpdateHealth, RefreshSmartIfDue,
                RunMaintenance, GoOn, EndCycle
  <2> QED
    BY <1>1, <2>1, <2>2 DEF RuntimeInv, ResourcesInv, CycleInv, ServingInv
<1>3. CASE CollectorTicks
  BY <1>1, <1>3 DEF CollectorTicks, AtSelect, cycleEnv, RuntimeInv, ResourcesInv, CycleInv, ServingInv
<1>4. CASE CollectorStops
  BY <1>1, <1>4 DEF CollectorStops, AtSelect, runtimeVars, RuntimeInv, ResourcesInv, CycleInv,
                    ServingInv
<1> QED
  BY <1>2, <1>3, <1>4

\* The start of StartContext, up to its event loop.
LEMMA StartInv ==
  ASSUME RuntimeInv,
         \/ OpenStore \/ StartManagers \/ StartHTTPServers \/ OpenListeners
         \/ UndoHTTPServers \/ Register \/ StartCollector
  PROVE  RuntimeInv'
<1>1. CASE OpenStore
  BY <1>1 DEF OpenStore, runtimeVars, RuntimeInv, ResourcesInv, CycleInv, ServingInv
<1>2. CASE StartManagers
  BY <1>2 DEF StartManagers, RuntimeInv, ResourcesInv, CycleInv, ServingInv
<1>3. CASE StartHTTPServers
  BY <1>3 DEF StartHTTPServers, runtimeVars, RuntimeInv, ResourcesInv, CycleInv, ServingInv
<1>4. CASE OpenListeners
  BY <1>4 DEF OpenListeners, runtimeVars, RuntimeInv, ResourcesInv, CycleInv, ServingInv
<1>5. CASE UndoHTTPServers
  BY <1>5
  DEF UndoHTTPServers, ActiveHandlers, runtimeVars, RuntimeInv, ResourcesInv, CycleInv, ServingInv
<1>6. CASE Register
  BY <1>6 DEF Register, runtimeVars, RuntimeInv, ResourcesInv, CycleInv, ServingInv
<1>7. CASE StartCollector
  BY <1>7 DEF StartCollector, runtimeVars, RuntimeInv, ResourcesInv, CycleInv, ServingInv
<1> QED
  BY <1>1, <1>2, <1>3, <1>4, <1>5, <1>6, <1>7

\* The return path of StartContext and its deferred calls.
LEMMA StopInv ==
  ASSUME RuntimeInv,
         \/ LoopSeesDone \/ LoopSeesServerError \/ ShutdownHTTPServers \/ CleanUpHealth
         \/ Unregister \/ CancelRun \/ JoinCollector \/ StopManagers \/ CloseStore \/ ClearStore
  PROVE  RuntimeInv'
<1>1. CASE LoopSeesDone
  BY <1>1 DEF LoopSeesDone, Selecting, runtimeVars, RuntimeInv, ResourcesInv, CycleInv, ServingInv
<1>2. CASE LoopSeesServerError
  BY <1>2 DEF LoopSeesServerError, Selecting, RuntimeInv, ResourcesInv, CycleInv, ServingInv
<1>3. CASE ShutdownHTTPServers
  BY <1>3
  DEF ShutdownHTTPServers, ActiveHandlers, runtimeVars, RuntimeInv, ResourcesInv, CycleInv, ServingInv
<1>4. CASE CleanUpHealth
  BY <1>4 DEF CleanUpHealth, cycleEnv, RuntimeInv, ResourcesInv, CycleInv, ServingInv
<1>5. CASE Unregister
  BY <1>5 DEF Unregister, runtimeVars, RuntimeInv, ResourcesInv, CycleInv, ServingInv
<1>6. CASE CancelRun
  BY <1>6 DEF CancelRun, runtimeVars, RuntimeInv, ResourcesInv, CycleInv, ServingInv
<1>7. CASE JoinCollector
  BY <1>7 DEF JoinCollector, runtimeVars, RuntimeInv, ResourcesInv, CycleInv, ServingInv
<1>8. CASE StopManagers
  BY <1>8 DEF StopManagers, runtimeVars, RuntimeInv, ResourcesInv, CycleInv, ServingInv
<1>9. CASE CloseStore
  BY <1>9 DEF CloseStore, runtimeVars, RuntimeInv, ResourcesInv, CycleInv, ServingInv
<1>10. CASE ClearStore
  BY <1>10 DEF ClearStore, runtimeVars, RuntimeInv, ResourcesInv, CycleInv, ServingInv
<1> QED
  BY <1>1, <1>2, <1>3, <1>4, <1>5, <1>6, <1>7, <1>8, <1>9, <1>10

LEMMA RuntimeStep == RuntimeInv /\ [Next]_vars => RuntimeInv'
<1> SUFFICES ASSUME RuntimeInv, [Next]_vars PROVE RuntimeInv'
  OBVIOUS
<1>1. CASE UNCHANGED vars
  BY <1>1 DEF vars, RuntimeInv, ResourcesInv, CycleInv, ServingInv
<1>2. CASE Terminated
  BY <1>1, <1>2 DEF Terminated
<1>3. CASE Next /\ ~ Terminated
  BY <1>3, ReloadInv, CommandInv, CycleStepInv, StartInv, StopInv DEF Next, MainStep
<1> QED
  BY <1>1, <1>2, <1>3

LEMMA RuntimeInvariant == Spec => []RuntimeInv
BY RuntimeInitInv, RuntimeStep, PTL DEF Spec

\* A collection never meets a stopped manager or a closed store: StartContext
\* joins the collector before its deferred calls stop and close them.
THEOREM LiveResources == Spec => []CollectorUsesLiveResources
<1>1. RuntimeInv => CollectorUsesLiveResources
  BY DEF RuntimeInv, ResourcesInv, CycleInv, CollectorUsesLiveResources
<1> QED
  BY <1>1, RuntimeInvariant, PTL

\* Nothing of the agent is left running when StartContext has returned.
THEOREM CleanExit == Spec => []NothingRunsAfterExit
<1>1. RuntimeInv => NothingRunsAfterExit
  BY DEF RuntimeInv, ResourcesInv, CycleInv, ServingInv, NothingRunsAfterExit
<1> QED
  BY <1>1, RuntimeInvariant, PTL

\* No command that ends within server shutdown loses the store under it.
THEOREM OpenStoreForCommands == Spec => []CommandsSeeOpenStore
<1>1. RuntimeInv => CommandsSeeOpenStore
  BY DEF RuntimeInv, ResourcesInv, ServingInv, CommandsSeeOpenStore
<1> QED
  BY <1>1, RuntimeInvariant, PTL

HIDE DEF ManagersUp, CollectorUp, MainStage, Startup, Deferred

-----------------------------------------------------------------------------
(* The GPU collectors.                                                      *)

GpuStates == {"off", "collecting", "resting", "falling back", "ended"}

(***************************************************************************)
(* Who goes through a list is known from the state: Start while the        *)
(* manager is starting, the goroutine of nvtop while it falls back, so     *)
(* Stop, which waits for that goroutine, outlives the list.  A list has a  *)
(* group for every source that was started, and is done when nvtop runs;   *)
(* as long as nvtop runs nothing else was started.                         *)
(***************************************************************************)
GpuInv ==
  /\ GpuTypeOK
  /\ starter # NoList /\ starter.by = "Start" => manager = "starting"
  /\ manager = "new" => starter = NoList /\ \A s \in Sources : gpuCollector[s] = "off"
  /\ manager = "stopped" => \A s \in Sources : gpuCollector[s] \in {"off", "ended"}
  /\ starter # NoList => \A s \in Sources \ {"nvtop"} :
                           gpuCollector[s] # "off" => Group[s] \in starter.groups
  /\ starter # NoList /\ Running("nvtop") => starter.left = <<>>
  /\ Running("nvtop") => \A s \in Sources \ {"nvtop"} : gpuCollector[s] = "off"
  /\ \A s \in Sources : failures[s] > MaxRetries => gpuCollector[s] = "ended"
  /\ failures["nvtop"] = 0
  /\ OneSourcePerVendor

\* The sources by name, and the groups they have.
LEMMA SourceNames ==
  /\ Sources = {"nvml", "nvidia_smi", "amd_sysfs", "rocm_smi", "intel_gpu_top", "tegrastats", "nvtop"}
  /\ \A s \in Sources : Group[s] = "all" <=> s = "nvtop"
  BY DEF Sources, Group

\* A change of one collector leaves the others as they are.
LEMMA OneChanges ==
  ASSUME gpuCollector \in [Sources -> GpuStates], NEW s \in Sources, NEW v \in GpuStates,
         gpuCollector' = [gpuCollector EXCEPT ![s] = v]
  PROVE /\ gpuCollector' \in [Sources -> GpuStates]
        /\ gpuCollector'[s] = v
        /\ \A t \in Sources \ {s} : gpuCollector'[t] = gpuCollector[t]
  OBVIOUS

LEMMA GpuInitInv == GpuInit => GpuInv
<1> SUFFICES ASSUME GpuInit PROVE GpuInv
  OBVIOUS
<1>1. \A s \in Sources : gpuCollector[s] = "off" /\ failures[s] = 0
  BY DEF GpuInit
<1>2. GpuTypeOK
  <2>1. failures \in [Sources -> 0 .. MaxRetries + 1]
    BY RetriesAssumption DEF GpuInit
  <2>2. gpuCollector \in [Sources -> GpuStates]
    BY DEF GpuInit, GpuStates
  <2> QED
    BY <1>1, <2>1, <2>2 DEF GpuInit, GpuTypeOK, GpuStates
<1>3. \A s \in Sources : ~ Running(s)
  BY <1>1 DEF Running
<1>4. \A s \in Sources : ~ (failures[s] > MaxRetries)
  BY <1>1, RetriesAssumption
<1>5. manager = "new" /\ starter = NoList
  BY DEF GpuInit
<1>6. "nvtop" \in Sources
  BY SourceNames
<1> QED
  BY <1>1, <1>2, <1>3, <1>4, <1>5, <1>6 DEF GpuInv, OneSourcePerVendor

-----------------------------------------------------------------------------
(* Going through a list.                                                    *)

LEMMA StartGpuInv == GpuInv /\ StartGpu => GpuInv'
<1> SUFFICES ASSUME GpuInv, StartGpu PROVE GpuInv'
  OBVIOUS
<1> USE SourceNames
<1>1. \A s \in Sources : gpuCollector[s] = "off" /\ ~ Running(s)
  BY DEF GpuInv, StartGpu, Running
<1>2. starter = NoList /\ manager = "new"
  BY DEF GpuInv, StartGpu
<1>3. gpuCollector \in [Sources -> GpuStates]
  BY DEF GpuInv, GpuTypeOK, GpuStates
<1>4. CASE "tegrastats" \in machine.has
  <2>1. gpuCollector' = [gpuCollector EXCEPT !["tegrastats"] = "collecting"] /\ manager' = "started"
    BY <1>4 DEF StartGpu
  <2>2. starter' = NoList /\ UNCHANGED <<machine, gpuCancelled, failures, rest>>
    BY <1>2, <1>4 DEF StartGpu
  <2>3. /\ gpuCollector' \in [Sources -> GpuStates]
        /\ \A t \in Sources \ {"tegrastats"} : gpuCollector'[t] = "off"
    <3>1. "tegrastats" \in Sources /\ "collecting" \in GpuStates
      BY DEF GpuStates
    <3> HIDE SourceNames
    <3> QED
      BY <1>1, <1>3, <2>1, <3>1, OneChanges
  <2>4. \A s \in Sources : Running(s)' => s = "tegrastats"
    BY <2>3 DEF Running
  <2>5. GpuTypeOK'
    <3>1. \A s \in Sources : gpuCollector'[s] # "off" => s = "nvml" \/ s \in machine'.has
      BY <1>4, <2>2, <2>3
    <3>2. GpuTypeOK
      BY DEF GpuInv
    <3> HIDE SourceNames
    <3> QED
      BY <2>1, <2>2, <2>3, <3>1, <3>2 DEF GpuTypeOK, GpuStates
  <2>6. OneSourcePerVendor'
    BY <2>4 DEF OneSourcePerVendor
  <2>7. \A s \in Sources : (failures[s] > MaxRetries => gpuCollector[s] = "ended")'
    BY <1>1, <2>2 DEF GpuInv
  <2>8. ~ Running("nvtop")'
    BY <2>4
  <2> QED
    BY <2>1, <2>2, <2>5, <2>6, <2>7, <2>8 DEF GpuInv
<1>5. CASE "tegrastats" \notin machine.has
  <2>1. /\ manager' = "starting" /\ starter'.by = "Start" /\ starter'.groups = {}
        /\ UNCHANGED <<machine, gpuCancelled, gpuCollector, failures, rest>>
    BY <1>5 DEF StartGpu
  <2>2. \A s \in Sources : ~ Running(s)'
    BY <1>1, <2>1 DEF Running
  <2>3. GpuTypeOK'
    BY <2>1 DEF GpuInv, GpuTypeOK
  <2>4. OneSourcePerVendor'
    BY <2>2 DEF OneSourcePerVendor
  <2>5. \A s \in Sources : gpuCollector'[s] = "off" /\ ~ (failures'[s] > MaxRetries)
    BY <1>1, <2>1 DEF GpuInv
  <2> QED
    BY <2>1, <2>2, <2>3, <2>4, <2>5 DEF GpuInv
<1> QED
  BY <1>4, <1>5

\* The entry at the head of the list is left out.
LEMMA SkipSourceInv == GpuInv /\ SkipSource => GpuInv'
<1> SUFFICES ASSUME GpuInv, SkipSource PROVE GpuInv'
  OBVIOUS
<1> USE SourceNames
<1>1. /\ starter # NoList /\ starter'.by = starter.by /\ starter'.groups = starter.groups
      /\ starter.left # <<>>
      /\ UNCHANGED <<machine, manager, gpuCancelled, gpuCollector, failures, rest>>
  BY DEF SkipSource, NextInList
<1>2. \A s \in Sources : Running(s)' = Running(s)
  BY <1>1 DEF Running
<1>3. GpuTypeOK'
  BY <1>1 DEF GpuInv, GpuTypeOK
<1>4. OneSourcePerVendor'
  BY <1>2 DEF GpuInv, OneSourcePerVendor
<1>5. ~ Running("nvtop")'
  BY <1>1, <1>2 DEF GpuInv
<1> QED
  BY <1>1, <1>2, <1>3, <1>4, <1>5 DEF GpuInv

\* A source whose vendor has none is started: no other source of the group runs.
LEMMA StartVendorSourceInv == GpuInv /\ StartVendorSource => GpuInv'
<1> SUFFICES ASSUME GpuInv, StartVendorSource PROVE GpuInv'
  OBVIOUS
<1> USE SourceNames
<1> DEFINE s == Head(starter.left)
<1>1. /\ starter # NoList /\ starter.left # <<>>
      /\ s # "nvtop" /\ (s = "nvml" \/ s \in machine.has) /\ Group[s] \notin starter.groups
      /\ gpuCollector' = [gpuCollector EXCEPT ![s] = "collecting"]
      /\ starter'.by = starter.by /\ starter'.groups = starter.groups \cup {Group[s]}
      /\ UNCHANGED <<machine, manager, gpuCancelled, failures, rest>>
  BY DEF StartVendorSource, NextInList, Eligible, Available
<1> HIDE DEF s
<1>2. s \in Sources
  BY <1>1, MachinesAssumption DEF GpuInv, GpuTypeOK
<1>3. gpuCollector \in [Sources -> GpuStates]
  BY DEF GpuInv, GpuTypeOK, GpuStates
<1>4. /\ gpuCollector' \in [Sources -> GpuStates] /\ gpuCollector'[s] = "collecting"
      /\ \A t \in Sources \ {s} : gpuCollector'[t] = gpuCollector[t]
  BY <1>1, <1>2, <1>3, OneChanges DEF GpuStates
<1>5. \A t \in Sources \ {s} : Running(t)' = Running(t)
  BY <1>4 DEF Running
<1>6. gpuCollector[s] = "off" /\ ~ Running("nvtop")
  BY <1>1, <1>2 DEF GpuInv
<1>7. \A t \in Sources : Running(t) => Group[t] \in starter.groups /\ t # "nvtop"
  BY <1>1, <1>6 DEF GpuInv, Running
<1>8. OneSourcePerVendor'
  <2> SUFFICES ASSUME NEW t \in Sources, NEW u \in Sources, Running(t)', Running(u)', t # u
               PROVE Group[t] # Group[u] /\ t # "nvtop"
    BY DEF OneSourcePerVendor
  <2>1. CASE t = s
    BY <1>1, <1>5, <1>7, <2>1
  <2>2. CASE u = s
    BY <1>1, <1>5, <1>7, <2>2
  <2>3. CASE t # s /\ u # s
    BY <1>5, <2>3 DEF GpuInv, OneSourcePerVendor
  <2> QED
    BY <2>1, <2>2, <2>3
<1>9. manager \notin {"new", "stopped"}
  <2>1. starter.by = "Start" => manager = "starting"
    BY <1>1 DEF GpuInv
  <2>2. starter.by # "Start" => gpuCollector["nvtop"] = "falling back"
    BY <1>1 DEF GpuInv, GpuTypeOK
  <2> QED
    BY <1>1, <2>1, <2>2 DEF GpuInv
<1>10. GpuTypeOK'
  <2>1. starter'.by \in {"Start", "nvtop"} /\ starter'.groups \subseteq {Group[t] : t \in Sources}
    <3>1. GpuTypeOK
      BY DEF GpuInv
    <3>2. Group[s] \in {Group[t] : t \in Sources}
      BY <1>2
    <3> HIDE SourceNames
    <3> QED
      BY <1>1, <3>1, <3>2 DEF GpuTypeOK
  <2>2. starter'.by = "nvtop" => gpuCollector'["nvtop"] = "falling back"
    BY <1>1, <1>4 DEF GpuInv, GpuTypeOK
  <2>3. \A t \in Sources : gpuCollector'[t] # "off" => t = "nvml" \/ t \in machine.has
    BY <1>1, <1>4 DEF GpuInv, GpuTypeOK
  <2>4. GpuTypeOK
    BY DEF GpuInv
  <2> HIDE SourceNames
  <2> QED
    BY <1>1, <1>4, <2>1, <2>2, <2>3, <2>4 DEF GpuTypeOK, GpuStates
<1>11. \A t \in Sources : failures'[t] > MaxRetries => gpuCollector'[t] = "ended"
  BY <1>1, <1>4, <1>6 DEF GpuInv
<1>12. ~ Running("nvtop")'
  BY <1>1, <1>5, <1>6
<1>13. \A t \in Sources \ {"nvtop"} : gpuCollector'[t] # "off" => Group[t] \in starter'.groups
  BY <1>1, <1>4 DEF GpuInv
<1> QED
  BY <1>1, <1>8, <1>9, <1>10, <1>11, <1>12, <1>13 DEF GpuInv

\* nvtop is started when nothing else was, by Start or by its own goroutine.
LEMMA StartNvtopInv == GpuInv /\ StartNvtop => GpuInv'
<1> SUFFICES ASSUME GpuInv, StartNvtop PROVE GpuInv'
  OBVIOUS
<1> USE SourceNames
<1>1. /\ starter # NoList /\ starter.left # <<>> /\ starter.groups = {}
      /\ "nvtop" \in machine.has
      /\ gpuCollector' = [gpuCollector EXCEPT !["nvtop"] = "collecting"]
      /\ UNCHANGED <<machine, manager, gpuCancelled, failures>>
  BY DEF StartNvtop, NextInList, Eligible, Available
<1>2. \/ starter' = NoList /\ starter.by = "nvtop"
      \/ /\ starter.by = "Start"
         /\ starter'.by = "Start" /\ starter'.groups = {"all"} /\ starter'.left = <<>>
  BY <1>1 DEF StartNvtop, GpuInv, GpuTypeOK
<1>3. gpuCollector \in [Sources -> GpuStates]
  BY DEF GpuInv, GpuTypeOK, GpuStates
<1>4. /\ gpuCollector' \in [Sources -> GpuStates] /\ gpuCollector'["nvtop"] = "collecting"
      /\ \A t \in Sources \ {"nvtop"} : gpuCollector'[t] = gpuCollector[t]
  BY <1>1, <1>3, OneChanges DEF GpuStates
<1>5. \A t \in Sources \ {"nvtop"} : gpuCollector'[t] = "off"
  BY <1>1, <1>4 DEF GpuInv
<1>6. \A t \in Sources : Running(t)' => t = "nvtop"
  BY <1>5 DEF Running
<1>7. OneSourcePerVendor'
  BY <1>6 DEF OneSourcePerVendor
<1>8. manager \notin {"new", "stopped"}
  <2>1. starter.by = "Start" => manager = "starting"
    BY <1>1 DEF GpuInv
  <2>2. starter.by # "Start" => gpuCollector["nvtop"] = "falling back"
    BY <1>1 DEF GpuInv, GpuTypeOK
  <2> QED
    BY <1>1, <2>1, <2>2 DEF GpuInv
<1>9. GpuTypeOK'
  <2>1. starter' # NoList => starter'.by = "Start" /\ starter'.groups \subseteq {Group[t] : t \in Sources}
    BY <1>2
  <2>2. \A t \in Sources : gpuCollector'[t] # "off" => t = "nvml" \/ t \in machine.has
    BY <1>1, <1>5
  <2> QED
    BY <1>1, <1>4, <2>1, <2>2 DEF GpuInv, GpuTypeOK, GpuStates
<1>10. \A t \in Sources : failures'[t] > MaxRetries => gpuCollector'[t] = "ended"
  <2>1. ~ (failures["nvtop"] > MaxRetries)
    BY RetriesAssumption DEF GpuInv
  <2> QED
    BY <1>1, <1>4, <2>1 DEF GpuInv
<1>11. starter' # NoList => starter.by = "Start" /\ starter'.left = <<>>
  BY <1>2
<1>12. manager = "starting" \/ starter' = NoList
  BY <1>1, <1>2 DEF GpuInv
<1> QED
  BY <1>1, <1>5, <1>7, <1>8, <1>9, <1>10, <1>11, <1>12 DEF GpuInv

\* The list ends: the manager is started or stops, or the goroutine of nvtop ends.
LEMMA ListDoneInv == GpuInv /\ ListDone => GpuInv'
<1> SUFFICES ASSUME GpuInv, ListDone PROVE GpuInv'
  OBVIOUS
<1> USE SourceNames
<1>1. starter # NoList /\ starter' = NoList /\ UNCHANGED <<machine, failures, rest>>
  BY DEF ListDone
<1>2. gpuCollector \in [Sources -> GpuStates]
  BY DEF GpuInv, GpuTypeOK, GpuStates
<1>3. CASE starter.by = "nvtop"
  <2>1. /\ gpuCollector' = [gpuCollector EXCEPT !["nvtop"] = "ended"]
        /\ UNCHANGED <<manager, gpuCancelled>>
    BY <1>3 DEF ListDone
  <2>2. /\ gpuCollector' \in [Sources -> GpuStates] /\ gpuCollector'["nvtop"] = "ended"
        /\ \A t \in Sources \ {"nvtop"} : gpuCollector'[t] = gpuCollector[t]
    BY <1>2, <2>1, OneChanges DEF GpuStates
  <2>3. \A t \in Sources : Running(t)' => Running(t) /\ t # "nvtop"
    BY <2>2 DEF Running
  <2>4. OneSourcePerVendor'
    BY <2>3 DEF GpuInv, OneSourcePerVendor
  <2>5. gpuCollector["nvtop"] = "falling back"
    BY <1>1, <1>3 DEF GpuInv, GpuTypeOK
  <2>6. GpuTypeOK'
    BY <1>1, <2>1, <2>2, <2>5 DEF GpuInv, GpuTypeOK, GpuStates
  <2>7. \A t \in Sources : gpuCollector'[t] = gpuCollector[t] \/ gpuCollector'[t] = "ended"
    BY <2>2
  <2>8. manager # "new"
    BY <1>1 DEF GpuInv
  <2> QED
    BY <1>1, <2>1, <2>3, <2>4, <2>6, <2>7, <2>8 DEF GpuInv
<1>4. CASE starter.by # "nvtop"
  <2>1. manager' \in {"stopping", "started"} /\ UNCHANGED gpuCollector /\ gpuCancelled' \in BOOLEAN
    BY <1>4 DEF ListDone, GpuInv, GpuTypeOK
  <2>2. \A t \in Sources : Running(t)' = Running(t)
    BY <2>1 DEF Running
  <2>3. OneSourcePerVendor'
    BY <2>2 DEF GpuInv, OneSourcePerVendor
  <2>4. GpuTypeOK'
    BY <1>1, <2>1 DEF GpuInv, GpuTypeOK
  <2> QED
    BY <1>1, <2>1, <2>2, <2>3, <2>4 DEF GpuInv
<1> QED
  BY <1>3, <1>4

-----------------------------------------------------------------------------
(* The loops of the collectors.                                             *)

\* A collector that runs goes on or ends, and its failures are counted.
LEMMA LoopStep ==
  ASSUME GpuInv, NEW s \in Sources, Running(s), NEW v \in {"collecting", "resting", "ended"},
         gpuCollector' = [gpuCollector EXCEPT ![s] = v],
         UNCHANGED <<machine, manager, gpuCancelled, starter>>,
         failures' \in [Sources -> 0 .. MaxRetries + 1], failures'["nvtop"] = 0,
         \A t \in Sources \ {s} : failures'[t] = failures[t],
         failures'[s] > MaxRetries => v = "ended"
  PROVE  GpuInv'
<1> USE SourceNames
<1>1. gpuCollector \in [Sources -> GpuStates]
  BY DEF GpuInv, GpuTypeOK, GpuStates
<1>2. /\ gpuCollector' \in [Sources -> GpuStates] /\ gpuCollector'[s] = v
      /\ \A t \in Sources \ {s} : gpuCollector'[t] = gpuCollector[t]
  BY <1>1, OneChanges DEF GpuStates
<1>3. gpuCollector[s] \in {"collecting", "resting"}
  BY DEF Running
<1>4. \A t \in Sources : Running(t)' => Running(t)
  BY <1>2 DEF Running
<1>5. OneSourcePerVendor'
  BY <1>4 DEF GpuInv, OneSourcePerVendor
<1>6. GpuTypeOK'
  <2>1. \A t \in Sources : gpuCollector'[t] # "off" => t = "nvml" \/ t \in machine.has
    BY <1>2, <1>3 DEF GpuInv, GpuTypeOK
  <2>2. starter # NoList /\ starter.by = "nvtop" => gpuCollector'["nvtop"] = "falling back"
    BY <1>2, <1>3 DEF GpuInv, GpuTypeOK
  <2> QED
    BY <1>2, <2>1, <2>2 DEF GpuInv, GpuTypeOK, GpuStates
<1>7. manager \notin {"new", "stopped"}
  BY <1>3 DEF GpuInv
<1>8. \A t \in Sources : gpuCollector'[t] = "off" <=> gpuCollector[t] = "off"
  BY <1>2, <1>3
<1>9. \A t \in Sources : failures'[t] > MaxRetries => gpuCollector'[t] = "ended"
  BY <1>2 DEF GpuInv
<1> QED
  BY <1>4, <1>5, <1>6, <1>7, <1>8, <1>9 DEF GpuInv

\* The collections and the sleep between them.
LEMMA LoopsInv ==
  ASSUME GpuInv, NEW s \in Sources,
         CollectionEnds(s) \/ CollectionFails(s) \/ CollectAgain(s) \/ CollectorReturns(s)
  PROVE  GpuInv'
<1> USE SourceNames
<1>1. /\ failures \in [Sources -> 0 .. MaxRetries + 1] /\ failures["nvtop"] = 0
      /\ failures[s] > MaxRetries => gpuCollector[s] = "ended"
  BY DEF GpuInv, GpuTypeOK
<1>2. CASE CollectionEnds(s)
  <2>1. Running(s) /\ gpuCollector' = [gpuCollector EXCEPT ![s] = "resting"]
    BY <1>2 DEF CollectionEnds, Running
  <2>2. gpuCollector[s] # "ended" /\ UNCHANGED <<machine, manager, gpuCancelled, starter>>
    BY <1>2 DEF CollectionEnds
  <2>3. /\ failures' \in [Sources -> 0 .. MaxRetries + 1] /\ failures'["nvtop"] = 0
        /\ \A t \in Sources \ {s} : failures'[t] = failures[t]
        /\ failures'[s] \in {0, failures[s]}
    <3>1. failures' = failures \/ failures' = [failures EXCEPT ![s] = 0]
      BY <1>2 DEF CollectionEnds
    <3> QED
      BY <1>1, <3>1, RetriesAssumption
  <2>4. ~ (failures'[s] > MaxRetries)
    BY <1>1, <2>2, <2>3, RetriesAssumption
  <2> QED
    BY <2>1, <2>2, <2>3, <2>4, LoopStep
<1>3. CASE CollectionFails(s)
  <2>1. /\ Running(s) /\ s # "nvtop" /\ gpuCollector[s] # "ended"
        /\ UNCHANGED <<machine, manager, gpuCancelled, starter>>
    BY <1>3 DEF CollectionFails, Running
  <2>2. /\ failures' \in [Sources -> 0 .. MaxRetries + 1] /\ failures'["nvtop"] = 0
        /\ \A t \in Sources \ {s} : failures'[t] = failures[t]
        /\ s \notin Counted => failures'[s] = failures[s]
    <3>1. \/ failures' = failures
          \/ failures' = [failures EXCEPT ![s] = failures[s] + 1] /\ s \in Counted
      BY <1>3 DEF CollectionFails
    <3>2. failures[s] \in 0 .. MaxRetries
      BY <1>1, <2>1, RetriesAssumption
    <3>3. failures[s] + 1 \in 0 .. MaxRetries + 1
      BY <3>2, RetriesAssumption
    <3>4. CASE failures' = failures
      BY <1>1, <3>4
    <3>5. CASE failures' = [failures EXCEPT ![s] = failures[s] + 1] /\ s \in Counted
      <4>1. failures' \in [Sources -> 0 .. MaxRetries + 1]
        BY <1>1, <3>3, <3>5
      <4>2. \A t \in Sources \ {s} : failures'[t] = failures[t]
        BY <1>1, <3>5
      <4> QED
        BY <1>1, <2>1, <3>5, <4>1, <4>2
    <3> QED
      BY <3>1, <3>4, <3>5
  <2>3. \/ /\ gpuCollector' = [gpuCollector EXCEPT ![s] = "resting"]
           /\ s \in Counted => failures'[s] <= MaxRetries
        \/ gpuCollector' = [gpuCollector EXCEPT ![s] = "ended"]
    BY <1>3 DEF CollectionFails
  <2>4. CASE gpuCollector' = [gpuCollector EXCEPT ![s] = "resting"]
    <3>1. gpuCollector'[s] = "resting"
      BY <2>4 DEF GpuInv, GpuTypeOK
    <3>2. gpuCollector' # [gpuCollector EXCEPT ![s] = "ended"]
      BY <3>1 DEF GpuInv, GpuTypeOK
    <3>3. CASE s \in Counted
      <4>1. failures'[s] <= MaxRetries
        BY <2>3, <3>2, <3>3
      <4>2. ~ (failures'[s] > MaxRetries)
        BY <2>2, <4>1, RetriesAssumption
      <4> QED
        BY <2>1, <2>2, <2>4, <4>2, LoopStep
    <3>4. CASE s \notin Counted
      <4>1. ~ (failures'[s] > MaxRetries)
        BY <1>1, <2>1, <2>2, <3>4, RetriesAssumption
      <4> QED
        BY <2>1, <2>2, <2>4, <4>1, LoopStep
    <3> QED
      BY <3>3, <3>4
  <2>5. CASE gpuCollector' = [gpuCollector EXCEPT ![s] = "ended"]
    BY <2>1, <2>2, <2>5, LoopStep
  <2> QED
    BY <2>3, <2>4, <2>5
<1>4. CASE CollectAgain(s)
  <2>1. /\ Running(s) /\ gpuCollector' = [gpuCollector EXCEPT ![s] = "collecting"]
        /\ gpuCollector[s] # "ended"
        /\ UNCHANGED <<machine, manager, gpuCancelled, starter, failures>>
    BY <1>4 DEF CollectAgain, Running
  <2> QED
    BY <1>1, <2>1, LoopStep
<1>5. CASE CollectorReturns(s)
  <2>1. /\ Running(s) /\ gpuCollector' = [gpuCollector EXCEPT ![s] = "ended"]
        /\ UNCHANGED <<machine, manager, gpuCancelled, starter, failures>>
    BY <1>5 DEF CollectorReturns
  <2> QED
    BY <1>1, <2>1, LoopStep
<1> QED
  BY <1>2, <1>3, <1>4, <1>5

\* The goroutine of nvtop goes through the rest of the list: nothing else was started.
LEMMA FallBackInv == GpuInv /\ FallBack => GpuInv'
<1> SUFFICES ASSUME GpuInv, FallBack PROVE GpuInv'
  OBVIOUS
<1> USE SourceNames
<1>1. /\ gpuCollector["nvtop"] = "collecting" /\ starter = NoList
      /\ starter'.by = "nvtop" /\ starter'.groups = {}
      /\ gpuCollector' = [gpuCollector EXCEPT !["nvtop"] = "falling back"]
      /\ UNCHANGED <<machine, manager, gpuCancelled, failures, rest>>
  BY DEF FallBack
<1>2. gpuCollector \in [Sources -> GpuStates]
  BY DEF GpuInv, GpuTypeOK, GpuStates
<1>3. /\ gpuCollector' \in [Sources -> GpuStates] /\ gpuCollector'["nvtop"] = "falling back"
      /\ \A t \in Sources \ {"nvtop"} : gpuCollector'[t] = gpuCollector[t]
  BY <1>1, <1>2, OneChanges DEF GpuStates
<1>4. Running("nvtop")
  BY <1>1 DEF Running
<1>5. \A t \in Sources \ {"nvtop"} : gpuCollector'[t] = "off"
  <2> HIDE SourceNames
  <2>1. \A t \in Sources \ {"nvtop"} : gpuCollector[t] = "off"
    BY <1>4 DEF GpuInv
  <2> QED
    BY <1>3, <2>1
<1>6. \A t \in Sources : ~ Running(t)'
  BY <1>3, <1>5 DEF Running
<1>7. OneSourcePerVendor'
  BY <1>6 DEF OneSourcePerVendor
<1>8. manager \notin {"new", "stopped"}
  BY <1>1 DEF GpuInv
<1>9. GpuTypeOK'
  <2>1. \A t \in Sources : gpuCollector'[t] # "off" => t = "nvml" \/ t \in machine.has
    BY <1>1, <1>5 DEF GpuInv, GpuTypeOK
  <2>2. GpuTypeOK
    BY DEF GpuInv
  <2> HIDE SourceNames
  <2> QED
    BY <1>1, <1>3, <2>1, <2>2 DEF GpuTypeOK, GpuStates
<1>10. \A t \in Sources : failures'[t] > MaxRetries => gpuCollector'[t] = "ended"
  <2>1. ~ (failures["nvtop"] > MaxRetries)
    BY RetriesAssumption DEF GpuInv
  <2> QED
    BY <1>1, <1>3, <2>1 DEF GpuInv
<1> QED
  BY <1>1, <1>5, <1>6, <1>7, <1>8, <1>9, <1>10 DEF GpuInv

-----------------------------------------------------------------------------
(* Stopping, and the theorems.                                              *)

\* The manager moves on; the collectors, the list and the failures stay.
LEMMA StoppingInv == GpuInv /\ (AgentCancelled \/ StopGpu \/ CollectorsJoined) => GpuInv'
<1> SUFFICES ASSUME GpuInv, AgentCancelled \/ StopGpu \/ CollectorsJoined PROVE GpuInv'
  OBVIOUS
<1>1. /\ UNCHANGED <<machine, starter, gpuCollector, failures, rest>>
      /\ gpuCancelled' \in BOOLEAN
      /\ manager \in {"starting", "started", "stopping"}
      /\ manager' \in {"starting", "started", "stopping", "stopped"}
      /\ manager = "starting" => manager' = "starting"
      /\ manager' = "stopped" => \A s \in Sources : gpuCollector[s] \in {"off", "ended"}
  BY DEF AgentCancelled, StopGpu, CollectorsJoined, GpuInv, GpuTypeOK
<1>2. \A t \in Sources : Running(t)' = Running(t)
  BY <1>1 DEF Running
<1>3. Running("nvtop")' = Running("nvtop")
  BY <1>1 DEF Running
<1>4. OneSourcePerVendor'
  BY <1>2 DEF GpuInv, OneSourcePerVendor
<1>5. GpuTypeOK'
  BY <1>1 DEF GpuInv, GpuTypeOK
<1> QED
  BY <1>1, <1>3, <1>4, <1>5 DEF GpuInv

LEMMA GpuStep == GpuInv /\ [GpuNext]_gpuVars => GpuInv'
<1> SUFFICES ASSUME GpuInv, [GpuNext]_gpuVars PROVE GpuInv'
  OBVIOUS
<1>1. CASE WorkThroughList
  BY <1>1, SkipSourceInv, StartVendorSourceInv, StartNvtopInv, ListDoneInv DEF WorkThroughList
<1>2. CASE StartGpu \/ FallBack
  BY <1>2, StartGpuInv, FallBackInv
<1>3. CASE AgentCancelled \/ StopGpu \/ CollectorsJoined
  BY <1>3, StoppingInv
<1>4. CASE \E s \in Sources :
             CollectionEnds(s) \/ CollectionFails(s) \/ CollectAgain(s) \/ CollectorReturns(s)
  BY <1>4, LoopsInv
<1>5. CASE UNCHANGED gpuVars
  <2>1. \A t \in Sources : Running(t)' = Running(t)
    BY <1>5 DEF gpuVars, Running
  <2>2. Running("nvtop")' = Running("nvtop")
    BY <1>5 DEF gpuVars, Running
  <2>3. OneSourcePerVendor'
    BY <2>1 DEF GpuInv, OneSourcePerVendor
  <2>4. GpuTypeOK'
    BY <1>5 DEF gpuVars, GpuInv, GpuTypeOK
  <2> QED
    BY <1>5, <2>2, <2>3, <2>4 DEF gpuVars, GpuInv
<1> QED
  BY <1>1, <1>2, <1>3, <1>4, <1>5 DEF GpuNext

LEMMA InvHolds == GpuSpec => []GpuInv
BY GpuInitInv, GpuStep, PTL DEF GpuSpec

\* The state is well typed, and a collector whose failures are too many has ended.
THEOREM GpuTypeCorrect == GpuSpec => []GpuTypeOK
<1>1. GpuInv => GpuTypeOK
  BY DEF GpuInv
<1> QED
  BY <1>1, InvHolds, PTL

\* One source for a vendor, whatever is installed and listed: see OneSourcePerVendor.
THEOREM VendorsHaveOneSource == GpuSpec => []OneSourcePerVendor
<1>1. GpuInv => OneSourcePerVendor
  BY DEF GpuInv
<1> QED
  BY <1>1, InvHolds, PTL

(***************************************************************************)
(* Stop waits for everything that collects or may start a collector: see   *)
(* NoCollectorAfterStop.                                                   *)
(***************************************************************************)
THEOREM StopIsFinal == GpuSpec => []NoCollectorAfterStop
<1>1. GpuInv => NoCollectorAfterStop
  <2> SUFFICES ASSUME GpuInv, manager = "stopped" PROVE NoCollectorAfterStop
    BY DEF NoCollectorAfterStop
  <2>1. \A s \in Sources : ~ Running(s)
    BY DEF GpuInv, Running
  <2>2. starter = NoList
    <3>1. gpuCollector["nvtop"] # "falling back"
      BY SourceNames DEF GpuInv
    <3> QED
      BY <3>1 DEF GpuInv, GpuTypeOK
  <2> QED
    BY <2>1, <2>2 DEF NoCollectorAfterStop
<1> QED
  BY <1>1, InvHolds, PTL

-----------------------------------------------------------------------------
(* The systemd services.                                                    *)

LEMMA ListingStages ==
  ASSUME SystemdTypeOK, NEW r \in Refreshers, Updating(r) PROVE listing[r] \in Updates
BY DEF SystemdTypeOK, Updating, NotListing, Connected

\* One unit of a listing is done with.
LEMMA UnitIsDone ==
  ASSUME SystemdTypeOK, NEW r \in Refreshers, Updating(r), NEW u \in listing[r].left,
         listing' = [listing EXCEPT ![r].left = @ \ {u}]
  PROVE  /\ listing' \in [Refreshers -> {NotListing, Connected} \cup Updates]
         /\ \A q \in Refreshers : listing'[q] \in Updates =>
              \A v \in listing'[q].left : listing'[q].of[v] # "unloaded"
<1>1. listing[r] \in Updates /\ listing \in [Refreshers -> {NotListing, Connected} \cup Updates]
  BY ListingStages DEF SystemdTypeOK
<1>2. /\ listing'[r] = [listing[r] EXCEPT !.left = @ \ {u}]
      /\ \A q \in Refreshers \ {r} : listing'[q] = listing[q]
  BY <1>1
<1>3. /\ listing'[r] \in Updates /\ listing'[r].of = listing[r].of
      /\ listing'[r].left \subseteq listing[r].left
  BY <1>1, <1>2 DEF Updates
<1>4. listing' \in [Refreshers -> {NotListing, Connected} \cup Updates]
  BY <1>1, <1>3
<1> QED
  BY <1>1, <1>2, <1>3, <1>4 DEF SystemdTypeOK

\* A refresh begins or ends.
LEMMA RefreshMoves ==
  ASSUME SystemdTypeOK, NEW r \in Refreshers, NEW v \in {NotListing, Connected},
         listing' = [listing EXCEPT ![r] = v]
  PROVE  /\ listing' \in [Refreshers -> {NotListing, Connected} \cup Updates]
         /\ \A q \in Refreshers : listing'[q] \in Updates =>
              \A u \in listing'[q].left : listing'[q].of[u] # "unloaded"
<1>1. v \notin Updates
  BY DEF NotListing, Connected, Updates
<1>2. listing \in [Refreshers -> {NotListing, Connected} \cup Updates]
  BY DEF SystemdTypeOK
<1>3. listing'[r] = v /\ \A q \in Refreshers \ {r} : listing'[q] = listing[q]
  BY <1>2
<1>4. listing' \in [Refreshers -> {NotListing, Connected} \cup Updates]
  BY <1>2
<1> QED
  BY <1>1, <1>3, <1>4 DEF SystemdTypeOK

LEMMA RefreshIsTyped ==
  ASSUME SystemdTypeOK, NEW r \in Refreshers, Refresh(r) \/ SkipService(r) \/ GiveUp(r)
  PROVE  SystemdTypeOK'
<1> DEFINE Typed == /\ listing \in [Refreshers -> {NotListing, Connected} \cup Updates]
                    /\ \A q \in Refreshers : listing[q] \in Updates =>
                         \A u \in listing[q].left : listing[q].of[u] # "unloaded"
<1>1. CASE Connect(r)
  <2>1. Typed'
    BY <1>1, RefreshMoves DEF Connect
  <2> QED
    BY <1>1, <2>1 DEF Connect, SystemdTypeOK
<1>2. CASE ListUnits(r)
  <2> DEFINE new == [stage |-> "update", of |-> units, left |-> {u \in Units : units[u] # "unloaded"}]
  <2>1. new \in Updates /\ \A u \in new.left : new.of[u] # "unloaded"
    BY DEF Updates, SystemdTypeOK
  <2>2. listing' = [listing EXCEPT ![r] = new]
    BY <1>2 DEF ListUnits
  <2> HIDE DEF new
  <2>3. Typed'
    BY <2>1, <2>2 DEF SystemdTypeOK
  <2> QED
    BY <1>2, <2>3 DEF ListUnits, SystemdTypeOK
<1>3. CASE UpdateService(r)
  <2>1. PICK u \in listing[r].left :
          /\ listing' = [listing EXCEPT ![r].left = @ \ {u}]
          /\ IF units[u] \in HasBeenActive
               THEN \E s \in Parsed(listing[r].of[u]) : services' = [services EXCEPT ![u] = s]
               ELSE UNCHANGED services
    BY <1>3 DEF UpdateService
  <2>2. Parsed(listing[r].of[u]) \subseteq HasBeenActive
    <3>1. listing[r] \in Updates
      BY <1>3, ListingStages DEF UpdateService
    <3>2. u \in Units /\ listing[r].of[u] \in UnitStates /\ listing[r].of[u] # "unloaded"
      BY <3>1, <2>1 DEF SystemdTypeOK, Updates
    <3> QED
      BY <3>2 DEF Parsed, UnitStates, HasBeenActive
  <2>3. Typed'
    BY <1>3, <2>1, UnitIsDone DEF UpdateService
  <2>4. services' \in [Units -> HasBeenActive \cup {NoService}]
    BY <2>1, <2>2 DEF SystemdTypeOK
  <2> QED
    BY <1>3, <2>3, <2>4 DEF UpdateService, SystemdTypeOK
<1>4. CASE RemoveStaleServices(r)
  <2>1. Typed'
    BY <1>4, RefreshMoves DEF RemoveStaleServices
  <2>2. services' \in [Units -> HasBeenActive \cup {NoService}]
    BY <1>4 DEF RemoveStaleServices, SystemdTypeOK
  <2> QED
    BY <1>4, <2>1, <2>2 DEF RemoveStaleServices, SystemdTypeOK
<1>5. CASE SkipService(r)
  <2>1. Typed'
    BY <1>5, UnitIsDone DEF SkipService
  <2>2. systemdErrors' \in 0 .. MaxSystemdErrors
    BY <1>5, UnitBoundsAssumption DEF SkipService, SystemdTypeOK
  <2> QED
    BY <1>5, <2>1, <2>2 DEF SkipService, SystemdTypeOK
<1>6. CASE GiveUp(r)
  <2>1. Typed'
    BY <1>6, RefreshMoves DEF GiveUp
  <2>2. systemdErrors' \in 0 .. MaxSystemdErrors
    BY <1>6, UnitBoundsAssumption DEF GiveUp, SystemdTypeOK
  <2> QED
    BY <1>6, <2>1, <2>2 DEF GiveUp, SystemdTypeOK
<1> QED
  BY <1>1, <1>2, <1>3, <1>4, <1>5, <1>6 DEF Refresh

LEMMA SystemdInitTyped == SystemdInit => SystemdTypeOK
<1> SUFFICES ASSUME SystemdInit PROVE SystemdTypeOK
  OBVIOUS
<1>1. \A r \in Refreshers : listing[r] \notin Updates
  BY DEF SystemdInit, NotListing, Updates
<1>2. listing \in [Refreshers -> {NotListing, Connected} \cup Updates]
  BY DEF SystemdInit
<1>3. units \in [Units -> UnitStates] /\ services \in [Units -> HasBeenActive \cup {NoService}]
  BY DEF SystemdInit, UnitStates, HasBeenActive
<1>4. unitChanges \in 0 .. MaxUnitChanges /\ systemdErrors \in 0 .. MaxSystemdErrors
  BY UnitBoundsAssumption DEF SystemdInit
<1> QED
  BY <1>1, <1>2, <1>3, <1>4 DEF SystemdInit, SystemdTypeOK

LEMMA SystemdStep == SystemdTypeOK /\ [SystemdNext]_systemdVars => SystemdTypeOK'
<1> SUFFICES ASSUME SystemdTypeOK, [SystemdNext]_systemdVars PROVE SystemdTypeOK'
  OBVIOUS
<1>1. CASE UnitChanges
  <2>1. unitChanges' \in 0 .. MaxUnitChanges
    <3>1. unitChanges \in 0 .. MaxUnitChanges
      BY DEF SystemdTypeOK
    <3>2. unitChanges < MaxUnitChanges /\ unitChanges' = unitChanges + 1
      BY <1>1 DEF UnitChanges
    <3> QED
      BY <3>1, <3>2, UnitBoundsAssumption
  <2>2. units' \in [Units -> UnitStates]
    BY <1>1 DEF UnitChanges, SystemdTypeOK
  <2> QED
    BY <1>1, <2>1, <2>2 DEF UnitChanges, SystemdTypeOK
<1>2. CASE StartManager \/ StartWorker \/ StopManager \/ WorkerJoined
  BY <1>2 DEF StartManager, StartWorker, StopManager, WorkerJoined, Turn, SystemdTypeOK
<1>3. CASE \E r \in Refreshers : Refresh(r) \/ SkipService(r) \/ GiveUp(r)
  BY <1>3, RefreshIsTyped
<1>4. CASE UNCHANGED systemdVars
  BY <1>4 DEF systemdVars, SystemdTypeOK
<1> QED
  BY <1>1, <1>2, <1>3, <1>4 DEF SystemdNext

\* The map and every listing keep their shape, however refreshes overlap: what is still to
\* be updated of a listing was loaded when it was made.
THEOREM SystemdTypeCorrect == SystemdSpec => []SystemdTypeOK
BY SystemdInitTyped, SystemdStep, PTL DEF SystemdSpec

-----------------------------------------------------------------------------
(* The agent runtime: its types, and the configuration in force.            *)

LEMMA RuntimeInitTyped == Init \/ RuntimeAtRest => TypeOK
<1>1. Init => TypeOK
  <2> SUFFICES ASSUME Init PROVE TypeOK
    OBVIOUS
  <2>1. updates \in Seq(Configs) /\ Len(updates) <= 1
    BY DEF Init
  <2>2. reload \in [Actor -> Reloading \cup {NotReloading}]
    BY DEF Init
  <2>3. config \in [history : Configs, reported : Configs, ticker : Configs]
    BY DEF Init
  <2>4. reloads \in 0 .. MaxReloads
    BY MaxReloadsAssumption DEF Init
  <2> QED
    BY <2>1, <2>2, <2>3, <2>4 DEF Init, TypeOK, MainStage, Startup
<1>2. RuntimeAtRest => TypeOK
  <2> SUFFICES ASSUME RuntimeAtRest PROVE TypeOK
    OBVIOUS
  <2>1. updates \in Seq(Configs) /\ Len(updates) <= 1
    BY DEF RuntimeAtRest
  <2>2. reload \in [Actor -> Reloading \cup {NotReloading}]
    BY DEF RuntimeAtRest
  <2>3. config \in [history : Configs, reported : Configs, ticker : Configs]
    BY RestAssumption DEF RuntimeAtRest
  <2>4. reloads \in 0 .. MaxReloads
    BY MaxReloadsAssumption DEF RuntimeAtRest
  <2> QED
    BY <2>1, <2>2, <2>3, <2>4 DEF RuntimeAtRest, TypeOK, MainStage
<1> QED
  BY <1>1, <1>2

\* What a reload may do to the state of its actor.
LEMMA ReloadMoves ==
  ASSUME TypeOK, NEW a \in Actor, reload[a] # NotReloading,
         NEW s \in {"apply", "report", "lookup", "send", "drain", "resend"}, MoveTo(a, s)
  PROVE  /\ reload' \in [Actor -> Reloading \cup {NotReloading}]
         /\ reload'[a] \in Reloading /\ reload'[a].stage = s /\ reload'[a].cfg = reload[a].cfg
         /\ \A b \in Actor \ {a} : reload'[b] = reload[b]
<1>1. reload[a] \in Reloading /\ reload \in [Actor -> Reloading \cup {NotReloading}]
  BY DEF TypeOK
<1>2. /\ reload'[a] = [reload[a] EXCEPT !.stage = s]
      /\ \A b \in Actor \ {a} : reload'[b] = reload[b]
  BY <1>1 DEF MoveTo
<1>3. reload'[a] \in Reloading /\ reload'[a].stage = s /\ reload'[a].cfg = reload[a].cfg
  BY <1>1, <1>2 DEF Reloading
<1>4. reload' \in [Actor -> Reloading \cup {NotReloading}]
  BY <1>1, <1>3 DEF MoveTo
<1> QED
  BY <1>2, <1>3, <1>4

LEMMA ReloadFinishes ==
  ASSUME TypeOK, NEW a \in Actor, FinishReload(a)
  PROVE  /\ reload' \in [Actor -> Reloading \cup {NotReloading}]
         /\ reload'[a] = NotReloading
         /\ \A b \in Actor \ {a} : reload'[b] = reload[b]
BY DEF TypeOK, FinishReload

LEMMA ReloadStarts ==
  ASSUME TypeOK, NEW a \in Actor, StartReload(a)
  PROVE  /\ reload' \in [Actor -> Reloading \cup {NotReloading}]
         /\ reload'[a] \in Reloading /\ reload'[a].stage = "apply"
         /\ \A b \in Actor \ {a} : reload'[b] = reload[b]
         /\ reloads' \in 0 .. MaxReloads
<1>1. PICK c \in Configs : reload' = [reload EXCEPT ![a] = [stage |-> "apply", cfg |-> c]]
  BY DEF StartReload
<1>2. [stage |-> "apply", cfg |-> c] \in Reloading
  BY DEF Reloading
<1>3. reload \in [Actor -> Reloading \cup {NotReloading}] /\ reloads \in 0 .. MaxReloads
  BY DEF TypeOK
<1>4. reloads < MaxReloads /\ reloads' = reloads + 1
  BY DEF StartReload
<1>5. reloads' \in 0 .. MaxReloads
  BY <1>3, <1>4, MaxReloadsAssumption
<1> QED
  BY <1>1, <1>2, <1>3, <1>5

\* The stages of a reload are not the one of an actor that is idle.
LEMMA ReloadStages ==
  ASSUME TypeOK, NEW a \in Actor,
         reload[a].stage \in {"apply", "report", "lookup", "send", "drain", "resend"}
  PROVE  reload[a] # NotReloading /\ reload[a] \in Reloading /\ reload[a].cfg \in Configs
BY DEF TypeOK, NotReloading, Reloading

\* What is taken from the channel leaves it empty.
LEMMA TakenInterval ==
  ASSUME updates \in Seq(Configs), Len(updates) <= 1, updates # <<>>
  PROVE  /\ Head(updates) \in Configs /\ updates = <<Head(updates)>>
         /\ Tail(updates) = <<>> /\ Tail(updates) \in Seq(Configs) /\ Len(Tail(updates)) <= 1
<1>1. Len(updates) = 1
  <2>1. Len(updates) # 0 /\ Len(updates) \in Nat
    OBVIOUS
  <2> QED
    BY <2>1
<1>2. Head(updates) \in Configs /\ Tail(updates) \in Seq(Configs) /\ Len(Tail(updates)) = 0
  BY <1>1
<1>3. Tail(updates) = <<>>
  BY <1>2
<1>4. updates = <<Head(updates)>>
  BY <1>1
<1> QED
  BY <1>2, <1>3, <1>4

LEMMA ReloadIsTyped ==
  ASSUME TypeOK, NEW a \in Actor, ReloadStep(a)
  PROVE  TypeOK'
<1>1. UNCHANGED <<hup, reloads, reloadEnv>>
  BY DEF ReloadStep, ApplyHistory, ReportConfig, LookUpChannel, SendInterval, DrainInterval,
         ResendInterval
<1>2. reload[a].stage \in {"apply", "report", "lookup", "send", "drain", "resend"}
  BY DEF ReloadStep, ApplyHistory, ReportConfig, LookUpChannel, SendInterval, DrainInterval,
         ResendInterval
<1>3. reload[a] # NotReloading /\ reload[a].cfg \in Configs
  BY <1>2, ReloadStages
<1>4. FinishReload(a) \/ \E s \in {"report", "lookup", "send", "drain", "resend"} : MoveTo(a, s)
  BY DEF ReloadStep, ApplyHistory, ReportConfig, LookUpChannel, SendInterval, DrainInterval,
         ResendInterval
<1>5. reload' \in [Actor -> Reloading \cup {NotReloading}]
  BY <1>3, <1>4, ReloadFinishes, ReloadMoves
<1>6. config' \in [history : Configs, reported : Configs, ticker : Configs]
  <2>1. config \in [history : Configs, reported : Configs, ticker : Configs]
    BY DEF TypeOK
  <2>2. \/ config' = config \/ config' = [config EXCEPT !.history = reload[a].cfg]
        \/ config' = [config EXCEPT !.reported = reload[a].cfg]
    BY DEF ReloadStep, ApplyHistory, ReportConfig, LookUpChannel, SendInterval, DrainInterval,
           ResendInterval
  <2> QED
    BY <1>3, <2>1, <2>2
<1>7. updates' \in Seq(Configs) /\ Len(updates') <= 1
  <2>1. updates \in Seq(Configs) /\ Len(updates) <= 1
    BY DEF TypeOK
  <2>2. \/ updates' = updates
        \/ updates' = <<reload[a].cfg>>
        \/ updates # <<>> /\ updates' = Tail(updates)
    BY DEF ReloadStep, ApplyHistory, ReportConfig, LookUpChannel, SendInterval, DrainInterval,
           ResendInterval
  <2>3. CASE updates' = <<reload[a].cfg>>
    BY <1>3, <2>3
  <2>4. CASE updates # <<>> /\ updates' = Tail(updates)
    BY <2>1, <2>4, TakenInterval
  <2> QED
    BY <2>1, <2>2, <2>3, <2>4
<1> QED
  BY <1>1, <1>5, <1>6, <1>7 DEF TypeOK, reloadEnv

\* TypeOK in three parts.
ControlOK ==
  /\ main \in MainStage
  /\ collector \in {"none", "running", "exited"}
  /\ cycle \in {"off", "gather", "write", "health", "smart", "maintain"}
  /\ http \in {"off", "serving", "closed"}
  /\ store \in {"none", "open", "closed", "nil"}
  /\ result \in {"none", "ok", "error"}

FlagsOK ==
  /\ registered \in BOOLEAN /\ cancelled \in BOOLEAN /\ stopped \in BOOLEAN /\ hup \in BOOLEAN
  /\ serverErr \in BOOLEAN /\ managers \in BOOLEAN /\ health \in BOOLEAN

DataOK ==
  /\ reload \in [Actor -> Reloading \cup {NotReloading}]
  /\ busy \in SUBSET Handlers
  /\ updates \in Seq(Configs) /\ Len(updates) <= 1
  /\ config \in [history : Configs, reported : Configs, ticker : Configs]
  /\ reloads \in 0 .. MaxReloads

LEMMA TypeOKInParts == TypeOK <=> ControlOK /\ FlagsOK /\ DataOK
BY DEF TypeOK, ControlOK, FlagsOK, DataOK

\* StartContext touches no reload, no command and no configuration.
LEMMA StartContextIsTyped ==
  ASSUME TypeOK, MainStep \/ LoopSeesDone \/ LoopSeesServerError
  PROVE  TypeOK'
<1> USE DEF runtimeVars, cycleEnv
<1>0. ControlOK /\ FlagsOK /\ DataOK
  BY TypeOKInParts
<1>1. UNCHANGED <<reload, busy, updates, config, reloads>>
  BY DEF MainStep, LoopSeesDone, LoopSeesServerError, OpenStore, StartManagers, StartHTTPServers,
         OpenListeners, UndoHTTPServers, Register, StartCollector, ShutdownHTTPServers,
         CleanUpHealth, Unregister, CancelRun, JoinCollector, StopManagers, CloseStore, ClearStore
<1>2. DataOK'
  BY <1>0, <1>1 DEF DataOK
<1>3. ControlOK'
  <2> USE <1>0 DEF ControlOK, MainStage, Startup, Deferred
  <2>1. CASE OpenStore \/ StartManagers
    BY <2>1 DEF OpenStore, StartManagers
  <2>2. CASE StartHTTPServers \/ OpenListeners \/ UndoHTTPServers
    BY <2>2 DEF StartHTTPServers, OpenListeners, UndoHTTPServers
  <2>3. CASE Register \/ StartCollector
    BY <2>3 DEF Register, StartCollector
  <2>4. CASE ShutdownHTTPServers \/ CleanUpHealth
    BY <2>4 DEF ShutdownHTTPServers, CleanUpHealth
  <2>5. CASE Unregister \/ CancelRun \/ JoinCollector
    BY <2>5 DEF Unregister, CancelRun, JoinCollector
  <2>6. CASE StopManagers \/ CloseStore \/ ClearStore
    BY <2>6 DEF StopManagers, CloseStore, ClearStore
  <2>7. CASE LoopSeesDone \/ LoopSeesServerError
    BY <2>7 DEF LoopSeesDone, LoopSeesServerError
  <2> QED
    BY <2>1, <2>2, <2>3, <2>4, <2>5, <2>6, <2>7 DEF MainStep
<1>4. FlagsOK'
  <2> USE <1>0 DEF FlagsOK
  <2>1. CASE OpenStore \/ StartManagers
    BY <2>1 DEF OpenStore, StartManagers
  <2>2. CASE StartHTTPServers \/ OpenListeners \/ UndoHTTPServers
    BY <2>2 DEF StartHTTPServers, OpenListeners, UndoHTTPServers
  <2>3. CASE Register \/ StartCollector
    BY <2>3 DEF Register, StartCollector
  <2>4. CASE ShutdownHTTPServers \/ CleanUpHealth
    BY <2>4 DEF ShutdownHTTPServers, CleanUpHealth
  <2>5. CASE Unregister \/ CancelRun \/ JoinCollector
    BY <2>5 DEF Unregister, CancelRun, JoinCollector
  <2>6. CASE StopManagers \/ CloseStore \/ ClearStore
    BY <2>6 DEF StopManagers, CloseStore, ClearStore
  <2>7. CASE LoopSeesDone \/ LoopSeesServerError
    BY <2>7 DEF LoopSeesDone, LoopSeesServerError
  <2> QED
    BY <2>1, <2>2, <2>3, <2>4, <2>5, <2>6, <2>7 DEF MainStep
<1> QED
  BY <1>2, <1>3, <1>4, TypeOKInParts DEF TypeOK, ControlOK, FlagsOK, DataOK

\* A collection and the collector keep the types; an interval that is taken is a configuration's.
LEMMA CollectorIsTyped ==
  ASSUME TypeOK, CycleStep \/ CollectorStops \/ CollectorTakesInterval \/ CollectorTicks
  PROVE  TypeOK'
<1>0. ControlOK /\ FlagsOK /\ DataOK
  BY TypeOKInParts
<1>1. CASE CycleStep
  <2>1. UNCHANGED cycleEnv /\ health' \in {health, TRUE}
    BY <1>1 DEF CycleStep, Gather, WriteSnapshot, UpdateHealth, RefreshSmartIfDue, RunMaintenance
  <2>2. /\ cycle' \in {"off", "write", "health", "smart", "maintain"}
        /\ main' \in {main, "cancel", "http"} /\ result' \in {result, "error"}
    BY <1>1 DEF CycleStep, Gather, WriteSnapshot, UpdateHealth, RefreshSmartIfDue,
                RunMaintenance, GoOn, EndCycle
  <2>3. ControlOK'
    BY <1>0, <2>1, <2>2 DEF ControlOK, cycleEnv, MainStage, Startup, Deferred
  <2>4. FlagsOK' /\ DataOK'
    BY <1>0, <2>1 DEF FlagsOK, DataOK, cycleEnv
  <2> QED
    BY <2>3, <2>4 DEF TypeOK, ControlOK, FlagsOK, DataOK
<1>2. CASE CollectorStops
  BY <1>2 DEF CollectorStops, runtimeVars, TypeOK
<1>3. CASE CollectorTakesInterval
  <2>1. /\ updates # <<>> /\ config' = [config EXCEPT !.ticker = Head(updates)]
        /\ updates' = Tail(updates)
        /\ updates \in Seq(Configs) /\ Len(updates) <= 1
        /\ config \in [history : Configs, reported : Configs, ticker : Configs]
    BY <1>3 DEF CollectorTakesInterval, TypeOK
  <2>2. Head(updates) \in Configs /\ updates' \in Seq(Configs) /\ Len(updates') <= 1
    BY <2>1, TakenInterval
  <2>3. config' \in [history : Configs, reported : Configs, ticker : Configs]
    BY <2>1, <2>2
  <2> QED
    BY <1>3, <2>2, <2>3 DEF CollectorTakesInterval, TypeOK
<1>4. CASE CollectorTicks
  BY <1>4 DEF CollectorTicks, cycleEnv, TypeOK
<1> QED
  BY <1>1, <1>2, <1>3, <1>4

LEMMA CommandsAreTyped ==
  ASSUME TypeOK,
         \/ TakeSIGHUP \/ Cancel \/ SendSIGHUP \/ ServerFails
         \/ \E h \in Handlers : ReloadCommand(h) \/ StartCommand(h) \/ EndCommand(h)
  PROVE  TypeOK'
<1>0. ControlOK /\ FlagsOK /\ DataOK
  BY TypeOKInParts
<1>1. CASE TakeSIGHUP
  <2>1. "main" \in Actor
    BY DEF Actor
  <2>2. reload' \in [Actor -> Reloading \cup {NotReloading}] /\ reloads' \in 0 .. MaxReloads
    <3>1. CASE StartReload("main")
      BY <2>1, <3>1, ReloadStarts
    <3>2. CASE UNCHANGED <<reload, reloads>>
      BY <1>0, <3>2 DEF DataOK
    <3> QED
      BY <1>1, <3>1, <3>2 DEF TakeSIGHUP
  <2>3. UNCHANGED <<updates, config, reloadEnv>> /\ hup' = FALSE
    BY <1>1 DEF TakeSIGHUP
  <2>4. DataOK'
    BY <1>0, <2>2, <2>3 DEF DataOK, reloadEnv
  <2>5. ControlOK'
    BY <1>0, <2>3 DEF ControlOK, reloadEnv
  <2>6. FlagsOK'
    BY <1>0, <2>3 DEF FlagsOK, reloadEnv
  <2> QED
    BY <2>4, <2>5, <2>6 DEF TypeOK, ControlOK, FlagsOK, DataOK
<1>2. ASSUME NEW h \in Handlers, ReloadCommand(h) PROVE TypeOK'
  <2>1. h \in Actor /\ StartReload(h)
    BY <1>2 DEF Actor, ReloadCommand
  <2>2. reload' \in [Actor -> Reloading \cup {NotReloading}] /\ reloads' \in 0 .. MaxReloads
    BY <2>1, ReloadStarts
  <2> QED
    BY <1>2, <2>2 DEF ReloadCommand, TypeOK, reloadEnv
<1>3. ASSUME NEW h \in Handlers, StartCommand(h) \/ EndCommand(h) PROVE TypeOK'
  BY <1>3 DEF StartCommand, EndCommand, commandEnv, TypeOK
<1>4. CASE Cancel
  BY <1>4 DEF Cancel, TypeOK
<1>5. CASE ServerFails
  BY <1>5 DEF ServerFails, TypeOK
<1>6. CASE SendSIGHUP
  BY <1>6 DEF SendSIGHUP, reloadEnv, TypeOK
<1> QED
  BY <1>1, <1>2, <1>3, <1>4, <1>5, <1>6

LEMMA RuntimeIsTyped == TypeOK /\ [Next]_vars => TypeOK'
<1> SUFFICES ASSUME TypeOK, [Next]_vars PROVE TypeOK'
  OBVIOUS
<1>1. CASE UNCHANGED vars \/ Terminated
  BY <1>1 DEF Terminated, vars, TypeOK
<1>2. CASE Next /\ ~ Terminated
  BY <1>2, StartContextIsTyped, CollectorIsTyped, CommandsAreTyped, ReloadIsTyped DEF Next
<1> QED
  BY <1>1, <1>2

\* The channel of intervals never holds more than one, and every goroutine is where the
\* code has a place for it.
THEOREM RuntimeTypeCorrect == Spec => []TypeOK
BY RuntimeInitTyped, RuntimeIsTyped, PTL DEF Spec

\* What is reported is what the store keeps, and what the ticker has or will take.
InSync ==
  /\ config.history = config.reported
  /\ updates = <<>> => config.ticker = config.reported
  /\ updates # <<>> => Head(updates) = config.reported

(***************************************************************************)
(* Without reload commands the event loop is the only one to reload, and   *)
(* only in the loop, where the store is open.  Between its first and its   *)
(* last step the parts disagree, and then the interval that it sends is    *)
(* the last one that the ticker takes.                                     *)
(***************************************************************************)
FlowInv ==
  /\ \A h \in Handlers : Idle(h)
  /\ ~ Idle("main") => main = "loop"
  /\ reload["main"].stage \in {"idle", "apply"} => InSync
  /\ reload["main"].stage # "lookup"
  /\ reload["main"].stage \in {"report", "send", "drain", "resend"} =>
       config.history = reload["main"].cfg
  /\ reload["main"].stage \in {"send", "drain", "resend"} =>
       config.reported = reload["main"].cfg

\* The steps that leave reloads and their configuration alone.
FlowVars == <<reload, updates, config>>

LEMMA QuietSteps ==
  ASSUME FlowInv, UNCHANGED FlowVars, main' = main \/ Idle("main")
  PROVE  FlowInv'
<1>1. reload' = reload /\ updates' = updates /\ config' = config
  BY DEF FlowVars
<1>2. InSync' <=> InSync
  BY <1>1 DEF InSync
<1> QED
  BY <1>1, <1>2 DEF FlowInv, Idle

\* A reload by the event loop, step by step.
LEMMA ReloadFlows ==
  ASSUME TypeOK, RuntimeInv, FlowInv, ReloadStep("main")
  PROVE  FlowInv'
<1> DEFINE stage == reload["main"].stage
           cfg == reload["main"].cfg
<1>0. /\ "main" \in Actor /\ \A h \in Handlers : h \in Actor \ {"main"}
      /\ config \in [history : Configs, reported : Configs, ticker : Configs]
  BY HandlersAssumption DEF Actor, TypeOK
<1>1. stage \in {"apply", "report", "lookup", "send", "drain", "resend"}
  BY DEF ReloadStep, ApplyHistory, ReportConfig, LookUpChannel, SendInterval, DrainInterval,
         ResendInterval
<1>2. ~ Idle("main") /\ main = "loop" /\ main' = main
  <2>1. ~ Idle("main")
    BY <1>0, <1>1, ReloadStages DEF Idle
  <2>2. main' = main
    BY DEF ReloadStep, ApplyHistory, ReportConfig, LookUpChannel, SendInterval, DrainInterval,
           ResendInterval, reloadEnv
  <2> QED
    BY <2>1, <2>2 DEF FlowInv
<1>3. store = "open"
  BY <1>2 DEF RuntimeInv, ResourcesInv, ManagersUp
<1>4. ASSUME NEW s \in {"report", "send", "drain", "resend"}, MoveTo("main", s)
      PROVE  /\ reload'["main"].stage = s /\ reload'["main"].cfg = cfg
             /\ (\A h \in Handlers : Idle(h))'
  <2>1. /\ reload'["main"].stage = s /\ reload'["main"].cfg = cfg
        /\ \A b \in Actor \ {"main"} : reload'[b] = reload[b]
    BY <1>0, <1>2, <1>4, ReloadMoves DEF Idle
  <2> QED
    BY <1>0, <2>1 DEF FlowInv, Idle
<1>5. ASSUME FinishReload("main")
      PROVE  reload'["main"] = NotReloading /\ (\A h \in Handlers : Idle(h))'
  <2>1. reload'["main"] = NotReloading /\ \A b \in Actor \ {"main"} : reload'[b] = reload[b]
    BY <1>0, <1>5, ReloadFinishes
  <2> QED
    BY <1>0, <2>1 DEF FlowInv, Idle
<1>6. NotReloading.stage = "idle"
  BY DEF NotReloading
<1>7. CASE ApplyHistory("main")
  <2>1. stage = "apply" /\ InSync /\ updates' = updates
    BY <1>7 DEF ApplyHistory, FlowInv
  <2>2. CASE FinishReload("main") /\ UNCHANGED config
    <3>1. InSync'
      BY <2>1, <2>2 DEF InSync
    <3> QED
      BY <1>2, <1>5, <1>6, <2>2, <3>1 DEF FlowInv, Idle
  <2>3. CASE MoveTo("main", "report") /\ config' = [config EXCEPT !.history = cfg]
    <3>1. config'.history = cfg
      BY <1>0, <2>3
    <3>2. reload'["main"].stage = "report" /\ reload'["main"].cfg = cfg
          /\ (\A h \in Handlers : Idle(h))'
      BY <1>4, <2>3
    <3> QED
      BY <1>2, <3>1, <3>2 DEF FlowInv
  <2> QED
    BY <1>3, <1>7, <2>2, <2>3 DEF ApplyHistory
<1>8. CASE ReportConfig("main")
  <2>1. stage = "report" /\ config.history = cfg /\ MoveTo("main", "send")
        /\ config' = [config EXCEPT !.reported = cfg]
    BY <1>8 DEF ReportConfig, FlowInv
  <2>2. config'.history = cfg /\ config'.reported = cfg
    BY <1>0, <2>1
  <2>3. reload'["main"].stage = "send" /\ reload'["main"].cfg = cfg
        /\ (\A h \in Handlers : Idle(h))'
    BY <1>4, <2>1
  <2> QED
    BY <1>2, <2>2, <2>3 DEF FlowInv
<1>9. CASE LookUpChannel("main")
  BY <1>9 DEF LookUpChannel, FlowInv
<1>10. CASE SendInterval("main") \/ DrainInterval("main") \/ ResendInterval("main")
  <2>1. config.history = cfg /\ config.reported = cfg /\ config' = config
    BY <1>10 DEF SendInterval, DrainInterval, ResendInterval, FlowInv
  <2>2. \/ FinishReload("main") /\ updates' = <<cfg>>
        \/ \E s \in {"drain", "resend"} : MoveTo("main", s)
    BY <1>10 DEF SendInterval, DrainInterval, ResendInterval
  <2>3. CASE FinishReload("main") /\ updates' = <<cfg>>
    <3>1. updates' # <<>> /\ Head(updates') = cfg
      BY <2>3
    <3>2. InSync'
      BY <2>1, <3>1 DEF InSync
    <3> QED
      BY <1>2, <1>5, <1>6, <2>3, <3>2 DEF FlowInv, Idle
  <2>4. ASSUME NEW s \in {"drain", "resend"}, MoveTo("main", s) PROVE FlowInv'
    <3>1. reload'["main"].stage = s /\ reload'["main"].cfg = cfg
          /\ (\A h \in Handlers : Idle(h))'
      BY <1>4, <2>4
    <3> QED
      BY <1>2, <2>1, <3>1 DEF FlowInv
  <2> QED
    BY <2>2, <2>3, <2>4
<1> QED
  BY <1>7, <1>8, <1>9, <1>10 DEF ReloadStep

LEMMA FlowStep ==
  ASSUME "command" \notin ReloadSources, TypeOK, RuntimeInv, FlowInv, [Next]_vars
  PROVE  FlowInv'
<1>0. /\ "main" \in Actor /\ \A h \in Handlers : h \in Actor \ {"main"}
      /\ config \in [history : Configs, reported : Configs, ticker : Configs]
  BY HandlersAssumption DEF Actor, TypeOK
<1>1. CASE UNCHANGED vars \/ Terminated
  BY <1>1, QuietSteps DEF Terminated, vars, FlowVars
<1>2. CASE MainStep \/ LoopSeesDone \/ LoopSeesServerError
  <2>1. UNCHANGED FlowVars
    BY <1>2 DEF FlowVars, runtimeVars, cycleEnv, MainStep, LoopSeesDone, LoopSeesServerError,
         OpenStore, StartManagers, StartHTTPServers, OpenListeners, UndoHTTPServers, Register,
         StartCollector, ShutdownHTTPServers, CleanUpHealth, Unregister, CancelRun,
         JoinCollector, StopManagers, CloseStore, ClearStore
  <2>2. Idle("main")
    <3>1. main # "loop" \/ Idle("main")
      BY <1>2 DEF MainStep, LoopSeesDone, LoopSeesServerError, Selecting,
         OpenStore, StartManagers, StartHTTPServers, OpenListeners, UndoHTTPServers, Register,
         StartCollector, ShutdownHTTPServers, CleanUpHealth, Unregister, CancelRun,
         JoinCollector, StopManagers, CloseStore, ClearStore
    <3> QED
      BY <3>1 DEF FlowInv
  <2> QED
    BY <2>1, <2>2, QuietSteps
<1>3. CASE CycleStep
  <2>1. UNCHANGED FlowVars /\ (main' = main \/ main = "initial")
    BY <1>3 DEF FlowVars, cycleEnv, CycleStep, Gather, WriteSnapshot, UpdateHealth,
         RefreshSmartIfDue, RunMaintenance, GoOn, EndCycle
  <2>2. main' = main \/ Idle("main")
    BY <2>1 DEF FlowInv
  <2> QED
    BY <2>1, <2>2, QuietSteps
<1>4. CASE CollectorStops \/ CollectorTicks
  BY <1>4, QuietSteps DEF CollectorStops, CollectorTicks, FlowVars, runtimeVars, cycleEnv
<1>5. CASE CollectorTakesInterval
  <2>1. /\ updates # <<>> /\ config' = [config EXCEPT !.ticker = Head(updates)]
        /\ updates' = Tail(updates) /\ UNCHANGED <<main, reload>>
        /\ updates \in Seq(Configs) /\ Len(updates) <= 1
    BY <1>5 DEF CollectorTakesInterval, TypeOK
  <2>2. updates' = <<>>
    BY <2>1, TakenInterval
  <2>3. config'.ticker = Head(updates) /\ config'.history = config.history
        /\ config'.reported = config.reported
    BY <1>0, <2>1
  <2>4. InSync => InSync'
    BY <2>1, <2>2, <2>3 DEF InSync
  <2> QED
    BY <2>1, <2>3, <2>4 DEF FlowInv, Idle
<1>6. CASE \E a \in Actor : ReloadStep(a)
  <2>1. ASSUME NEW h \in Handlers, ReloadStep(h) PROVE FALSE
    <3>1. reload[h].stage \in {"apply", "report", "lookup", "send", "drain", "resend"}
      BY <2>1 DEF ReloadStep, ApplyHistory, ReportConfig, LookUpChannel, SendInterval,
                  DrainInterval, ResendInterval
    <3>2. reload[h] # NotReloading
      BY <1>0, <3>1, ReloadStages
    <3> QED
      BY <3>2 DEF FlowInv, Idle
  <2> QED
    BY <1>6, <2>1, ReloadFlows DEF Actor
<1>7. CASE TakeSIGHUP
  <2>1. Selecting /\ main' = main /\ updates' = updates /\ config' = config
    BY <1>7 DEF TakeSIGHUP, reloadEnv
  <2>2. CASE UNCHANGED <<reload, reloads>>
    BY <2>1, <2>2, QuietSteps DEF FlowVars
  <2>3. CASE StartReload("main")
    <3>1. /\ reload'["main"].stage = "apply"
          /\ \A b \in Actor \ {"main"} : reload'[b] = reload[b]
      BY <1>0, <2>3, ReloadStarts
    <3>2. InSync'
      <4>1. reload["main"].stage = "idle"
        BY <2>1 DEF Selecting, Idle, NotReloading
      <4>2. InSync
        BY <4>1 DEF FlowInv
      <4> QED
        BY <2>1, <4>2 DEF InSync
    <3>3. (\A h \in Handlers : Idle(h))'
      BY <1>0, <3>1 DEF FlowInv, Idle
    <3>4. main' = "loop"
      BY <2>1 DEF Selecting
    <3> QED
      BY <3>1, <3>2, <3>3, <3>4 DEF FlowInv
  <2> QED
    BY <1>7, <2>2, <2>3 DEF TakeSIGHUP
<1>8. CASE \E h \in Handlers : ReloadCommand(h) \/ StartCommand(h) \/ EndCommand(h)
  <2>1. UNCHANGED FlowVars /\ main' = main
    BY <1>8 DEF ReloadCommand, StartCommand, EndCommand, commandEnv, FlowVars
  <2> QED
    BY <2>1, QuietSteps
<1>9. CASE Cancel \/ SendSIGHUP \/ ServerFails
  BY <1>9, QuietSteps DEF Cancel, SendSIGHUP, ServerFails, reloadEnv, FlowVars
<1> QED
  BY <1>1, <1>2, <1>3, <1>4, <1>5, <1>6, <1>7, <1>8, <1>9 DEF Next

(***************************************************************************)
(* With reloads by SIGHUP alone, however many and whatever becomes of the  *)
(* collector in between, no interval is lost or overtaken on its way to    *)
(* the ticker: see ConfigInForce.                                          *)
(***************************************************************************)
THEOREM SignalledConfigInForce ==
  ASSUME "command" \notin ReloadSources PROVE Spec => []ConfigInForce
<1>1. Init => FlowInv
  <2> SUFFICES ASSUME Init PROVE FlowInv
    OBVIOUS
  <2>1. \A a \in Actor : reload[a] = NotReloading
    BY DEF Init
  <2>2. InSync
    BY DEF Init, InSync
  <2> QED
    BY <2>1, <2>2 DEF FlowInv, Idle, Actor, NotReloading
<1>2. TypeOK /\ RuntimeInv /\ FlowInv /\ [Next]_vars => FlowInv'
  BY FlowStep
<1>3. FlowInv => ConfigInForce
  <2> SUFFICES ASSUME FlowInv, Quiet PROVE config.reported = config.ticker
                                           /\ config.reported = config.history
    BY DEF ConfigInForce
  <2>1. reload["main"].stage = "idle" /\ updates = <<>>
    BY DEF Quiet, Selecting, Idle, NotReloading
  <2> QED
    BY <2>1 DEF FlowInv, InSync
<1> QED
  BY <1>1, <1>2, <1>3, RuntimeTypeCorrect, RuntimeInvariant, PTL DEF Spec

-----------------------------------------------------------------------------
(* The three beside each other.                                             *)

\* Whichever part runs, and with the others at rest, everything has its shape.
THEOREM PartsTypesCorrect == StartStopSpec => []PartsTypeOK
<1>1. StartStopInit => TypeOK /\ SystemdTypeOK /\ GpuInv
  BY RuntimeInitTyped, SystemdInitTyped, GpuInitInv DEF StartStopInit
<1>2. [StartStopNext]_allVars => [Next]_vars /\ [SystemdNext]_systemdVars /\ [GpuNext]_gpuVars
  BY DEF StartStopNext, allVars
<1>3. TypeOK /\ SystemdTypeOK /\ GpuInv => PartsTypeOK
  BY DEF PartsTypeOK, GpuInv
<1> QED
  BY <1>1, <1>2, <1>3, RuntimeIsTyped, SystemdStep, GpuStep, PTL DEF StartStopSpec
=============================================================================
