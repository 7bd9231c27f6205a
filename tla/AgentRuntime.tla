----------------------------- MODULE AgentRuntime -----------------------------
(***************************************************************************)
(* The life of one agent process: App.StartContext, its event loop, the    *)
(* collector goroutine, the command handlers of the HTTP API, and the      *)
(* order in which everything is stopped.                                   *)
(*                                                                         *)
(* A reload arrives as SIGHUP, handled by the event loop, or as an API     *)
(* command, handled by its own goroutine.  Either one applies the new      *)
(* configuration in several steps and then sends the collector interval    *)
(* through a channel of capacity 1: when the channel is full it takes the  *)
(* old interval out and sends again, and both of those operations block.   *)
(* A configuration is a model value that stands for its history plugins    *)
(* and for its collector interval at once.                                 *)
(***************************************************************************)
EXTENDS Naturals, Sequences

CONSTANTS
  Handlers,        \* goroutines that can serve an API command
  Configs,         \* configurations the program may be started with or reload
  ReloadSources,   \* which reloads occur: a subset of {"sighup", "command"}
  MaxReloads,      \* bound on the number of reloads
  SlowHandlers     \* the handlers that may outlive the 5 s of server shutdown

ASSUME SourcesAssumption == ReloadSources \subseteq {"sighup", "command"}
ASSUME MaxReloadsAssumption == MaxReloads \in Nat
ASSUME SlowAssumption == SlowHandlers \subseteq Handlers
ASSUME HandlersAssumption == "main" \notin Handlers

VARIABLES
  main,        \* where StartContext is
  collector,   \* the collector goroutine: "none", "running" or "exited"
  cycle,       \* where the collectAndPersist under way is, or "off"
  reload,      \* reload[a]: where actor a is in a reload, and its configuration
  busy,        \* handlers inside a command that uses the database
  updates,     \* the channel of collector intervals, capacity 1
  registered,  \* App.intervalUpdates is set
  config,      \* the configuration in force, as its three users see it
  cancelled,   \* the caller has cancelled the context
  stopped,     \* cancelRun has been called
  hup,         \* a SIGHUP is in hupCh
  serverErr,   \* an error is in serverErr
  http,        \* "off", "serving" or "closed" (no new command is accepted)
  managers,    \* the GPU and systemd managers are started
  store,       \* App.store: "none", "open", "closed", and "nil" once reset
  health,      \* the health file exists
  result,      \* what StartContext returns
  reloads      \* number of reloads so far

vars == <<main, collector, cycle, reload, busy, updates, registered, config, cancelled,
          stopped, hup, serverErr, http, managers, store, health, result, reloads>>

Actor == Handlers \cup {"main"}
NotReloading == [stage |-> "idle"]
Reloading == [stage : {"apply", "report", "lookup", "send", "drain", "resend"}, cfg : Configs]

\* StartContext up to the event loop, then its return path and deferred calls.
Startup == {"open", "managers", "initial", "http", "listeners", "undo", "register", "start"}
Deferred == {"unregister", "cancel", "join", "stopManagers", "closeStore", "clearStore"}
MainStage == Startup \cup {"loop", "shutdown", "cleanup", "exited"} \cup Deferred

TypeOK ==
  /\ main \in MainStage
  /\ collector \in {"none", "running", "exited"}
  /\ cycle \in {"off", "gather", "write", "health", "smart", "maintain"}
  /\ reload \in [Actor -> Reloading \cup {NotReloading}]
  /\ busy \in SUBSET Handlers
  /\ updates \in Seq(Configs) /\ Len(updates) <= 1
  /\ registered \in BOOLEAN
  /\ config \in [history : Configs, reported : Configs, ticker : Configs]
  /\ cancelled \in BOOLEAN /\ stopped \in BOOLEAN /\ hup \in BOOLEAN
  /\ serverErr \in BOOLEAN /\ managers \in BOOLEAN /\ health \in BOOLEAN
  /\ http \in {"off", "serving", "closed"}
  /\ store \in {"none", "open", "closed", "nil"}
  /\ result \in {"none", "ok", "error"}
  /\ reloads \in 0 .. MaxReloads

\* A faulty variant: the collector's context is not a child of the caller's.
RunStopped == stopped

\* runCtx is done when its parent is, or when cancelRun has been called.
RunDone == cancelled \/ stopped

Idle(a) == reload[a] = NotReloading

\* The event loop is at its select, not inside handleSIGHUP.
Selecting == main = "loop" /\ Idle("main")

Init ==
  /\ main = "open"
  /\ collector = "none" /\ cycle = "off"
  /\ reload = [a \in Actor |-> NotReloading]
  /\ busy = {}
  /\ updates = <<>> /\ registered = FALSE
  /\ \E c \in Configs : config = [history |-> c, reported |-> c, ticker |-> c]
  /\ cancelled = FALSE /\ stopped = FALSE /\ hup = FALSE /\ serverErr = FALSE
  /\ http = "off" /\ managers = FALSE /\ store = "none"
  /\ health \in BOOLEAN          \* a killed agent leaves its health file behind
  /\ result = "none" /\ reloads = 0

runtimeVars == <<cycle, reload, busy, updates, config, cancelled, hup, serverErr, health, reloads>>

-----------------------------------------------------------------------------
(* StartContext: starting.                                                  *)

OpenStore ==
  /\ main = "open"
  /\ \/ store' = "open" /\ main' = "managers" /\ UNCHANGED result
     \/ store' = "none" /\ main' = "exited" /\ result' = "error"
  /\ UNCHANGED <<collector, registered, stopped, http, managers, runtimeVars>>

StartManagers ==
  /\ main = "managers"
  /\ managers' = TRUE
  /\ cycle' = "gather"
  /\ main' = "initial"
  /\ UNCHANGED <<collector, reload, busy, updates, registered, config, cancelled, stopped,
                 hup, serverErr, http, store, health, result, reloads>>

\* The first listener serves from here on, unless HTTP is disabled.
StartHTTPServers ==
  /\ main = "http"
  /\ \/ http' = "serving" /\ main' = "listeners"
     \/ http' = "off" /\ main' = "register"
  /\ UNCHANGED <<collector, registered, stopped, managers, store, result, runtimeVars>>

\* The other listeners are opened too, or one fails and all are shut down.
OpenListeners ==
  /\ main = "listeners"
  /\ \/ main' = "register" /\ UNCHANGED <<http, result>>
     \/ main' = "undo" /\ http' = "closed" /\ result' = "error"
  /\ UNCHANGED <<collector, registered, stopped, managers, store, runtimeVars>>

Register ==
  /\ main = "register"
  /\ registered' = TRUE
  /\ main' = "start"
  /\ UNCHANGED <<collector, stopped, http, managers, store, result, runtimeVars>>

StartCollector ==
  /\ main = "start"
  /\ collector' = "running"
  /\ main' = "loop"
  /\ UNCHANGED <<registered, stopped, http, managers, store, result, runtimeVars>>

-----------------------------------------------------------------------------
(* collectAndPersist, run once by StartContext and then by the collector.   *)

\* The cycle is over: the collector selects again, StartContext goes on.
EndCycle(failed) ==
  /\ cycle' = "off"
  /\ IF main = "initial"
       THEN IF failed THEN main' = "cancel" /\ result' = "error"
                      ELSE main' = "http" /\ UNCHANGED result
       ELSE UNCHANGED <<main, result>>

GoOn(stage) == cycle' = stage /\ UNCHANGED <<main, result>>

cycleEnv == <<collector, reload, busy, updates, registered, config, cancelled, stopped, hup,
              serverErr, http, managers, store, reloads>>

\* Gathering may fail; afterwards the context is looked at once.
Gather ==
  /\ cycle = "gather"
  /\ \/ EndCycle(TRUE)
     \/ ~ RunDone /\ GoOn("write")
  /\ UNCHANGED <<health, cycleEnv>>

WriteSnapshot ==
  /\ cycle = "write"
  /\ EndCycle(TRUE) \/ GoOn("health")
  /\ UNCHANGED <<health, cycleEnv>>

UpdateHealth ==
  /\ cycle = "health"
  /\ \/ EndCycle(TRUE) /\ UNCHANGED health
     \/ GoOn("smart") /\ health' = TRUE
  /\ UNCHANGED cycleEnv

\* The error of refreshSmartIfDue is ignored.
RefreshSmartIfDue ==
  /\ cycle = "smart"
  /\ GoOn("maintain")
  /\ UNCHANGED <<health, cycleEnv>>

RunMaintenance ==
  /\ cycle = "maintain"
  /\ EndCycle(TRUE) \/ EndCycle(FALSE)
  /\ UNCHANGED <<health, cycleEnv>>

-----------------------------------------------------------------------------
(* runCollector: one select over the context, the intervals and the ticker. *)

AtSelect == collector = "running" /\ cycle = "off"

CollectorStops ==
  /\ AtSelect /\ RunDone
  /\ collector' = "exited"
  /\ UNCHANGED <<main, registered, stopped, http, managers, store, result, runtimeVars>>

\* A faulty variant: the interval is taken but the ticker is not reset.
CollectorTakesIntervalOnly ==
  /\ AtSelect /\ updates # <<>>
  /\ updates' = Tail(updates)
  /\ UNCHANGED <<main, collector, cycle, reload, busy, registered, config, cancelled, stopped,
                 hup, serverErr, http, managers, store, health, result, reloads>>

CollectorTakesInterval ==
  /\ AtSelect /\ updates # <<>>
  /\ config' = [config EXCEPT !.ticker = Head(updates)]
  /\ updates' = Tail(updates)
  /\ UNCHANGED <<main, collector, cycle, reload, busy, registered, cancelled, stopped, hup,
                 serverErr, http, managers, store, health, result, reloads>>

CollectorTicks ==
  /\ AtSelect
  /\ cycle' = "gather"
  /\ UNCHANGED <<main, health, result, cycleEnv>>

-----------------------------------------------------------------------------
(* Reloads: applyReload and the send that follows it.                       *)

reloadEnv == <<main, collector, cycle, busy, registered, cancelled, stopped, serverErr, http,
               managers, store, health, result>>

StartReload(a) ==
  /\ Idle(a) /\ reloads < MaxReloads
  /\ reloads' = reloads + 1
  /\ \E c \in Configs : reload' = [reload EXCEPT ![a] = [stage |-> "apply", cfg |-> c]]

\* The event loop takes the signal; the hook may be missing or fail.
TakeSIGHUP ==
  /\ Selecting /\ hup
  /\ hup' = FALSE
  /\ StartReload("main") \/ UNCHANGED <<reload, reloads>>
  /\ UNCHANGED <<updates, config, reloadEnv>>

ReloadCommand(h) ==
  /\ "command" \in ReloadSources
  /\ http = "serving" /\ h \notin busy
  /\ StartReload(h)
  /\ UNCHANGED <<updates, config, hup, reloadEnv>>

MoveTo(a, stage) == reload' = [reload EXCEPT ![a].stage = stage]
FinishReload(a) == reload' = [reload EXCEPT ![a] = NotReloading]

\* A faulty variant: unusable history plugins are passed over.
ApplyHistoryIfUsable(a) ==
  /\ reload[a].stage = "apply"
  /\ MoveTo(a, "report")
  /\ \/ UNCHANGED config
     \/ config' = IF store \in {"open", "closed"}
                    THEN [config EXCEPT !.history = reload[a].cfg] ELSE config
  /\ UNCHANGED <<updates, hup, reloads, reloadEnv>>

\* Unusable history plugins end the reload; the others go to an open store.
ApplyHistory(a) ==
  /\ reload[a].stage = "apply"
  /\ \/ FinishReload(a) /\ UNCHANGED config
     \/ /\ MoveTo(a, "report")
        /\ config' = IF store \in {"open", "closed"}
                       THEN [config EXCEPT !.history = reload[a].cfg] ELSE config
  /\ UNCHANGED <<updates, hup, reloads, reloadEnv>>

\* setRuntimeConfig, under runtimeMu.
ReportConfig(a) ==
  /\ reload[a].stage = "report"
  /\ config' = [config EXCEPT !.reported = reload[a].cfg]
  /\ MoveTo(a, IF a = "main" THEN "send" ELSE "lookup")
  /\ UNCHANGED <<updates, hup, reloads, reloadEnv>>

\* ReloadRuntime reads App.intervalUpdates; handleSIGHUP holds the channel.
LookUpChannel(a) ==
  /\ reload[a].stage = "lookup"
  /\ IF registered THEN MoveTo(a, "send") ELSE FinishReload(a)
  /\ UNCHANGED <<updates, config, hup, reloads, reloadEnv>>

\* The select with a default: it sends when the channel has room.
SendInterval(a) ==
  /\ reload[a].stage = "send"
  /\ IF updates = <<>> THEN updates' = <<reload[a].cfg>> /\ FinishReload(a)
                       ELSE MoveTo(a, "drain") /\ UNCHANGED updates
  /\ UNCHANGED <<config, hup, reloads, reloadEnv>>

\* <-updates: blocks while the channel is empty.
DrainInterval(a) ==
  /\ reload[a].stage = "drain"
  /\ updates # <<>>
  /\ updates' = Tail(updates)
  /\ MoveTo(a, "resend")
  /\ UNCHANGED <<config, hup, reloads, reloadEnv>>

\* updates <- interval: blocks while the channel is full.
ResendInterval(a) ==
  /\ reload[a].stage = "resend"
  /\ updates = <<>>
  /\ updates' = <<reload[a].cfg>>
  /\ FinishReload(a)
  /\ UNCHANGED <<config, hup, reloads, reloadEnv>>

ReloadStep(a) ==
  \/ ApplyHistory(a) \/ ReportConfig(a) \/ LookUpChannel(a)
  \/ SendInterval(a) \/ DrainInterval(a) \/ ResendInterval(a)

-----------------------------------------------------------------------------
(* Other commands of the API: db.maintain, db.check, smart refresh.         *)

commandEnv == <<main, collector, cycle, reload, updates, registered, config, cancelled,
                stopped, hup, serverErr, http, managers, store, health, result, reloads>>

StartCommand(h) ==
  /\ http = "serving" /\ h \notin busy /\ Idle(h)
  /\ busy' = busy \cup {h}
  /\ UNCHANGED commandEnv

EndCommand(h) ==
  /\ h \in busy
  /\ busy' = busy \ {h}
  /\ UNCHANGED commandEnv

\* The handlers that server shutdown waits for.
ActiveHandlers == busy \cup {h \in Handlers : ~ Idle(h)}

-----------------------------------------------------------------------------
(* The environment: the caller's context, signals and a failing server.     *)

Cancel ==
  /\ ~ cancelled
  /\ cancelled' = TRUE
  /\ UNCHANGED <<main, collector, cycle, reload, busy, updates, registered, config, stopped,
                 hup, serverErr, http, managers, store, health, result, reloads>>

SendSIGHUP ==
  /\ "sighup" \in ReloadSources
  /\ main = "loop" /\ ~ hup
  /\ hup' = TRUE
  /\ UNCHANGED <<reload, reloads, updates, config, reloadEnv>>

ServerFails ==
  /\ http = "serving" /\ ~ serverErr
  /\ serverErr' = TRUE
  /\ UNCHANGED <<main, collector, cycle, reload, busy, updates, registered, config, cancelled,
                 stopped, hup, http, managers, store, health, result, reloads>>

-----------------------------------------------------------------------------
(* StartContext: the end of the event loop and the return path.             *)

LoopSeesDone ==
  /\ Selecting /\ RunDone
  /\ main' = "shutdown" /\ result' = "ok" /\ http' = "closed"
  /\ UNCHANGED <<collector, registered, stopped, managers, store, runtimeVars>>

LoopSeesServerError ==
  /\ Selecting /\ serverErr
  /\ serverErr' = FALSE
  /\ main' = "shutdown" /\ result' = "error" /\ http' = "closed"
  /\ UNCHANGED <<collector, cycle, reload, busy, updates, registered, config, cancelled,
                 stopped, hup, managers, store, health, reloads>>

\* A faulty variant: the servers are closed without waiting for the handlers.
CloseHTTPServers ==
  /\ main = "shutdown"
  /\ main' = "cleanup"
  /\ UNCHANGED <<collector, registered, stopped, http, managers, store, result, runtimeVars>>

\* Shutdown waits for the handlers; when they take too long its error is
\* returned at once, and the health file stays.
ShutdownHTTPServers ==
  /\ main = "shutdown"
  /\ \/ ActiveHandlers = {} /\ main' = "cleanup" /\ UNCHANGED result
     \/ /\ ActiveHandlers # {} /\ ActiveHandlers \subseteq SlowHandlers
        /\ main' = "unregister" /\ result' = "error"
  /\ UNCHANGED <<collector, registered, stopped, http, managers, store, runtimeVars>>

\* The same after a failed start, which goes on to the deferred calls.
UndoHTTPServers ==
  /\ main = "undo"
  /\ ActiveHandlers \subseteq SlowHandlers
  /\ main' = "cancel"
  /\ UNCHANGED <<collector, registered, stopped, http, managers, store, result, runtimeVars>>

CleanUpHealth ==
  /\ main = "cleanup"
  /\ \/ health' = FALSE /\ UNCHANGED result
     \/ UNCHANGED health /\ result' = "error"
  /\ main' = "unregister"
  /\ UNCHANGED <<cycle, cycleEnv>>

-----------------------------------------------------------------------------
(* The deferred calls, last registered first.                               *)

\* A faulty variant: the channel stays registered.
UnregisterNothing ==
  /\ main = "unregister"
  /\ main' = "cancel"
  /\ UNCHANGED <<collector, registered, stopped, http, managers, store, result, runtimeVars>>

Unregister ==
  /\ main = "unregister"
  /\ registered' = FALSE
  /\ main' = "cancel"
  /\ UNCHANGED <<collector, stopped, http, managers, store, result, runtimeVars>>

CancelRun ==
  /\ main = "cancel"
  /\ stopped' = TRUE
  /\ main' = "join"
  /\ UNCHANGED <<collector, registered, http, managers, store, result, runtimeVars>>

\* A faulty variant: the collector is told to stop but not waited for.
DoNotJoinCollector ==
  /\ main = "join"
  /\ main' = "stopManagers"
  /\ UNCHANGED <<collector, registered, stopped, http, managers, store, result, runtimeVars>>

\* collectorWG.Wait, when the collector was started.
JoinCollector ==
  /\ main = "join"
  /\ collector # "running"
  /\ main' = "stopManagers"
  /\ UNCHANGED <<collector, registered, stopped, http, managers, store, result, runtimeVars>>

StopManagers ==
  /\ main = "stopManagers"
  /\ managers' = FALSE
  /\ main' = "closeStore"
  /\ UNCHANGED <<collector, registered, stopped, http, store, result, runtimeVars>>

CloseStore ==
  /\ main = "closeStore"
  /\ store' = "closed"
  /\ main' = "clearStore"
  /\ UNCHANGED <<collector, registered, stopped, http, managers, result, runtimeVars>>

ClearStore ==
  /\ main = "clearStore"
  /\ store' = "nil"
  /\ main' = "exited"
  /\ UNCHANGED <<collector, registered, stopped, http, managers, result, runtimeVars>>

\* StartContext has returned and nothing is left to happen.
Terminated ==
  /\ main = "exited" /\ ActiveHandlers = {} /\ cancelled
  /\ UNCHANGED vars

-----------------------------------------------------------------------------
MainStep ==
  \/ OpenStore \/ StartManagers \/ StartHTTPServers \/ OpenListeners \/ UndoHTTPServers
  \/ Register \/ StartCollector
  \/ ShutdownHTTPServers \/ CleanUpHealth \/ Unregister \/ CancelRun \/ JoinCollector
  \/ StopManagers \/ CloseStore \/ ClearStore

CycleStep == Gather \/ WriteSnapshot \/ UpdateHealth \/ RefreshSmartIfDue \/ RunMaintenance

Next ==
  \/ MainStep
  \/ LoopSeesDone
  \/ LoopSeesServerError
  \/ TakeSIGHUP
  \/ CycleStep
  \/ CollectorStops
  \/ CollectorTakesInterval
  \/ CollectorTicks
  \/ \E a \in Actor : ReloadStep(a)
  \/ \E h \in Handlers : ReloadCommand(h) \/ StartCommand(h) \/ EndCommand(h)
  \/ Cancel
  \/ SendSIGHUP
  \/ ServerFails
  \/ Terminated

(***************************************************************************)
(* Goroutines that can run do run, a command and a collection end, and a   *)
(* select that finds a case ready again and again picks it some time (Go   *)
(* chooses among the ready cases at random).  Nothing is assumed of the    *)
(* environment, nor that the ticker ticks.                                 *)
(***************************************************************************)
Fairness ==
  /\ WF_vars(MainStep)
  /\ WF_vars(CycleStep)
  /\ \A a \in Actor : WF_vars(ReloadStep(a))
  /\ \A h \in Handlers : WF_vars(EndCommand(h))
  /\ SF_vars(LoopSeesDone)
  /\ SF_vars(LoopSeesServerError)
  /\ SF_vars(CollectorStops)
  /\ SF_vars(CollectorTakesInterval)

Spec == Init /\ [][Next]_vars
FairSpec == Spec /\ Fairness

-----------------------------------------------------------------------------
(* Properties.                                                              *)

(***************************************************************************)
(* A collection never meets a stopped manager or a closed store: the       *)
(* deferred calls of StartContext wait for the collector before they stop  *)
(* and close what it uses, on every path out of StartContext.              *)
(***************************************************************************)
CollectorUsesLiveResources == cycle # "off" => managers /\ store = "open"

\* When StartContext has returned nothing of the agent is left running.
NothingRunsAfterExit ==
  main = "exited" =>
    /\ collector # "running" /\ cycle = "off"
    /\ ~ managers /\ store \in {"none", "nil"}
    /\ http # "serving" /\ ~ registered

(***************************************************************************)
(* A command that a handler has begun finds the store open until it ends,  *)
(* unless that handler outlives the 5 s that server shutdown grants: the   *)
(* servers are shut down before the store is closed, on every path out of  *)
(* StartContext (runtime.go:121, 238 and 243 before the deferred Close).   *)
(***************************************************************************)
CommandsSeeOpenStore == busy \ SlowHandlers # {} => store = "open"

\* No reload is under way, no interval is in the channel, no collection runs.
Quiet == Selecting /\ AtSelect /\ updates = <<>> /\ \A a \in Actor : Idle(a)

(***************************************************************************)
(* After the reloads, the ticker runs at the interval, and the store keeps *)
(* the history plugins, of the configuration that the status reports.      *)
(***************************************************************************)
ConfigInForce ==
  Quiet => config.reported = config.ticker /\ config.reported = config.history

\* A cancelled context or a failed server ends the agent.
ShutdownCompletes == (cancelled \/ serverErr) ~> main = "exited"

\* A reloaded interval reaches the ticker, unless the agent is being stopped.
ReloadReachesTicker ==
  config.reported # config.ticker ~> (config.reported = config.ticker \/ RunDone)

=============================================================================
