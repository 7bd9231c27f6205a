-------------------------- MODULE ConfigCommands --------------------------
(***************************************************************************)
(* The configuration file, the processes that read and write it, and the   *)
(* configuration the agent has in force.                                   *)
(*                                                                         *)
(* The agent loads the file once when it starts, and again for every       *)
(* config.set and config.reload (or SIGHUP), each served by a goroutine of *)
(* its own and without a lock.  A menu of another process loads it too,    *)
(* edits its draft for as long as the user likes and saves all of it.  A   *)
(* save truncates the file and then writes it.  A loaded configuration is  *)
(* overridden by the environment and the command line, except for          *)
(* config.set, and put in force one field after the other.                 *)
(***************************************************************************)
EXTENDS Naturals

CONSTANTS
  Commanders,        \* goroutines that may serve config.set and config.reload
  Settable,          \* values of a field that are valid
  DefaultValue,      \* the built-in one
  BadValue,          \* a value that Validate rejects
  Overrides,         \* what environment and command line may override
  MaxFileChanges,    \* bound on commands, starts, menus, and edits by hand
  MaxSaveFailures,   \* bound on writes that fail
  Missing,           \* no file, no configuration in force
  Empty, Torn        \* the contents of a file that is no configuration

\* Fields that are put in force at different moments.
ConfigFields == {"cache_ttl", "history", "collector_interval"}
Configuration == [ConfigFields -> Settable \cup {BadValue}]
Defaults == [f \in ConfigFields |-> DefaultValue]

\* What Validate rejects is not settable, and a file that is missing, empty or torn has no
\* configuration; an override is of a field, by any value; the agent and the menu serve no command.
ASSUME ValuesAssumption ==
  /\ DefaultValue \in Settable /\ BadValue \notin Settable
  /\ Missing \notin Configuration /\ Empty \notin Configuration /\ Torn \notin Configuration
  /\ Missing # Empty /\ Missing # Torn
  /\ \A o \in Overrides : \A f \in ConfigFields \cap DOMAIN o : o[f] \in Settable \cup {BadValue}
  /\ "start" \notin Commanders /\ "menu" \notin Commanders

ASSUME FileBoundsAssumption == MaxFileChanges \in Nat /\ MaxSaveFailures \in Nat

VARIABLES
  override,      \* the overrides of this machine
  configFile,    \* a configuration, Missing, Empty or Torn
  inForce,       \* the configuration in force, Missing while the agent does not run
  task,          \* task[a]: what a commander, the start of the agent or a menu is doing
  fileChanges, saveFailures

configVars == <<override, configFile, inForce, task, fileChanges, saveFailures>>

Actors == Commanders \cup {"start", "menu"}
NoTask == [stage |-> "none"]
Busy(a) == task[a] # NoTask
At(a, stage) == Busy(a) /\ task[a].stage = stage
GoOn(a, stage) == task' = [task EXCEPT ![a].stage = stage]
EndTask(a) == task' = [task EXCEPT ![a] = NoTask]

\* A faulty variant: the history plugins are not looked at.
ValidButHistory(cfg) == \A f \in ConfigFields \ {"history"} : cfg[f] # BadValue

\* Validate.
Valid(cfg) == \A f \in ConfigFields : cfg[f] # BadValue

Contents == Configuration \cup {Missing, Empty, Torn}
InForce == Configuration \cup {Missing}
Stages == {"edit", "create", "truncate", "write"} \cup ConfigFields
Tasks ==
  [op : {"set", "reload", "start", "menu"}, stage : Stages, cfg : Configuration,
   undisturbed : BOOLEAN, found : [configFile : Contents, inForce : InForce]]

ConfigTypeOK ==
  /\ override \in Overrides
  /\ configFile \in Contents
  /\ inForce \in InForce
  /\ task \in [Actors -> Tasks \cup {NoTask}]
  /\ \A a \in Commanders : Busy(a) => inForce # Missing
  /\ task["start"] # NoTask => inForce = Missing /\ Valid(task["start"].cfg)
  /\ task["menu"] # NoTask => task["menu"].stage \notin {"history", "collector_interval"}
  /\ fileChanges \in 0 .. MaxFileChanges /\ saveFailures \in 0 .. MaxSaveFailures

ConfigInit ==
  /\ override \in Overrides
  /\ configFile \in {Missing, Defaults}
  /\ inForce = Missing
  /\ task = [a \in Actors |-> NoTask]
  /\ fileChanges = 0 /\ saveFailures = 0

-----------------------------------------------------------------------------
(* Loading.                                                                 *)

\* Load: what is empty or torn is no JSON; a missing file has the defaults.
Readable == configFile \notin {Empty, Torn}
Loaded == IF configFile = Missing THEN Defaults ELSE configFile

\* ApplyEnv and applyCLIToConfig.
WithOverrides(cfg) == [f \in ConfigFields |-> IF f \in DOMAIN override THEN override[f] ELSE cfg[f]]

\* A faulty variant: what was loaded is not validated.
LoadEffectiveUnchecked == IF Readable THEN {WithOverrides(Loaded)} ELSE {}

\* loadEffectiveConfig: nothing when it fails.
LoadEffective == IF Readable /\ Valid(WithOverrides(Loaded)) THEN {WithOverrides(Loaded)} ELSE {}

\* a begins to do something.  It is undisturbed while nobody else is at work.
BeginTask(a, op, stage, cfg) ==
  /\ ~ Busy(a)
  /\ fileChanges < MaxFileChanges
  /\ fileChanges' = fileChanges + 1
  /\ task' = [b \in Actors |->
       IF b = a THEN [op |-> op, stage |-> stage, cfg |-> cfg,
                      undisturbed |-> \A c \in Actors : ~ Busy(c),
                      found |-> [configFile |-> configFile, inForce |-> inForce]]
       ELSE IF Busy(b) THEN [task[b] EXCEPT !.undisturbed = FALSE]
       ELSE NoTask]
  /\ UNCHANGED <<override, configFile, inForce, saveFailures>>

\* Run, startAgent: the file is created when it is missing.
BeginStart ==
  /\ inForce = Missing /\ ~ At("menu", "cache_ttl")
  /\ \E cfg \in LoadEffective :
       BeginTask("start", "start", IF configFile = Missing THEN "create" ELSE "cache_ttl", cfg)

\* handleConfigSet: the file's configuration with some fields changed, if that is valid.
BeginSet(a) ==
  /\ inForce # Missing
  /\ Readable
  /\ \E f \in ConfigFields, v \in Settable \cup {BadValue} :
       LET cfg == [Loaded EXCEPT ![f] = v]
       IN Valid(cfg) /\ BeginTask(a, "set", "truncate", cfg)

\* handleConfigReload, and SIGHUP.
BeginReload(a) ==
  /\ inForce # Missing
  /\ \E cfg \in LoadEffective : BeginTask(a, "reload", "cache_ttl", cfg)

\* apiMenu, menuEditConfig.
OpenMenu == \E cfg \in LoadEffective : BeginTask("menu", "menu", "edit", cfg)

-----------------------------------------------------------------------------
(* Saving.                                                                  *)

\* The user changes the draft, saves it if it is valid, or leaves.
EditDraft ==
  /\ At("menu", "edit")
  /\ \/ \E f \in ConfigFields, v \in Settable : task' = [task EXCEPT !["menu"].cfg[f] = v]
     \/ GoOn("menu", "truncate")
     \/ EndTask("menu")
  /\ UNCHANGED <<override, configFile, inForce, fileChanges, saveFailures>>

\* SaveIfMissing: the file is created unless somebody else has.
CreateFile ==
  /\ At("start", "create")
  /\ IF configFile = Missing
       THEN configFile' = Empty /\ GoOn("start", "write")
       ELSE GoOn("start", "cache_ttl") /\ UNCHANGED configFile
  /\ UNCHANGED <<override, inForce, fileChanges, saveFailures>>

\* Save: os.WriteFile opens the file and truncates it.
TruncateFile(a) ==
  /\ At(a, "truncate")
  /\ configFile' = Empty
  /\ GoOn(a, "write")
  /\ UNCHANGED <<override, inForce, fileChanges, saveFailures>>

\* A menu ends, or the same process becomes the agent.
AfterSave(a) ==
  \/ a # "menu" /\ GoOn(a, "cache_ttl")
  \/ a = "menu" /\ EndTask(a)
  \/ a = "menu" /\ inForce = Missing /\ ~ Busy("start") /\ GoOn(a, "cache_ttl")

\* Where another process has written since, the rest of a longer text stays.
WriteFile(a) ==
  /\ At(a, "write")
  /\ configFile' \in {task[a].cfg} \cup (IF configFile = Empty THEN {} ELSE {Torn})
  /\ AfterSave(a)
  /\ UNCHANGED <<override, inForce, fileChanges, saveFailures>>

\* The file cannot be opened, or not be written (in whole) once it is truncated.
\* The agent starts all the same, and a menu goes on with its draft.
SaveFails(a) ==
  /\ At(a, "truncate") \/ At(a, "create") \/ At(a, "write")
  /\ saveFailures < MaxSaveFailures
  /\ saveFailures' = saveFailures + 1
  /\ \/ UNCHANGED configFile
     \/ At(a, "write") /\ configFile' = Torn
  /\ CASE a = "start" -> GoOn(a, "cache_ttl")
       [] a = "menu" -> GoOn(a, "edit")
       [] OTHER -> EndTask(a)
  /\ UNCHANGED <<override, inForce, fileChanges>>

-----------------------------------------------------------------------------
(* Putting a configuration in force: applyReload and ReloadRuntime.         *)

\* The agent is made with the configuration it was started with.
AgentStarts(a) ==
  /\ At(a, "cache_ttl")
  /\ inForce = Missing
  /\ inForce' = task[a].cfg
  /\ EndTask(a)
  /\ UNCHANGED <<override, configFile, fileChanges, saveFailures>>

\* Fields one by one: SetLiveCurrentTTLs, SetHistoryPlugins, the rest.
Following == [cache_ttl |-> "history", history |-> "collector_interval"]

\* ParseHistoryPlugins comes first: when it fails nothing is put in force.
ApplyField(a) ==
  /\ Busy(a) /\ task[a].stage \in ConfigFields
  /\ IF task[a].cfg["history"] = BadValue
       THEN EndTask(a) /\ UNCHANGED inForce
       ELSE /\ inForce' = [inForce EXCEPT ![task[a].stage] = task[a].cfg[task[a].stage]]
            /\ IF task[a].stage \in DOMAIN Following
                 THEN GoOn(a, Following[task[a].stage]) ELSE EndTask(a)
  /\ UNCHANGED <<override, configFile, fileChanges, saveFailures>>

-----------------------------------------------------------------------------
(* What comes from outside.                                                 *)

\* The agent ends, at whatever point its commands and its start are.
AgentEnds ==
  /\ inForce # Missing \/ task["start"] # NoTask
  /\ inForce' = Missing
  /\ task' = [a \in Actors |-> IF a = "menu" THEN task[a] ELSE NoTask]
  /\ UNCHANGED <<override, configFile, fileChanges, saveFailures>>

\* Somebody edits the file, well or badly, or removes it.
EditByHand ==
  /\ fileChanges < MaxFileChanges
  /\ fileChanges' = fileChanges + 1
  /\ configFile' \in {Missing, Torn} \cup
       {[Defaults EXCEPT ![f] = BadValue] : f \in ConfigFields}
  /\ task' = [b \in Actors |-> IF Busy(b) THEN [task[b] EXCEPT !.undisturbed = FALSE] ELSE NoTask]
  /\ UNCHANGED <<override, inForce, saveFailures>>

ConfigNext ==
  \/ BeginStart \/ OpenMenu \/ EditDraft \/ CreateFile \/ AgentEnds \/ EditByHand
  \/ \E a \in {"start", "menu"} : AgentStarts(a)
  \/ \E a \in Actors : TruncateFile(a) \/ WriteFile(a) \/ SaveFails(a)
  \/ \E a \in Commanders : BeginSet(a) \/ BeginReload(a) \/ ApplyField(a)

ConfigSpec == ConfigInit /\ [][ConfigNext]_configVars

-----------------------------------------------------------------------------
(* Properties.                                                              *)

\* Whatever the file held when it was read, and whoever wrote it or was writing
\* it, every field in force is one that Validate accepts.
OnlyValidInForce == inForce # Missing => Valid(inForce)

(***************************************************************************)
(* config.set "validates, saves, and live-applies" (README.md:474): one    *)
(* that nothing disturbed has, when it ends, either saved its              *)
(* configuration and put all of it in force, or changed neither the file   *)
(* nor what is in force; only a write that fails leaves no configuration.  *)
(* (What it puts in force is the file's, without the environment and the   *)
(* command line, which README.md:159 puts first: command_api.go:118.)      *)
(***************************************************************************)
SetIsAllOrNothing ==
  [][\A a \in Commanders :
       Busy(a) /\ task[a].op = "set" /\ task[a].undisturbed /\ task'[a] = NoTask /\ inForce' # Missing =>
         \/ configFile' = task[a].cfg /\ inForce' = task[a].cfg
         \/ configFile' = task[a].found.configFile /\ inForce' = task[a].found.inForce
         \/ /\ configFile' \in {Empty, Torn} /\ saveFailures' # saveFailures
            /\ inForce' = task[a].found.inForce]_configVars

=============================================================================
