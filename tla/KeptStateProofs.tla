-------------------------- MODULE KeptStateProofs --------------------------
(***************************************************************************)
(* What is kept from one operation to the next, for every value of the     *)
(* constants: the rows of the collector (GatherStats), the configuration   *)
(* and its file (ConfigCommands), and the type invariant of all that       *)
(* MCKeptState checks.                                                     *)
(***************************************************************************)
EXTENDS MCKeptState, StoreFilesProofs, DevicesProofs

\* Half of the cache time, as the proofs see it.
Half == CacheTime \div 2

LEMMA HalfNat == Half \in Nat
  BY TimeAssumption DEF Half

\* The state is well typed: no row, no snapshot and no tick has an odd shape.
THEOREM GatherTypeCorrect == GatherSpec => []GatherTypeOK
<1>1. GatherInit => GatherTypeOK
  BY IntervalAssumption, TimeAssumption DEF GatherInit, GatherTypeOK, TickStages, NoSnapshot, Snapshot
<1>2. GatherTypeOK /\ [GatherNext]_gatherVars => GatherTypeOK'
  <2> SUFFICES ASSUME GatherTypeOK, [GatherNext]_gatherVars PROVE GatherTypeOK'
    OBVIOUS
  <2> USE IntervalAssumption, TimeAssumption DEF GatherTypeOK, TickStages
  <2>0. NoSnapshot \in Snapshot
    BY DEF NoSnapshot, Snapshot
  <2>1. CASE Advance
    BY <2>1 DEF Advance
  <2>2. CASE TakeTick
    BY <2>0, <2>2 DEF TakeTick
  <2>3. CASE GatherOrReuse
    <3>1. CASE Fresh
      <4>1. cache.data \in Snapshot
        BY <3>1 DEF Fresh
      <4> QED
        BY <2>3, <3>1, <4>1 DEF GatherOrReuse
    <3>2. CASE ~ Fresh
      <4> DEFINE new == [sampled |-> clock, complete |-> TRUE]
      <4>1. new \in Snapshot
        BY DEF Snapshot
      <4>2. sampling' = [sampling EXCEPT !.stage = "collect", !.data = new]
        BY <2>3, <3>2 DEF GatherOrReuse
      <4> HIDE DEF new
      <4> QED
        BY <2>3, <4>1, <4>2 DEF GatherOrReuse
    <3> QED
      BY <3>1, <3>2
  <2>4. CASE Collected
    <3> DEFINE cached == [sampling.data EXCEPT !.complete = FALSE]
    <3>1. cached \in Snapshot
      BY DEF Snapshot
    <3>2. \/ cache' = [data |-> cached, updated |-> clock]
          \/ cache' = cache
      BY <2>4 DEF Collected
    <3> HIDE DEF cached
    <3>3. cache' \in [data : Snapshot, updated : Nat] \cup {NoRow}
      BY <3>1, <3>2
    <3>4. sampling' \in [stage : TickStages \cup {"off", "ended"}, at : Nat, data : Snapshot]
      BY <2>4 DEF Collected, Failed
    <3> QED
      BY <2>4, <3>3, <3>4 DEF Collected
  <2>5. CASE Persist
    BY <2>5 DEF Persist, Failed
  <2>6. CASE Finish
    BY <2>6 DEF Finish, Failed
  <2>7. CASE UNCHANGED gatherVars
    BY <2>7 DEF gatherVars
  <2>8. CASE StartTicker
    BY <2>8 DEF StartTicker
  <2> QED
    BY <2>1, <2>2, <2>3, <2>4, <2>5, <2>6, <2>7, <2>8 DEF GatherNext
<1> QED
  BY <1>1, <1>2, PTL DEF GatherSpec

-----------------------------------------------------------------------------
(* Rows are recent.                                                         *)

\* A snapshot is recent for the tick at time t.
Recent(t, data) == t - data.sampled < Half + MaxDuration \/ data.sampled >= t

(***************************************************************************)
(* What is cached was sampled at most one collection before it was cached; *)
(* the tick being served is not in the future; what is about to be written *)
(* for it is recent for it.                                                *)
(***************************************************************************)
RecentInv ==
  /\ GatherTypeOK
  /\ waiting # NoRow => waiting <= clock
  /\ sampling.at <= clock
  /\ cache # NoRow => cache.updated <= cache.data.sampled + MaxDuration
  /\ sampling.stage = "collect" =>
       /\ sampling.at <= sampling.data.sampled
       /\ clock <= sampling.data.sampled + MaxDuration
  /\ sampling.stage = "write" => Recent(sampling.at, sampling.data)
  /\ last # NoRow => Recent(last.at, last.data)

\* Rows are recent whatever the interval: see RowsAreRecent.
THEOREM Recency == GatherSpec => []RowsAreRecent
<1>1. GatherInit => RecentInv
  BY IntervalAssumption, TimeAssumption, HalfNat
  DEF GatherInit, RecentInv, GatherTypeOK, TickStages, NoSnapshot, Snapshot, Recent
<1>2. RecentInv /\ GatherTypeOK' /\ [GatherNext]_gatherVars => RecentInv'
  <2> SUFFICES ASSUME RecentInv, GatherTypeOK', [GatherNext]_gatherVars PROVE RecentInv'
    OBVIOUS
  <2> USE IntervalAssumption, TimeAssumption, NoRowAssumption, HalfNat
      DEF RecentInv, GatherTypeOK, TickStages, Snapshot
  <2>1. CASE Advance
    BY <2>1 DEF Advance, InTime, Recent
  <2>2. CASE TakeTick
    BY <2>2 DEF TakeTick, NoSnapshot, Recent
  <2>3. CASE GatherOrReuse
    <3>1. CASE Fresh
      <4>1. clock - cache.updated < Half /\ cache # NoRow
        BY <3>1 DEF Fresh, Half
      <4>2. Recent(sampling.at, cache.data)
        BY <4>1 DEF Recent
      <4> QED
        BY <2>3, <3>1, <4>2 DEF GatherOrReuse, Recent
    <3>2. CASE ~ Fresh
      BY <2>3, <3>2 DEF GatherOrReuse, Recent
    <3> QED
      BY <3>1, <3>2
  <2>4. CASE Collected
    BY <2>4 DEF Collected, Failed, Recent
  <2>5. CASE Persist
    BY <2>5 DEF Persist, Failed, Recent
  <2>6. CASE Finish
    BY <2>6 DEF Finish, Failed, Recent
  <2>7. CASE UNCHANGED gatherVars
    BY <2>7 DEF gatherVars, Recent
  <2>8. CASE StartTicker
    BY <2>8 DEF StartTicker, Recent
  <2> QED
    BY <2>1, <2>2, <2>3, <2>4, <2>5, <2>6, <2>7, <2>8 DEF GatherNext
<1>3. RecentInv => RowsAreRecent
  BY DEF RecentInv, RowsAreRecent, Recent, Half
<1> QED
  BY <1>1, <1>2, <1>3, GatherTypeCorrect, PTL DEF GatherSpec

-----------------------------------------------------------------------------
(* A long interval makes every tick collect.                                *)

\* No tick later than t finds in the cache what is served to the tick at t.
Spaced(t) ==
  /\ nextTick # NoRow => t + Interval <= nextTick
  /\ waiting # NoRow => t + Interval <= waiting

(***************************************************************************)
(* Ticks are an interval apart, and the cache was filled for one of them,  *)
(* at most delay and a collection after it: when a later one asks, what is *)
(* cached is no longer fresh.                                              *)
(***************************************************************************)
CollectInv(delay) ==
  /\ GatherTypeOK
  /\ nextTick # NoRow => clock < nextTick
  /\ nextTick = NoRow => waiting = NoRow /\ sampling.at = 0
  /\ waiting # NoRow => waiting <= clock /\ waiting + Interval <= nextTick
  /\ sampling.at <= clock
  /\ Spaced(sampling.at)
  /\ sampling.stage = "gather" /\ cache # NoRow => cache.updated + Half <= sampling.at
  /\ sampling.stage = "collect" =>
       /\ sampling.data.complete
       /\ sampling.data.sampled >= sampling.at
       /\ sampling.data.sampled <= sampling.at + delay
       /\ clock <= sampling.data.sampled + MaxDuration
  /\ sampling.stage = "write" => sampling.data.complete /\ sampling.data.sampled >= sampling.at
  /\ cache # NoRow => cache.updated <= sampling.at + delay + MaxDuration
  /\ nextTick = NoRow /\ cache # NoRow => sampling.stage # "gather"
  /\ EveryTickCollects

(***************************************************************************)
(* When the interval is at least half of the cache time, a collection and  *)
(* the delay with which ticks are taken, the collector collects at every   *)
(* tick: see EveryTickCollects.  That ticks are taken within the delay is  *)
(* a premise about the behaviour: the code bounds neither the wait for the *)
(* mutex nor what is left of the tick before (runtime.go:349-373).  The    *)
(* default interval of 15 s and the cache time of 60 s do not satisfy it.  *)
(***************************************************************************)
THEOREM LongIntervalCollects ==
  ASSUME NEW delay \in Nat, Interval >= Half + MaxDuration + delay
  PROVE  GatherSpec /\ [] TakenWithin(delay) => []EveryTickCollects
<1> USE IntervalAssumption, TimeAssumption, NoRowAssumption, HalfNat
<1>1. GatherInit => CollectInv(delay)
  BY DEF GatherInit, CollectInv, Spaced, GatherTypeOK, TickStages, NoSnapshot, Snapshot, EveryTickCollects
<1>2. /\ CollectInv(delay) /\ GatherTypeOK' /\ TakenWithin(delay)
      /\ [GatherNext]_gatherVars
      => CollectInv(delay)'
  <2> SUFFICES ASSUME CollectInv(delay), GatherTypeOK', TakenWithin(delay), [GatherNext]_gatherVars
               PROVE  CollectInv(delay)'
    OBVIOUS
  <2> USE DEF CollectInv, Spaced, GatherTypeOK, TickStages, Snapshot, EveryTickCollects
  <2>1. CASE Advance
    <3>1. clock' = clock + 1 /\ UNCHANGED <<sampling, cache, last>>
      BY <2>1 DEF Advance
    <3>2. sampling.stage = "collect" => clock' <= sampling.data.sampled + MaxDuration
      BY <2>1, <3>1 DEF Advance, InTime
    <3>3. CASE clock' = nextTick
      <4>1. nextTick \in Nat /\ nextTick # NoRow /\ nextTick' = nextTick + Interval
        BY <2>1, <3>1, <3>3 DEF Advance
      <4>2. waiting' = IF waiting = NoRow THEN nextTick ELSE waiting
        BY <2>1, <3>3 DEF Advance
      <4>3. nextTick' \in Nat /\ nextTick' # NoRow
        BY <4>1
      <4>4. clock' < nextTick' /\ sampling.at <= clock'
        BY <3>1, <3>3, <4>1
      <4>5. waiting' # NoRow => waiting' <= clock' /\ waiting' + Interval <= nextTick'
        BY <3>1, <3>3, <4>1, <4>2
      <4>6. Spaced(sampling.at)'
        BY <3>1, <4>1, <4>2
      <4> QED
        BY <3>1, <3>2, <4>3, <4>4, <4>5, <4>6
    <3>4. CASE clock' # nextTick
      BY <2>1, <3>1, <3>2, <3>4 DEF Advance
    <3> QED
      BY <3>3, <3>4
  <2>2. CASE StartTicker
    BY <2>2 DEF StartTicker
  <2>3. CASE TakeTick
    BY <2>3 DEF TakeTick, NoSnapshot
  <2>4. CASE GatherOrReuse
    <3>1. ~ Fresh
      BY <2>4 DEF GatherOrReuse, Fresh, Half
    <3> QED
      BY <2>4, <3>1 DEF GatherOrReuse, TakenWithin
  <2>5. CASE Collected
    BY <2>5 DEF Collected, Failed
  <2>6. CASE Persist
    BY <2>6 DEF Persist, Failed
  <2>7. CASE Finish
    BY <2>7 DEF Finish, Failed
  <2>8. CASE UNCHANGED gatherVars
    BY <2>8 DEF gatherVars
  <2> QED
    BY <2>1, <2>2, <2>3, <2>4, <2>5, <2>6, <2>7, <2>8 DEF GatherNext
<1>3. CollectInv(delay) => EveryTickCollects
  BY DEF CollectInv
<1> QED
  BY <1>1, <1>2, <1>3, GatherTypeCorrect, PTL DEF GatherSpec

-----------------------------------------------------------------------------
(* The configuration.                                                       *)

USE DEF ConfigFields, Actors, Busy, At

\* A change of one field, and a list of overrides, make a configuration of a configuration.
LEMMA ChangedConfiguration ==
  ASSUME NEW cfg \in Configuration, NEW f \in ConfigFields, NEW v \in Settable \cup {BadValue}
  PROVE  [cfg EXCEPT ![f] = v] \in Configuration
BY DEF Configuration

LEMMA LoadedConfiguration ==
  ASSUME ConfigTypeOK, Readable PROVE Loaded \in Configuration
BY ValuesAssumption DEF ConfigTypeOK, Readable, Loaded, Contents, Configuration, Defaults

LEMMA EffectiveConfiguration ==
  ASSUME ConfigTypeOK, NEW cfg \in LoadEffective PROVE cfg \in Configuration /\ Valid(cfg)
<1>1. Readable /\ cfg = WithOverrides(Loaded) /\ Valid(cfg)
  BY DEF LoadEffective
<1>2. Loaded \in Configuration
  BY <1>1, LoadedConfiguration
<1>3. WithOverrides(Loaded) \in Configuration
  BY <1>2, ValuesAssumption DEF WithOverrides, Configuration, ConfigTypeOK
<1> QED
  BY <1>1, <1>3

LEMMA NoTaskIsNone == NoTask \notin Tasks /\ NoTask.stage \notin Stages
BY DEF NoTask, Tasks, Stages

\* A task that goes on changes its stage and nothing else, and no other task changes.
LEMMA TaskGoesOn ==
  ASSUME ConfigTypeOK, NEW a \in Actors, NEW s \in Stages, Busy(a), GoOn(a, s)
  PROVE  /\ task' \in [Actors -> Tasks \cup {NoTask}]
         /\ task'[a] # NoTask /\ task'[a].stage = s
         /\ task'[a].op = task[a].op /\ task'[a].cfg = task[a].cfg
         /\ task'[a].undisturbed = task[a].undisturbed /\ task'[a].found = task[a].found
         /\ \A b \in Actors \ {a} : task'[b] = task[b]
<1>1. task[a] \in Tasks /\ task \in [Actors -> Tasks \cup {NoTask}]
  BY DEF ConfigTypeOK
<1>2. task'[a] = [task[a] EXCEPT !.stage = s] /\ \A b \in Actors \ {a} : task'[b] = task[b]
  BY <1>1 DEF GoOn
<1>3. /\ task'[a] \in Tasks /\ task'[a].stage = s
      /\ task'[a].op = task[a].op /\ task'[a].cfg = task[a].cfg
      /\ task'[a].undisturbed = task[a].undisturbed /\ task'[a].found = task[a].found
  BY <1>1, <1>2 DEF Tasks
<1>4. task' \in [Actors -> Tasks \cup {NoTask}]
  BY <1>1, <1>3 DEF GoOn
<1> QED
  BY <1>2, <1>3, <1>4, NoTaskIsNone

LEMMA TaskEnds ==
  ASSUME ConfigTypeOK, NEW a \in Actors, EndTask(a)
  PROVE  /\ task' \in [Actors -> Tasks \cup {NoTask}]
         /\ task'[a] = NoTask
         /\ \A b \in Actors \ {a} : task'[b] = task[b]
BY DEF ConfigTypeOK, EndTask

\* What a task that begins is, and what becomes of the others.
TaskBegun(a, op, s, given) ==
  /\ task' \in [Actors -> Tasks \cup {NoTask}]
  /\ task'[a] # NoTask /\ task'[a].stage = s
  /\ task'[a].op = op /\ task'[a].cfg = given
  /\ task'[a].undisturbed => \A c \in Actors : task[c] = NoTask
  /\ task'[a].found = [configFile |-> configFile, inForce |-> inForce]
  /\ \A b \in Actors \ {a} : task[b] = NoTask => task'[b] = NoTask
  /\ \A b \in Actors \ {a} : task[b] # NoTask =>
       /\ task'[b] # NoTask /\ task'[b].stage = task[b].stage
       /\ task'[b].op = task[b].op /\ task'[b].cfg = task[b].cfg
       /\ task'[b].undisturbed = FALSE
  /\ fileChanges' \in 0 .. MaxFileChanges

\* A task that begins is as asked for, and undisturbed when no other is at work; the
\* others are disturbed.
LEMMA TaskBegins ==
  ASSUME ConfigTypeOK, NEW a \in Actors, NEW op \in {"set", "reload", "start", "menu"},
         NEW s \in Stages, NEW given \in Configuration, BeginTask(a, op, s, given)
  PROVE  TaskBegun(a, op, s, given)
<1> DEFINE new == [op |-> op, stage |-> s, cfg |-> given,
                   undisturbed |-> \A c \in Actors : ~ Busy(c),
                   found |-> [configFile |-> configFile, inForce |-> inForce]]
<1>1. new \in Tasks /\ new.undisturbed = (\A c \in Actors : task[c] = NoTask)
  BY DEF Tasks, ConfigTypeOK
<1>2. /\ new.stage = s /\ new.op = op /\ new.cfg = given
      /\ new.found = [configFile |-> configFile, inForce |-> inForce]
  OBVIOUS
<1>3. task' = [b \in Actors |-> IF b = a THEN new
                               ELSE IF Busy(b) THEN [task[b] EXCEPT !.undisturbed = FALSE]
                               ELSE NoTask]
  BY DEF BeginTask
<1> HIDE DEF new
<1>4. ASSUME NEW b \in Actors \ {a}, task[b] # NoTask
      PROVE  /\ task'[b] \in Tasks /\ task'[b].stage = task[b].stage
             /\ task'[b].op = task[b].op /\ task'[b].cfg = task[b].cfg
             /\ task'[b].undisturbed = FALSE
  <2>1. task[b] \in Tasks /\ task'[b] = [task[b] EXCEPT !.undisturbed = FALSE]
    BY <1>3, <1>4 DEF ConfigTypeOK
  <2> QED
    BY <2>1 DEF Tasks
<1>5. \A b \in Actors \ {a} : task[b] = NoTask => task'[b] = NoTask
  BY <1>3
<1>6. task'[a] = new
  BY <1>3
<1>7. task' \in [Actors -> Tasks \cup {NoTask}]
  <2>1. DOMAIN task' = Actors /\ task' = [b \in Actors |-> task'[b]]
    BY <1>3
  <2>2. \A b \in Actors : task'[b] \in Tasks \cup {NoTask}
    BY <1>1, <1>4, <1>5, <1>6
  <2> QED
    BY <2>1, <2>2
<1>8. fileChanges' \in 0 .. MaxFileChanges
  BY FileBoundsAssumption DEF BeginTask, ConfigTypeOK
<1> QED
  BY <1>1, <1>2, <1>4, <1>5, <1>6, <1>7, <1>8, NoTaskIsNone DEF TaskBegun

(***************************************************************************)
(* Whatever is at work has read and validated its configuration.  What the *)
(* agent has in force is changed by its start, which nobody else performs, *)
(* and by its commands, which end with it.                                 *)
(***************************************************************************)
ConfigInv ==
  /\ ConfigTypeOK
  /\ OnlyValidInForce
  /\ \A a \in Actors : Busy(a) => Valid(task[a].cfg)
  /\ At("menu", "cache_ttl") => inForce = Missing /\ ~ Busy("start")

\* The change of a task by somebody who has read nothing that is not valid.
LEMMA ValidStep ==
  ASSUME ConfigInv, NEW a \in Actors,
         task' \in [Actors -> Tasks \cup {NoTask}],
         override' = override, configFile' \in Contents, inForce' = inForce,
         fileChanges' \in 0 .. MaxFileChanges, saveFailures' \in 0 .. MaxSaveFailures,
         Busy(a)' => Valid(task'[a].cfg),
         a \in Commanders /\ Busy(a)' => inForce # Missing,
         a = "start" /\ Busy(a)' => inForce = Missing /\ ~ At("menu", "cache_ttl"),
         a = "menu" /\ Busy(a)' => task'[a].stage \in {"edit", "truncate", "write", "create"},
         \A b \in Actors \ {a} : task[b] = NoTask => task'[b] = NoTask,
         \A b \in Actors \ {a} : task[b] # NoTask =>
              /\ task'[b] # NoTask /\ task'[b].stage = task[b].stage
              /\ task'[b].op = task[b].op /\ task'[b].cfg = task[b].cfg
  PROVE  ConfigInv'
<1>1. \A b \in Actors : Busy(b)' => Valid(task'[b].cfg)
  BY DEF ConfigInv
<1>2. (At("menu", "cache_ttl") => inForce = Missing /\ ~ Busy("start"))'
  BY ValuesAssumption DEF ConfigInv
<1>3. OnlyValidInForce'
  BY DEF ConfigInv, OnlyValidInForce, Valid
<1>4. (\A b \in Commanders : Busy(b) => inForce # Missing)'
  BY DEF ConfigInv, ConfigTypeOK
<1>5. (task["start"] # NoTask => inForce = Missing /\ Valid(task["start"].cfg))'
  BY <1>1 DEF ConfigInv, ConfigTypeOK, Valid
<1>6. (task["menu"] # NoTask => task["menu"].stage \notin {"history", "collector_interval"})'
  BY DEF ConfigInv, ConfigTypeOK
<1>7. override' \in Overrides /\ inForce' \in InForce
  BY DEF ConfigInv, ConfigTypeOK
<1>8. ConfigTypeOK'
  BY <1>4, <1>5, <1>6, <1>7 DEF ConfigTypeOK
<1>9. (\A b \in Actors : Busy(b) => Valid(task[b].cfg))'
  BY <1>1 DEF Valid
<1> QED
  BY <1>2, <1>3, <1>8, <1>9 DEF ConfigInv

\* So a task that begins with a valid configuration, goes on with the one it has, or ends,
\* keeps ConfigInv.
LEMMA BeginningIsValid ==
  ASSUME ConfigInv, NEW a \in Actors, NEW op \in {"set", "reload", "start", "menu"},
         NEW s \in Stages, NEW cfg \in Configuration, Valid(cfg), BeginTask(a, op, s, cfg),
         a \in Commanders => inForce # Missing,
         a = "start" => inForce = Missing /\ ~ At("menu", "cache_ttl"),
         a = "menu" => s \in {"edit", "truncate", "write", "create"}
  PROVE  ConfigInv'
<1>1. ConfigTypeOK
  BY DEF ConfigInv
<1>2. UNCHANGED <<override, configFile, inForce, saveFailures>>
  BY DEF BeginTask
<1>3. configFile' \in Contents /\ saveFailures' \in 0 .. MaxSaveFailures
  BY <1>1, <1>2 DEF ConfigTypeOK
<1> HIDE DEF Actors, Busy, At
<1>b. TaskBegun(a, op, s, cfg)
  BY <1>1, TaskBegins
<1>4. /\ task' \in [Actors -> Tasks \cup {NoTask}]
      /\ \A b \in Actors \ {a} : task[b] = NoTask => task'[b] = NoTask
      /\ fileChanges' \in 0 .. MaxFileChanges
  BY <1>b DEF TaskBegun
<1>5. task'[a].stage = s /\ task'[a].cfg = cfg
  BY DEF BeginTask
<1>6. ASSUME NEW b \in Actors \ {a}, task[b] # NoTask
      PROVE  /\ task'[b] # NoTask /\ task'[b].stage = task[b].stage
             /\ task'[b].op = task[b].op /\ task'[b].cfg = task[b].cfg
  BY <1>6, <1>b DEF TaskBegun
<1> QED
  BY <1>2, <1>3, <1>4, <1>5, <1>6, ValidStep

LEMMA GoingOnIsValid ==
  ASSUME ConfigInv, NEW a \in Actors, Busy(a), NEW s \in Stages, GoOn(a, s),
         override' = override, configFile' \in Contents, inForce' = inForce,
         fileChanges' \in 0 .. MaxFileChanges, saveFailures' \in 0 .. MaxSaveFailures,
         a = "start" => ~ At("menu", "cache_ttl"),
         a = "menu" => s \in {"edit", "truncate", "write", "create"}
  PROVE  ConfigInv'
<1>1. ConfigTypeOK /\ Valid(task[a].cfg)
  BY DEF ConfigInv
<1>2. /\ task' \in [Actors -> Tasks \cup {NoTask}]
      /\ task'[a].stage = s /\ task'[a].cfg = task[a].cfg
      /\ \A b \in Actors \ {a} : task'[b] = task[b]
  BY <1>1, TaskGoesOn
<1>3. /\ a \in Commanders => inForce # Missing
      /\ a = "start" => inForce = Missing
  BY <1>1 DEF ConfigTypeOK
<1>4. Valid(task'[a].cfg)
  BY <1>1, <1>2
<1> QED
  BY <1>2, <1>3, <1>4, ValidStep

LEMMA EndingIsValid ==
  ASSUME ConfigInv, NEW a \in Actors, EndTask(a),
         override' = override, configFile' \in Contents, inForce' = inForce,
         fileChanges' \in 0 .. MaxFileChanges, saveFailures' \in 0 .. MaxSaveFailures
  PROVE  ConfigInv'
<1>1. /\ task' \in [Actors -> Tasks \cup {NoTask}]
      /\ ~ Busy(a)'
      /\ \A b \in Actors \ {a} : task'[b] = task[b]
  BY TaskEnds DEF ConfigInv
<1> QED
  BY <1>1, ValidStep

LEMMA BeginIsValid ==
  ASSUME ConfigInv, BeginStart \/ OpenMenu \/ \E a \in Commanders : BeginSet(a) \/ BeginReload(a)
  PROVE  ConfigInv'
<1> USE DEF ConfigInv
<1>1. CASE BeginStart
  <2>1. PICK cfg \in LoadEffective :
          BeginTask("start", "start", IF configFile = Missing THEN "create" ELSE "cache_ttl", cfg)
    BY <1>1 DEF BeginStart
  <2>2. cfg \in Configuration /\ Valid(cfg)
    BY EffectiveConfiguration
  <2>3. PICK s \in {"create", "cache_ttl"} : BeginTask("start", "start", s, cfg)
    BY <2>1
  <2>4. s \in Stages
    BY DEF Stages
  <2>5. UNCHANGED <<override, configFile, inForce, saveFailures>>
    BY <2>1 DEF BeginTask
  <2> QED
    BY <1>1, <2>2, <2>3, <2>4, <2>5, BeginningIsValid, ValuesAssumption
    DEF BeginStart, ConfigTypeOK
<1>2. CASE OpenMenu
  <2>1. PICK cfg \in LoadEffective : BeginTask("menu", "menu", "edit", cfg)
    BY <1>2 DEF OpenMenu
  <2>2. cfg \in Configuration /\ Valid(cfg)
    BY EffectiveConfiguration
  <2>3. UNCHANGED <<override, configFile, inForce, saveFailures>>
    BY <2>1 DEF BeginTask
  <2> QED
    BY <2>1, <2>2, <2>3, BeginningIsValid, ValuesAssumption DEF ConfigTypeOK, Stages
<1>3. ASSUME NEW a \in Commanders, BeginSet(a) PROVE ConfigInv'
  <2>1. PICK f \in ConfigFields, v \in Settable \cup {BadValue} :
          /\ Valid([Loaded EXCEPT ![f] = v])
          /\ BeginTask(a, "set", "truncate", [Loaded EXCEPT ![f] = v])
    BY <1>3 DEF BeginSet
  <2> DEFINE cfg == [Loaded EXCEPT ![f] = v]
  <2>2. cfg \in Configuration
    BY <1>3, LoadedConfiguration, ChangedConfiguration DEF BeginSet
  <2>3. Valid(cfg) /\ BeginTask(a, "set", "truncate", cfg)
    BY <2>1
  <2> HIDE DEF cfg
  <2>4. UNCHANGED <<override, configFile, inForce, saveFailures>> /\ inForce # Missing
    BY <1>3, <2>3 DEF BeginTask, BeginSet
  <2> QED
    BY <2>2, <2>3, <2>4, BeginningIsValid, ValuesAssumption DEF ConfigTypeOK, Stages
<1>4. ASSUME NEW a \in Commanders, BeginReload(a) PROVE ConfigInv'
  <2>1. PICK cfg \in LoadEffective : BeginTask(a, "reload", "cache_ttl", cfg)
    BY <1>4 DEF BeginReload
  <2>2. cfg \in Configuration /\ Valid(cfg)
    BY EffectiveConfiguration
  <2>3. UNCHANGED <<override, configFile, inForce, saveFailures>> /\ inForce # Missing
    BY <1>4, <2>1 DEF BeginTask, BeginReload
  <2> QED
    BY <2>1, <2>2, <2>3, BeginningIsValid, ValuesAssumption DEF ConfigTypeOK, Stages
<1> QED
  BY <1>1, <1>2, <1>3, <1>4

LEMMA SavingIsValid ==
  ASSUME ConfigInv,
         EditDraft \/ CreateFile \/ EditByHand
           \/ \E a \in Actors : TruncateFile(a) \/ WriteFile(a) \/ SaveFails(a)
  PROVE  ConfigInv'
<1> USE DEF ConfigInv
<1>0. \A a \in Actors : Busy(a) => task[a] \in Tasks /\ task[a].cfg \in Configuration
  BY DEF ConfigTypeOK, Tasks
<1>1. CASE EditDraft
  <2>1. UNCHANGED <<override, configFile, inForce, fileChanges, saveFailures>>
    BY <1>1 DEF EditDraft
  <2>2. CASE \E f \in ConfigFields, v \in Settable : task' = [task EXCEPT !["menu"].cfg[f] = v]
    <3>1. PICK f \in ConfigFields, v \in Settable : task' = [task EXCEPT !["menu"].cfg[f] = v]
      BY <2>2
    <3> DEFINE cfg == [task["menu"].cfg EXCEPT ![f] = v]
    <3>2. task["menu"] \in Tasks /\ task["menu"].cfg \in Configuration /\ Valid(task["menu"].cfg)
          /\ task["menu"].stage = "edit"
      BY <1>0, <1>1 DEF EditDraft
    <3>3. cfg \in Configuration /\ Valid(cfg)
      BY <3>2, ValuesAssumption DEF Configuration, Valid
    <3>4. task'["menu"] = [task["menu"] EXCEPT !.cfg = cfg]
          /\ \A b \in Actors \ {"menu"} : task'[b] = task[b]
      BY <3>1 DEF ConfigTypeOK
    <3>5. task' = [task EXCEPT !["menu"] = [task["menu"] EXCEPT !.cfg = cfg]]
      BY <3>1
    <3> HIDE DEF cfg
    <3>6. /\ task'["menu"] \in Tasks /\ task'["menu"].cfg = cfg
          /\ task'["menu"].stage = "edit"
      BY <3>2, <3>3, <3>4 DEF Tasks
    <3>7. task' \in [Actors -> Tasks \cup {NoTask}]
      BY <3>4, <3>5, <3>6 DEF ConfigTypeOK
    <3>8. "menu" \in Actors /\ "menu" \notin Commanders /\ Valid(task'["menu"].cfg)
      BY <3>3, <3>6, ValuesAssumption
    <3>9. configFile' \in Contents /\ fileChanges' \in 0 .. MaxFileChanges
          /\ saveFailures' \in 0 .. MaxSaveFailures
      BY <2>1 DEF ConfigTypeOK
    <3>10. \A b \in Actors \ {"menu"} : task[b] # NoTask =>
             /\ task'[b] # NoTask /\ task'[b].stage = task[b].stage
             /\ task'[b].op = task[b].op /\ task'[b].cfg = task[b].cfg
      BY <3>4
    <3>11. \A b \in Actors \ {"menu"} : task[b] = NoTask => task'[b] = NoTask
      BY <3>4
    <3>12. override' = override /\ inForce' = inForce
      BY <2>1
    <3> HIDE DEF Actors, Busy, At
    <3> QED
      BY <3>6, <3>7, <3>8, <3>9, <3>10, <3>11, <3>12, ValidStep
  <2>3. CASE GoOn("menu", "truncate")
    BY <1>1, <2>1, <2>3, GoingOnIsValid, ValuesAssumption DEF EditDraft, ConfigTypeOK, Stages
  <2>4. CASE EndTask("menu")
    BY <2>1, <2>4, EndingIsValid, ValuesAssumption DEF ConfigTypeOK
  <2> QED
    BY <1>1, <2>2, <2>3, <2>4 DEF EditDraft
<1>2. CASE CreateFile
  <2>1. /\ Busy("start") /\ UNCHANGED <<override, inForce, fileChanges, saveFailures>>
        /\ configFile' \in Contents
    BY <1>2 DEF CreateFile, ConfigTypeOK, Contents
  <2>2. PICK s \in {"write", "cache_ttl"} : GoOn("start", s)
    BY <1>2 DEF CreateFile
  <2> QED
    BY <2>1, <2>2, GoingOnIsValid, ValuesAssumption DEF ConfigTypeOK, Stages
<1>3. ASSUME NEW a \in Actors, TruncateFile(a) PROVE ConfigInv'
  <2>1. /\ Busy(a) /\ UNCHANGED <<override, inForce, fileChanges, saveFailures>>
        /\ configFile' \in Contents /\ GoOn(a, "write")
    BY <1>3 DEF TruncateFile, Contents
  <2> QED
    BY <2>1, GoingOnIsValid, ValuesAssumption DEF ConfigTypeOK, Stages
<1>4. ASSUME NEW a \in Actors, SaveFails(a) PROVE ConfigInv'
  <2>1. /\ Busy(a) /\ UNCHANGED <<override, inForce, fileChanges>>
        /\ configFile' \in Contents
    BY <1>4 DEF SaveFails, Contents, ConfigTypeOK
  <2>2. saveFailures' \in 0 .. MaxSaveFailures
    BY <1>4, FileBoundsAssumption DEF SaveFails, ConfigTypeOK
  <2>3. CASE a = "start"
    <3>1. GoOn(a, "cache_ttl")
      BY <1>4, <2>3 DEF SaveFails
    <3> QED
      BY <2>1, <2>2, <2>3, <3>1, GoingOnIsValid, ValuesAssumption DEF ConfigTypeOK, Stages
  <2>4. CASE a = "menu"
    <3>1. GoOn(a, "edit")
      BY <1>4, <2>4 DEF SaveFails
    <3> QED
      BY <2>1, <2>2, <2>4, <3>1, GoingOnIsValid, ValuesAssumption DEF ConfigTypeOK, Stages
  <2>5. CASE a \in Commanders
    <3>1. EndTask(a)
      BY <1>4, <2>5, ValuesAssumption DEF SaveFails
    <3> QED
      BY <2>1, <2>2, <3>1, EndingIsValid DEF ConfigTypeOK
  <2> QED
    BY <2>3, <2>4, <2>5
<1>5. ASSUME NEW a \in Actors, WriteFile(a) PROVE ConfigInv'
  <2>1. /\ Busy(a) /\ UNCHANGED <<override, inForce, fileChanges, saveFailures>>
        /\ configFile' \in Contents /\ AfterSave(a)
    BY <1>0, <1>5 DEF WriteFile, Contents
  <2>2. CASE EndTask(a)
    BY <2>1, <2>2, EndingIsValid DEF ConfigTypeOK
  <2>3. CASE a # "menu" /\ GoOn(a, "cache_ttl")
    BY <2>1, <2>3, GoingOnIsValid, ValuesAssumption DEF ConfigTypeOK, Stages
  <2>4. CASE a = "menu" /\ inForce = Missing /\ ~ Busy("start") /\ GoOn(a, "cache_ttl")
    <3>1. "cache_ttl" \in Stages
      BY DEF Stages
    <3>2. /\ task' \in [Actors -> Tasks \cup {NoTask}]
          /\ task'["menu"].stage = "cache_ttl" /\ task'["menu"].cfg = task["menu"].cfg
          /\ \A b \in Actors \ {"menu"} : task'[b] = task[b]
      BY <2>1, <2>4, <3>1, TaskGoesOn
    <3>3. "start" \in Actors \ {"menu"} /\ task'["start"] = NoTask
      BY <2>4, <3>2
    <3>4. (\A b \in Actors : Busy(b) => Valid(task[b].cfg))'
      BY <2>1, <2>4, <3>2 DEF Valid
    <3>5. ConfigTypeOK'
      BY <2>1, <3>2, <3>3, ValuesAssumption DEF ConfigTypeOK
    <3> QED
      BY <2>1, <2>4, <3>3, <3>4, <3>5 DEF OnlyValidInForce, Valid
  <2> QED
    BY <2>1, <2>2, <2>3, <2>4 DEF AfterSave
<1>6. CASE EditByHand
  <2>1. /\ UNCHANGED <<override, inForce, saveFailures>>
        /\ configFile' \in Contents /\ fileChanges' \in 0 .. MaxFileChanges
    <3>1. \A f \in ConfigFields : [Defaults EXCEPT ![f] = BadValue] \in Configuration
      BY ValuesAssumption DEF Defaults, Configuration
    <3>2. configFile' \in Contents
      BY <1>6, <3>1 DEF EditByHand, Contents
    <3> QED
      BY <1>6, <3>2, FileBoundsAssumption DEF EditByHand, ConfigTypeOK
  <2>2. task' = [b \in Actors |-> IF Busy(b) THEN [task[b] EXCEPT !.undisturbed = FALSE]
                                 ELSE NoTask]
    BY <1>6 DEF EditByHand
  <2>3. \A b \in Actors : task[b] = NoTask => task'[b] = NoTask
    BY <2>2
  <2>4. ASSUME NEW b \in Actors, task[b] # NoTask
        PROVE  /\ task'[b] \in Tasks /\ task'[b].stage = task[b].stage
               /\ task'[b].op = task[b].op /\ task'[b].cfg = task[b].cfg
    <3>1. task[b] \in Tasks /\ task'[b] = [task[b] EXCEPT !.undisturbed = FALSE]
      BY <1>0, <2>2, <2>4
    <3> QED
      BY <3>1 DEF Tasks
  <2>5. task' \in [Actors -> Tasks \cup {NoTask}]
    <3>1. DOMAIN task' = Actors /\ task' = [b \in Actors |-> task'[b]]
      BY <2>2
    <3> QED
      BY <2>3, <2>4, <3>1
  <2>6. \A b \in Actors : Busy(b)' => Busy(b) /\ Valid(task'[b].cfg)
    BY <2>3, <2>4
  <2>7. PICK a \in Actors : a = "start"
    OBVIOUS
  <2>8. \A b \in Actors : task[b] # NoTask => task'[b] # NoTask
    BY <2>4, NoTaskIsNone
  <2> QED
    BY <2>1, <2>3, <2>4, <2>5, <2>6, <2>7, <2>8, ValidStep, ValuesAssumption DEF ConfigTypeOK
<1> QED
  BY <1>1, <1>2, <1>3, <1>4, <1>5, <1>6

LEMMA ApplyingIsValid ==
  ASSUME ConfigInv, NEW a \in Commanders, ApplyField(a)
  PROVE  ConfigInv'
<1>0. /\ ConfigTypeOK /\ OnlyValidInForce /\ Valid(task[a].cfg) /\ a \in Actors
      /\ task[a] \in Tasks /\ inForce \in Configuration /\ inForce # Missing
      /\ UNCHANGED <<override, configFile, fileChanges, saveFailures>>
  BY DEF ConfigInv, ConfigTypeOK, ApplyField, InForce
<1>1. PICK f \in ConfigFields : f = task[a].stage
  BY DEF ApplyField
<1>2. inForce' = [inForce EXCEPT ![f] = task[a].cfg[f]]
  BY <1>0, <1>1 DEF ApplyField, Valid
<1>3. inForce' \in Configuration /\ Valid(inForce')
  BY <1>0, <1>2 DEF Tasks, Configuration, Valid, OnlyValidInForce
<1>4. /\ task' \in [Actors -> Tasks \cup {NoTask}]
      /\ \A b \in Actors \ {a} : task'[b] = task[b]
      /\ Busy(a)' => task'[a].cfg = task[a].cfg
  <2>1. CASE EndTask(a)
    BY <1>0, <2>1, TaskEnds
  <2>2. CASE ~ EndTask(a)
    <3>1. PICK s \in {"history", "collector_interval"} : GoOn(a, s)
      BY <1>0, <2>2 DEF ApplyField, Following, Valid
    <3>2. s \in Stages /\ Busy(a)
      BY DEF Stages, ApplyField
    <3> HIDE DEF Actors, Busy
    <3>3. /\ task' \in [Actors -> Tasks \cup {NoTask}]
          /\ \A b \in Actors \ {a} : task'[b] = task[b]
          /\ task'[a].cfg = task[a].cfg
      BY <1>0, <3>1, <3>2, TaskGoesOn
    <3> QED
      BY <3>3
  <2> QED
    BY <2>1, <2>2
<1>5. task["start"] = NoTask /\ task'["start"] = NoTask /\ task'["menu"] = task["menu"]
  BY <1>0, <1>4, ValuesAssumption DEF ConfigTypeOK
<1>6. inForce' # Missing /\ inForce' \in InForce
  BY <1>3, ValuesAssumption DEF InForce
<1>7. ConfigTypeOK'
  BY <1>0, <1>4, <1>5, <1>6 DEF ConfigTypeOK
<1>8. (\A b \in Actors : Busy(b) => Valid(task[b].cfg))'
  <2>1. \A b \in Actors \ {a} : Busy(b)' => Valid(task'[b].cfg)
    BY <1>4 DEF ConfigInv
  <2>2. Busy(a)' => Valid(task'[a].cfg)
    BY <1>0, <1>4
  <2> QED
    BY <2>1, <2>2 DEF Valid
<1>9. (At("menu", "cache_ttl") => inForce = Missing /\ ~ Busy("start"))'
  BY <1>0, <1>5 DEF ConfigInv
<1>10. OnlyValidInForce'
  BY <1>3 DEF OnlyValidInForce, Valid
<1> QED
  BY <1>7, <1>8, <1>9, <1>10 DEF ConfigInv

LEMMA StartAndEndAreValid ==
  ASSUME ConfigInv, AgentEnds \/ \E a \in {"start", "menu"} : AgentStarts(a)
  PROVE  ConfigInv'
<1>0. ConfigTypeOK
  BY DEF ConfigInv
<1>1. CASE AgentEnds
  <2>1. /\ \A a \in Actors \ {"menu"} : task'[a] = NoTask
        /\ task'["menu"] = task["menu"]
        /\ task' \in [Actors -> Tasks \cup {NoTask}]
    BY <1>0, <1>1, ValuesAssumption DEF AgentEnds, ConfigTypeOK
  <2>2. inForce' = Missing /\ UNCHANGED <<override, configFile, fileChanges, saveFailures>>
    BY <1>1 DEF AgentEnds
  <2>3. ConfigTypeOK'
    BY <1>0, <2>1, <2>2, ValuesAssumption DEF ConfigTypeOK, InForce
  <2>4. (\A b \in Actors : Busy(b) => Valid(task[b].cfg))'
    BY <2>1 DEF ConfigInv, Valid
  <2> QED
    BY <2>1, <2>2, <2>3, <2>4 DEF ConfigInv, OnlyValidInForce
<1>2. ASSUME NEW a \in {"start", "menu"}, AgentStarts(a) PROVE ConfigInv'
  <2>1. /\ Busy(a) /\ task[a] \in Tasks /\ task[a].cfg \in Configuration /\ Valid(task[a].cfg)
        /\ inForce = Missing /\ inForce' = task[a].cfg
        /\ UNCHANGED <<override, configFile, fileChanges, saveFailures>>
    BY <1>0, <1>2 DEF AgentStarts, ConfigInv, ConfigTypeOK, Tasks
  <2>2. /\ task' \in [Actors -> Tasks \cup {NoTask}]
        /\ task'[a] = NoTask
        /\ \A b \in Actors \ {a} : task'[b] = task[b]
    BY <1>0, <1>2, TaskEnds DEF AgentStarts
  <2>3. \A b \in Commanders : task[b] = NoTask /\ task'[b] = NoTask
    BY <1>0, <2>1, <2>2, ValuesAssumption DEF ConfigTypeOK
  <2>4. task'["start"] = NoTask /\ ~ At("menu", "cache_ttl")'
    BY <1>2, <2>1, <2>2 DEF ConfigInv, AgentStarts
  <2>5. task'["menu"] # NoTask => task'["menu"].stage \notin {"history", "collector_interval"}
    BY <1>0, <1>2, <2>2 DEF ConfigTypeOK
  <2>6. inForce' # Missing /\ inForce' \in InForce /\ Valid(inForce')
    BY <2>1, ValuesAssumption DEF InForce, Valid
  <2>7. ConfigTypeOK'
    BY <1>0, <2>1, <2>2, <2>3, <2>4, <2>5, <2>6 DEF ConfigTypeOK
  <2>8. (\A b \in Actors : Busy(b) => Valid(task[b].cfg))'
    BY <2>2 DEF ConfigInv, Valid
  <2> QED
    BY <2>4, <2>6, <2>7, <2>8 DEF ConfigInv, OnlyValidInForce, Valid
<1> QED
  BY <1>1, <1>2

LEMMA ConfigInitInv == ConfigInit => ConfigInv
<1> SUFFICES ASSUME ConfigInit PROVE ConfigInv
  OBVIOUS
<1>1. Defaults \in Configuration
  BY ValuesAssumption DEF Defaults, Configuration
<1> QED
  BY <1>1, ValuesAssumption, FileBoundsAssumption
  DEF ConfigInit, ConfigInv, ConfigTypeOK, OnlyValidInForce, Contents, InForce, NoTask

LEMMA ConfigStep == ConfigInv /\ [ConfigNext]_configVars => ConfigInv'
<1> SUFFICES ASSUME ConfigInv, [ConfigNext]_configVars PROVE ConfigInv'
  OBVIOUS
<1>1. CASE BeginStart \/ OpenMenu \/ \E a \in Commanders : BeginSet(a) \/ BeginReload(a)
  BY <1>1, BeginIsValid
<1>2. CASE EditDraft \/ CreateFile \/ EditByHand
             \/ \E a \in Actors : TruncateFile(a) \/ WriteFile(a) \/ SaveFails(a)
  BY <1>2, SavingIsValid
<1>3. CASE \E a \in Commanders : ApplyField(a)
  BY <1>3, ApplyingIsValid
<1>4. CASE AgentEnds \/ \E a \in {"start", "menu"} : AgentStarts(a)
  BY <1>4, StartAndEndAreValid
<1>5. CASE UNCHANGED configVars
  BY <1>5 DEF configVars, ConfigInv, ConfigTypeOK, OnlyValidInForce, Valid
<1> QED
  BY <1>1, <1>2, <1>3, <1>4, <1>5 DEF ConfigNext

LEMMA ConfigInvariant == ConfigSpec => []ConfigInv
BY ConfigInitInv, ConfigStep, PTL DEF ConfigSpec

\* The file, what is in force and every task keep their shape; the start of the agent works
\* only while nothing is in force, its commands only while something is.
THEOREM ConfigTypeCorrect == ConfigSpec => []ConfigTypeOK
<1>1. ConfigInv => ConfigTypeOK
  BY DEF ConfigInv
<1> QED
  BY <1>1, ConfigInvariant, PTL

\* Whoever writes the file meanwhile, and however badly, the agent has nothing in force
\* that Validate rejects.
THEOREM ValidInForce == ConfigSpec => []OnlyValidInForce
<1>1. ConfigInv => OnlyValidInForce
  BY DEF ConfigInv
<1> QED
  BY <1>1, ConfigInvariant, PTL

-----------------------------------------------------------------------------
(* config.set is all or nothing.                                            *)

\* What a does on its own once it has begun to set.
SetSteps(a) == TruncateFile(a) \/ WriteFile(a) \/ SaveFails(a) \/ ApplyField(a)

(***************************************************************************)
(* While nothing has disturbed a config.set it is alone, and the file and  *)
(* what is in force are what it found or what it has made of them so far.  *)
(***************************************************************************)
Undisturbed(a) == Busy(a) /\ task[a].op = "set" /\ task[a].undisturbed

SetFacts(a) ==
  /\ \A b \in Actors \ {a} : ~ Busy(b)
  /\ task[a].stage \in {"truncate", "write"} \cup ConfigFields
  /\ task[a].stage \in {"truncate", "write", "cache_ttl"} => inForce = task[a].found.inForce
  /\ task[a].stage = "truncate" => configFile = task[a].found.configFile
  /\ task[a].stage = "write" => configFile = Empty
  /\ task[a].stage \in ConfigFields => configFile = task[a].cfg
  /\ task[a].stage \in {"history", "collector_interval"} =>
       inForce["cache_ttl"] = task[a].cfg["cache_ttl"]
  /\ task[a].stage = "collector_interval" => inForce["history"] = task[a].cfg["history"]

SetInv == \A a \in Commanders : Undisturbed(a) => SetFacts(a)

\* How a config.set that nothing has disturbed may end: see SetIsAllOrNothing.
AllOrNothing(a) ==
  \/ configFile' = task[a].cfg /\ inForce' = task[a].cfg
  \/ configFile' = task[a].found.configFile /\ inForce' = task[a].found.inForce
  \/ /\ configFile' \in {Empty, Torn} /\ saveFailures' # saveFailures
     /\ inForce' = task[a].found.inForce

\* Nobody but a changes its task, except that a task which begins or an edit disturbs it
\* and the end of the agent ends it.
LEMMA OthersLeaveTask ==
  ASSUME ConfigInv, ConfigNext, NEW a \in Commanders
  PROVE  \/ BeginSet(a)
         \/ BeginReload(a)
         \/ Busy(a) /\ SetSteps(a)
         \/ task'[a] = task[a] /\ \E b \in Actors \ {a} : Busy(b)
         \/ ~ Busy(a) /\ task'[a] = NoTask
         \/ Busy(a) /\ Busy(a)' /\ task'[a].undisturbed = FALSE
         \/ task'[a] = NoTask /\ inForce' = Missing
<1>1. ConfigTypeOK /\ a \in Actors
  BY DEF ConfigInv
<1>2. ASSUME NEW b \in Actors \ {a}, NEW op, NEW s, NEW given, BeginTask(b, op, s, given)
      PROVE  \/ ~ Busy(a) /\ task'[a] = NoTask
             \/ Busy(a) /\ Busy(a)' /\ task'[a].undisturbed = FALSE
  <2>1. CASE Busy(a)
    <3>1. task[a] \in Tasks /\ task'[a] = [task[a] EXCEPT !.undisturbed = FALSE]
      BY <1>1, <1>2, <2>1 DEF ConfigTypeOK, BeginTask
    <3>2. task'[a] \in Tasks /\ task'[a].undisturbed = FALSE
      BY <3>1 DEF Tasks
    <3> QED
      BY <2>1, <3>2, NoTaskIsNone
  <2>2. CASE ~ Busy(a)
    BY <1>1, <1>2, <2>2 DEF BeginTask
  <2> QED
    BY <2>1, <2>2
<1>3. ASSUME NEW b \in Actors \ {a}, Busy(b), EndTask(b) \/ \E s : GoOn(b, s)
      PROVE  task'[a] = task[a] /\ \E c \in Actors \ {a} : Busy(c)
  BY <1>1, <1>3 DEF EndTask, GoOn, ConfigTypeOK
<1>4. "start" \in Actors \ {a} /\ "menu" \in Actors \ {a}
  BY ValuesAssumption
<1>5. CASE BeginStart
  BY <1>2, <1>4, <1>5 DEF BeginStart
<1>6. CASE OpenMenu
  BY <1>2, <1>4, <1>6 DEF OpenMenu
<1>7. ASSUME NEW b \in Commanders, BeginSet(b) \/ BeginReload(b), b # a
      PROVE  \/ ~ Busy(a) /\ task'[a] = NoTask
             \/ Busy(a) /\ Busy(a)' /\ task'[a].undisturbed = FALSE
  BY <1>2, <1>7 DEF BeginSet, BeginReload
<1>8. CASE EditDraft
  <2>1. task'[a] = task[a] /\ Busy("menu")
    BY <1>1, <1>4, <1>8 DEF EditDraft, EndTask, GoOn, ConfigTypeOK
  <2> QED
    BY <1>4, <2>1
<1>9. CASE CreateFile
  BY <1>3, <1>4, <1>9 DEF CreateFile
<1>10. CASE AgentEnds
  BY <1>1, <1>4, <1>10 DEF AgentEnds
<1>11. CASE EditByHand
  <2>1. CASE Busy(a)
    <3>1. task[a] \in Tasks /\ task'[a] = [task[a] EXCEPT !.undisturbed = FALSE]
      BY <1>1, <1>11, <2>1 DEF ConfigTypeOK, EditByHand
    <3>2. task'[a] \in Tasks /\ task'[a].undisturbed = FALSE
      BY <3>1 DEF Tasks
    <3> QED
      BY <2>1, <3>2, NoTaskIsNone
  <2>2. CASE ~ Busy(a)
    BY <1>1, <1>11, <2>2 DEF EditByHand
  <2> QED
    BY <2>1, <2>2
<1>12. ASSUME NEW b \in {"start", "menu"}, AgentStarts(b)
       PROVE  task'[a] = task[a] /\ \E c \in Actors \ {a} : Busy(c)
  BY <1>3, <1>4, <1>12 DEF AgentStarts
<1>13. ASSUME NEW b \in Actors \ {a}, TruncateFile(b) \/ WriteFile(b) \/ SaveFails(b)
       PROVE  task'[a] = task[a] /\ \E c \in Actors \ {a} : Busy(c)
  <2>1. Busy(b)
    BY <1>13 DEF TruncateFile, WriteFile, SaveFails
  <2>2. EndTask(b) \/ \E s : GoOn(b, s)
    BY <1>13 DEF TruncateFile, WriteFile, AfterSave, SaveFails
  <2> QED
    BY <1>3, <2>1, <2>2
<1>14. ASSUME NEW b \in Commanders, ApplyField(b), b # a
       PROVE  task'[a] = task[a] /\ \E c \in Actors \ {a} : Busy(c)
  BY <1>3, <1>14 DEF ApplyField
<1>15. Busy(a) \/ ~ (TruncateFile(a) \/ WriteFile(a) \/ SaveFails(a) \/ ApplyField(a))
  BY DEF TruncateFile, WriteFile, SaveFails, ApplyField
<1>16. CASE \E b \in Actors : TruncateFile(b) \/ WriteFile(b) \/ SaveFails(b)
  BY <1>13, <1>15, <1>16 DEF SetSteps
<1>17. CASE \E b \in Commanders : BeginSet(b) \/ BeginReload(b) \/ ApplyField(b)
  BY <1>7, <1>14, <1>15, <1>17 DEF SetSteps
<1> QED
  BY <1>5, <1>6, <1>8, <1>9, <1>10, <1>11, <1>12, <1>16, <1>17 DEF ConfigNext

\* A config.set that begins has what it needs.
LEMMA SetBegins ==
  ASSUME ConfigInv, NEW a \in Commanders, BeginSet(a), Undisturbed(a)'
  PROVE  SetFacts(a)'
<1>1. PICK f \in ConfigFields, v \in Settable \cup {BadValue} :
        BeginTask(a, "set", "truncate", [Loaded EXCEPT ![f] = v])
  BY DEF BeginSet
<1>2. /\ UNCHANGED <<configFile, inForce>>
      /\ task' = [b \in Actors |->
           IF b = a THEN [op |-> "set", stage |-> "truncate", cfg |-> [Loaded EXCEPT ![f] = v],
                          undisturbed |-> \A c \in Actors : ~ Busy(c),
                          found |-> [configFile |-> configFile, inForce |-> inForce]]
           ELSE IF Busy(b) THEN [task[b] EXCEPT !.undisturbed = FALSE]
           ELSE NoTask]
  BY <1>1 DEF BeginTask
<1>3. /\ task'[a].stage = "truncate"
      /\ task'[a].undisturbed = (\A c \in Actors : ~ Busy(c))
      /\ task'[a].found.configFile = configFile /\ task'[a].found.inForce = inForce
  BY <1>2
<1>4. \A b \in Actors : ~ Busy(b)
  BY <1>3 DEF Undisturbed
<1>5. \A b \in Actors \ {a} : task'[b] = NoTask
  BY <1>2, <1>4
<1> QED
  BY <1>2, <1>3, <1>5 DEF SetFacts

\* One that is undisturbed goes on as SetFacts says, and ends as AllOrNothing says.
LEMMA SetGoesOn ==
  ASSUME ConfigInv, NEW a \in Commanders, Undisturbed(a), SetFacts(a), SetSteps(a)
  PROVE  /\ Busy(a)' => SetFacts(a)'
         /\ task'[a] = NoTask => AllOrNothing(a)
<1>0. /\ ConfigTypeOK /\ a \in Actors /\ Busy(a) /\ task[a] \in Tasks
      /\ a \notin {"start", "menu"}
      /\ inForce \in Configuration /\ task[a].cfg \in Configuration /\ Valid(task[a].cfg)
  BY ValuesAssumption DEF ConfigInv, ConfigTypeOK, InForce, Undisturbed, Tasks
<1>1. ASSUME NEW s \in {"write"} \cup ConfigFields, GoOn(a, s)
      PROVE  /\ task'[a] # NoTask /\ task'[a].stage = s
             /\ task'[a].cfg = task[a].cfg /\ task'[a].found = task[a].found
             /\ \A b \in Actors \ {a} : task'[b] = NoTask
  <2>1. s \in Stages
    BY DEF Stages
  <2>2. \A b \in Actors \ {a} : task[b] = NoTask
    BY DEF SetFacts
  <2> HIDE DEF Actors, Busy
  <2> QED
    BY <1>0, <1>1, <2>1, <2>2, TaskGoesOn
<1>2. CASE TruncateFile(a)
  <2>1. GoOn(a, "write") /\ configFile' = Empty /\ inForce' = inForce
        /\ inForce = task[a].found.inForce
    BY <1>2 DEF TruncateFile, SetFacts
  <2> QED
    BY <1>1, <2>1 DEF SetFacts
<1>3. CASE WriteFile(a)
  <2>1. GoOn(a, "cache_ttl") /\ configFile' = task[a].cfg /\ inForce' = inForce
        /\ inForce = task[a].found.inForce
    BY <1>0, <1>3 DEF WriteFile, AfterSave, SetFacts
  <2> QED
    BY <1>1, <2>1 DEF SetFacts
<1>4. CASE SaveFails(a)
  <2>1. /\ EndTask(a) /\ inForce' = inForce /\ inForce = task[a].found.inForce
        /\ saveFailures' # saveFailures
    BY <1>0, <1>4 DEF SaveFails, SetFacts, ConfigTypeOK
  <2>2. task'[a] = NoTask
    BY <1>0, <2>1 DEF EndTask, ConfigTypeOK
  <2>3. configFile' = task[a].found.configFile \/ configFile' \in {Empty, Torn}
    BY <1>4 DEF SaveFails, SetFacts
  <2> QED
    BY <2>1, <2>2, <2>3 DEF AllOrNothing
<1>5. CASE ApplyField(a)
  <2>1. PICK f \in ConfigFields : f = task[a].stage
    BY <1>5 DEF ApplyField
  <2>2. /\ inForce' = [inForce EXCEPT ![f] = task[a].cfg[f]]
        /\ configFile' = configFile /\ configFile = task[a].cfg
    BY <1>0, <1>5, <2>1 DEF ApplyField, Valid, SetFacts
  <2>3. CASE f = "cache_ttl"
    <3>1. GoOn(a, "history") /\ inForce'["cache_ttl"] = task[a].cfg["cache_ttl"]
      BY <1>0, <1>5, <2>1, <2>2, <2>3 DEF ApplyField, Valid, Following, Configuration
    <3> QED
      BY <1>1, <2>2, <3>1 DEF SetFacts
  <2>4. CASE f = "history"
    <3>1. /\ GoOn(a, "collector_interval")
          /\ inForce'["cache_ttl"] = task[a].cfg["cache_ttl"]
          /\ inForce'["history"] = task[a].cfg["history"]
      BY <1>0, <1>5, <2>1, <2>2, <2>4
      DEF ApplyField, Valid, Following, Configuration, SetFacts
    <3> QED
      BY <1>1, <2>2, <3>1 DEF SetFacts
  <2>5. CASE f = "collector_interval"
    <3>1. \A g \in ConfigFields : inForce'[g] = task[a].cfg[g]
      BY <1>0, <2>1, <2>2, <2>5 DEF Configuration, SetFacts
    <3>2. inForce' = task[a].cfg
      BY <1>0, <2>2, <3>1 DEF Configuration
    <3>3. EndTask(a)
      BY <1>0, <1>5, <2>1, <2>5 DEF ApplyField, Valid, Following
    <3>4. task'[a] = NoTask
      BY <1>0, <3>3 DEF EndTask, ConfigTypeOK
    <3> QED
      BY <2>2, <3>2, <3>4 DEF AllOrNothing
  <2> QED
    BY <2>3, <2>4, <2>5
<1> QED
  BY <1>2, <1>3, <1>4, <1>5 DEF SetSteps

\* What a does on its own leaves what the task is for.
LEMMA SetStepsKeepTask ==
  ASSUME ConfigInv, NEW a \in Commanders, Busy(a), SetSteps(a), Busy(a)'
  PROVE  task'[a].op = task[a].op /\ task'[a].undisturbed = task[a].undisturbed
<1>0. ConfigTypeOK /\ a \in Actors
  BY DEF ConfigInv
<1>1. EndTask(a) \/ \E s \in Stages : GoOn(a, s)
  BY DEF SetSteps, TruncateFile, WriteFile, AfterSave, SaveFails, ApplyField, Following, Stages
<1>2. ~ EndTask(a)
  BY <1>0, TaskEnds
<1> HIDE DEF Actors
<1> QED
  BY <1>0, <1>1, <1>2, TaskGoesOn

LEMMA SetStep ==
  ASSUME ConfigInv, SetInv, [ConfigNext]_configVars, NEW a \in Commanders
  PROVE  /\ Undisturbed(a)' => SetFacts(a)'
         /\ Undisturbed(a) /\ task'[a] = NoTask /\ inForce' # Missing => AllOrNothing(a)
<1>1. CASE UNCHANGED configVars
  BY <1>1 DEF configVars, SetInv, SetFacts, Undisturbed
<1>2. CASE ConfigNext
  <2>1. CASE BeginSet(a)
    <3>1. ~ Busy(a)
      BY <2>1 DEF BeginSet, BeginTask
    <3> QED
      BY <2>1, <3>1, SetBegins DEF Undisturbed
  <2>2. CASE BeginReload(a)
    <3>1. ~ Busy(a) /\ task'[a].op = "reload"
      BY <2>2 DEF BeginReload, BeginTask
    <3> QED
      BY <3>1 DEF Undisturbed
  <2>3. CASE Busy(a) /\ SetSteps(a)
    <3>1. Undisturbed(a)' => Undisturbed(a)
      BY <2>3, SetStepsKeepTask DEF Undisturbed
    <3> QED
      BY <2>3, <3>1, SetGoesOn DEF SetInv, Undisturbed
  <2>4. CASE task'[a] = task[a] /\ \E b \in Actors \ {a} : Busy(b)
    BY <2>4 DEF SetInv, SetFacts, Undisturbed
  <2>5. CASE ~ Busy(a) /\ task'[a] = NoTask
    BY <2>5 DEF Undisturbed
  <2>6. CASE Busy(a) /\ Busy(a)' /\ task'[a].undisturbed = FALSE
    BY <2>6 DEF Undisturbed
  <2>7. CASE task'[a] = NoTask /\ inForce' = Missing
    BY <2>7 DEF Undisturbed
  <2> QED
    BY <1>2, <2>1, <2>2, <2>3, <2>4, <2>5, <2>6, <2>7, OthersLeaveTask
<1> QED
  BY <1>1, <1>2

\* A config.set that nothing disturbs validates, saves and applies, or does neither.
THEOREM SetsAreAllOrNothing == ConfigSpec => SetIsAllOrNothing
<1>1. ConfigInit => SetInv
  BY DEF ConfigInit, SetInv, Undisturbed
<1>2. ConfigInv /\ SetInv /\ [ConfigNext]_configVars => SetInv'
  <2> SUFFICES ASSUME ConfigInv, SetInv, [ConfigNext]_configVars PROVE SetInv'
    OBVIOUS
  <2>1. \A a \in Commanders : Undisturbed(a)' => SetFacts(a)'
    BY SetStep
  <2> QED
    BY <2>1 DEF SetInv
<1>3. ConfigInv /\ SetInv /\ [ConfigNext]_configVars =>
        [\A a \in Commanders :
           Busy(a) /\ task[a].op = "set" /\ task[a].undisturbed /\ task'[a] = NoTask
             /\ inForce' # Missing =>
             \/ configFile' = task[a].cfg /\ inForce' = task[a].cfg
             \/ configFile' = task[a].found.configFile /\ inForce' = task[a].found.inForce
             \/ /\ configFile' \in {Empty, Torn} /\ saveFailures' # saveFailures
                /\ inForce' = task[a].found.inForce]_configVars
  BY SetStep DEF Undisturbed, AllOrNothing
<1> QED
  BY <1>1, <1>2, <1>3, ConfigInvariant, PTL DEF ConfigSpec, SetIsAllOrNothing

-----------------------------------------------------------------------------
(* The five parts beside each other.                                        *)

\* What MCKeptState runs is each of its parts, so that what is proved of one holds there.
LEMMA EachPartRuns == KeptStateSpec => Spec /\ ConfigSpec /\ GatherSpec /\ SmartSpec /\ SampleSpec
<1>1. KeptStateInit => Init /\ ConfigInit /\ GatherInit /\ SmartInit /\ SampleInit
  BY DEF KeptStateInit
<1>2. [KeptStateNext]_allVars =>
        /\ [Next]_vars /\ [ConfigNext]_configVars /\ [GatherNext]_gatherVars
        /\ [SmartNext]_smartVars /\ [SampleNext]_sampleVars
  BY DEF KeptStateNext, allVars
<1> QED
  BY <1>1, <1>2, PTL DEF KeptStateSpec, Spec, ConfigSpec, GatherSpec, SmartSpec, SampleSpec

\* Whichever part is at work, everything that is kept has the shape its owner gives it.
THEOREM KeptTypesCorrect == KeptStateSpec => []KeptTypeOK
BY EachPartRuns, FilesTypeCorrect, ConfigTypeCorrect, GatherTypeCorrect, SmartTypeCorrect,
   SamplesTypeCorrect, PTL DEF KeptTypeOK
=============================================================================
