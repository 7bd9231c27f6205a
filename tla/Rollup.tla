------------------------------- MODULE Rollup -------------------------------
(***************************************************************************)
(* The history tables of the metrics store and their maintenance.          *)
(*                                                                         *)
(* Every collector tick appends one row of the shortest resolution to the  *)
(* history table of each plugin whose history is enabled; maintenance then *)
(* aggregates windows of a shorter resolution into rows of the next longer *)
(* one and deletes what retention has expired.  Maintenance is requested   *)
(* by the collector, with the time of its tick, and by the db.maintain     *)
(* command, with the current time.  It runs as one database transaction on *)
(* the only connection, so writers wait for it, but it takes many steps    *)
(* and a crash or an error between two of them rolls it back.              *)
(*                                                                         *)
(* Resolutions are the levels 1 .. TopLevel (1m, 10m, 20m, 120m, 480m in   *)
(* the program); a row remembers which shorter rows it was aggregated      *)
(* from, and the averages themselves are left out.                         *)
(***************************************************************************)
EXTENDS Integers, FiniteSets

CONSTANTS
  Plugins,         \* plugins that own a history table
  SmartPlugins,    \* of those, the ones WriteSnapshot leaves to WriteSmartDevices
  TopLevel,        \* the longest resolution
  Window,          \* Window[l]: length of the window a row of level l covers
  MinRows,         \* MinRows[l]: fewest shorter rows a row of level l may average
  Retention,       \* Retention[l]: age at which a row of level l expires
  Commands,        \* API commands that occur: a subset of CommandName
  MaxTime,         \* bound on the clock
  MaxAdvance,      \* bound on one clock step (a step over Retention is an outage)
  MaxStepBack      \* how far the wall clock may be stepped back

Level == 1 .. TopLevel
LongLevel == 2 .. TopLevel
Time == 0 .. MaxTime
CommandName == {"maintain", "refresh", "reload"}

ASSUME LevelsAssumption == TopLevel \in Nat \ {0}
ASSUME WindowAssumption == Window \in [LongLevel -> Nat \ {0}]
ASSUME MinRowsAssumption == MinRows \in [LongLevel -> Nat \ {0}]
ASSUME RetentionAssumption == Retention \in [Level -> Nat]
ASSUME PluginsAssumption == SmartPlugins \subseteq Plugins
ASSUME BoundsAssumption == /\ MaxTime \in Nat
                           /\ MaxAdvance \in Nat
                           /\ MaxStepBack \in Nat
                           /\ Commands \subseteq CommandName

VARIABLES
  clock,      \* the wall clock
  enabled,    \* Store.historyPlugins
  db,         \* the committed history tables: db[p][l] is a set of rows
  tick,       \* where the collector is in collectAndPersist, and its tick time
  refresh,    \* where RefreshSmartNow is, and the time it took before probing
  tx          \* the maintenance transaction that holds the connection, if any

vars == <<clock, enabled, db, tick, refresh, tx>>

Row == [at : Int, from : SUBSET Int]
Tables == [Plugins -> [Level -> SUBSET Row]]
NoTx == [owner |-> "none"]
NotRefreshing == [stage |-> "idle", at |-> 0]

(***************************************************************************)
(* A transaction works on its own copy of the tables.  todo holds the      *)
(* plugins not finished yet, step the longer resolution to roll up next    *)
(* for the first of them; TopLevel + 1 stands for the final deletion.      *)
(***************************************************************************)
OpenTx == [owner : {"collector", "command"}, now : Time, targets : SUBSET Plugins,
           todo : SUBSET Plugins, step : 2 .. TopLevel + 1, work : Tables]

TypeOK ==
  /\ clock \in Time
  /\ enabled \in SUBSET Plugins
  /\ db \in Tables
  /\ tick \in [stage : {"idle", "gathering", "smart", "maintain"}, at : Time]
  /\ refresh \in [stage : {"idle", "probing"}, at : Time]
  /\ tx \in OpenTx \cup {NoTx}

Init ==
  /\ clock = 0
  /\ enabled \in SUBSET Plugins
  /\ db = [p \in Plugins |-> [l \in Level |-> {}]]
  /\ tick = [stage |-> "idle", at |-> 0]
  /\ refresh = NotRefreshing
  /\ tx = NoTx

-----------------------------------------------------------------------------
(* Inserting rows: the primary key is (resolution, captured_at).           *)

\* INSERT OR REPLACE of the rows "new" into a table of one resolution.
Upsert(rows, new) == new \cup {r \in rows : \A n \in new : n.at # r.at}

Sample(t) == [at |-> t, from |-> {}]

\* The tables after one row of the shortest resolution is written for each p in ps.
WithSample(ps, t) ==
  [p \in Plugins |-> IF p \in ps
                       THEN [db[p] EXCEPT ![1] = Upsert(@, {Sample(t)})]
                       ELSE db[p]]

-----------------------------------------------------------------------------
(* One rollup step: rows of level l-1 into rows of level l, at time now.    *)

IsLatest(t, rows) == /\ \E r \in rows : r.at = t
                     /\ \A r \in rows : r.at <= t

\* A faulty variant: every pass starts a chain of its own.
ChainStartAlwaysNow(c, rows, l, now) == c = now

\* Where the chain of windows continues: the end of the first window to look at.
ChainStart(c, rows, l, now) ==
  IF rows = {} THEN c = now ELSE IsLatest(c - Window[l], rows)

OldestUseful(l, now) == now - Retention[l - 1]

\* The first window end that retention of the shorter rows has not passed.
SkipExpired(c, l, now) ==
  IF c <= OldestUseful(l, now)
    THEN c + ((OldestUseful(l, now) - c) \div Window[l] + 1) * Window[l]
    ELSE c

\* The window ends from c on that are not in the future.
Cursors(c, l, now) ==
  {c + k * Window[l] : k \in 0 .. ((now - c) \div Window[l])}

\* The shorter rows of the window of level l that ends at c.
InWindow(shorter, l, c) == {r \in shorter : c - Window[l] < r.at /\ r.at <= c}

Dense(shorter, l, c) == Cardinality(InWindow(shorter, l, c)) >= MinRows[l]

Aggregate(shorter, l, c) == [at |-> c, from |-> {r.at : r \in InWindow(shorter, l, c)}]

\* A faulty variant: the pass stops at the first window that is too sparse.
RolledUpToFirstGap(shorter, l, c, now) ==
  LET ends == Cursors(SkipExpired(c, l, now), l, now)
  IN {Aggregate(shorter, l, x) : x \in {y \in ends : \A z \in ends : z <= y => Dense(shorter, l, z)}}

\* The rows that one rollup step inserts when its chain continues at c.
RolledUp(shorter, l, c, now) ==
  {Aggregate(shorter, l, x) :
     x \in {y \in Cursors(SkipExpired(c, l, now), l, now) : Dense(shorter, l, y)}}

-----------------------------------------------------------------------------
(* The environment: time, configuration reloads, crashes.                   *)

Advance ==
  /\ \E t \in clock + 1 .. clock + MaxAdvance : t <= MaxTime /\ clock' = t
  /\ UNCHANGED <<enabled, db, tick, refresh, tx>>

\* The wall clock is stepped back (the times stored are wall-clock times).
StepBack ==
  /\ \E t \in clock - MaxStepBack .. clock - 1 : t >= 0 /\ clock' = t
  /\ UNCHANGED <<enabled, db, tick, refresh, tx>>

\* A reload sets the history plugins; it needs no database connection.
SetHistoryPlugins ==
  /\ "reload" \in Commands
  /\ \E ps \in SUBSET Plugins : ps # enabled /\ enabled' = ps
  /\ UNCHANGED <<clock, db, tick, refresh, tx>>

\* The process dies: SQLite rolls back the open transaction on restart.
Crash ==
  /\ tick.stage # "idle" \/ refresh.stage # "idle" \/ tx # NoTx
  /\ tick' = [tick EXCEPT !.stage = "idle"]
  /\ refresh' = NotRefreshing
  /\ tx' = NoTx
  /\ UNCHANGED <<clock, enabled, db>>

-----------------------------------------------------------------------------
(* The collector: collectAndPersist.                                        *)

\* A tick arrives; its time is the captured_at of everything it will write.
TickFires ==
  /\ tick.stage = "idle"
  /\ clock # tick.at
  /\ tick' = [stage |-> "gathering", at |-> clock]
  /\ UNCHANGED <<clock, enabled, db, refresh, tx>>

\* Gathering, the write or the health file fails: the tick ends early.
TickFails ==
  /\ tick.stage \in {"gathering", "smart"}
  /\ tick' = [tick EXCEPT !.stage = "idle"]
  /\ UNCHANGED <<clock, enabled, db, refresh, tx>>

WriteSnapshot ==
  /\ tick.stage = "gathering"
  /\ tx = NoTx
  /\ db' = WithSample(enabled \ SmartPlugins, tick.at)
  /\ tick' = [tick EXCEPT !.stage = "smart"]
  /\ UNCHANGED <<clock, enabled, refresh, tx>>

\* refreshSmartIfDue: not due, or failed (its error is ignored), or written.
RefreshSmartIfDue ==
  /\ tick.stage = "smart"
  /\ \/ db' = db
     \/ tx = NoTx /\ db' = WithSample(enabled \cap SmartPlugins, tick.at)
  /\ tick' = [tick EXCEPT !.stage = "maintain"]
  /\ UNCHANGED <<clock, enabled, refresh, tx>>

-----------------------------------------------------------------------------
(* POST /smart/refresh: the time is taken before the drives are probed.     *)

RefreshSmartStart ==
  /\ "refresh" \in Commands
  /\ refresh.stage = "idle"
  /\ refresh' = [stage |-> "probing", at |-> clock]
  /\ UNCHANGED <<clock, enabled, db, tick, tx>>

\* The probe succeeds and is written, or fails.
RefreshSmartEnd ==
  /\ refresh.stage = "probing"
  /\ \/ db' = db
     \/ tx = NoTx /\ db' = WithSample(enabled \cap SmartPlugins, refresh.at)
  /\ refresh' = NotRefreshing
  /\ UNCHANGED <<clock, enabled, tick, tx>>

-----------------------------------------------------------------------------
(* RunMaintenance, one step of its transaction at a time.                   *)

Begin(owner, now) ==
  tx' = [owner |-> owner, now |-> now, targets |-> enabled, todo |-> enabled,
         step |-> 2, work |-> db]

\* A faulty variant: the collector rolls up to the current time, not to its tick.
BeginMaintenanceAtClock ==
  /\ tx = NoTx
  /\ \/ tick.stage = "maintain" /\ Begin("collector", clock)
     \/ "maintain" \in Commands /\ Begin("command", clock)
  /\ UNCHANGED <<clock, enabled, db, tick, refresh>>

BeginMaintenance ==
  /\ tx = NoTx
  /\ \/ tick.stage = "maintain" /\ Begin("collector", tick.at)
     \/ "maintain" \in Commands /\ Begin("command", clock)
  /\ UNCHANGED <<clock, enabled, db, tick, refresh>>

\* The plugin the transaction is at (the order of the plugins is irrelevant).
Current == CHOOSE p \in tx.todo : TRUE

\* applyRollupStep for the current plugin and the current longer resolution.
RollupStep ==
  /\ tx # NoTx
  /\ tx.todo # {}
  /\ tx.step <= TopLevel
  /\ LET h == tx.work[Current]
         l == tx.step
     IN \E c \in {r.at + Window[l] : r \in h[l]} \cup {tx.now} :
          /\ ChainStart(c, h[l], l, tx.now)
          /\ tx' = [tx EXCEPT
                      !.step = l + 1,
                      !.work[Current][l] = Upsert(@, RolledUp(h[l - 1], l, c, tx.now))]
  /\ UNCHANGED <<clock, enabled, db, tick, refresh>>

Unexpired(h, now) ==
  [l \in Level |-> {r \in h[l] : r.at >= now - Retention[l]}]

\* deleteOldHistory for the current plugin, then on to the next one.
DeleteOldHistory ==
  /\ tx # NoTx
  /\ tx.todo # {}
  /\ tx.step = TopLevel + 1
  /\ tx' = [tx EXCEPT !.todo = @ \ {Current},
                      !.step = 2,
                      !.work[Current] = Unexpired(@, tx.now)]
  /\ UNCHANGED <<clock, enabled, db, tick, refresh>>

\* The end of the transaction; the collector's tick ends with it either way.
EndTx ==
  /\ tx' = NoTx
  /\ tick' = IF tx.owner = "collector" THEN [tick EXCEPT !.stage = "idle"] ELSE tick
  /\ UNCHANGED <<clock, enabled, refresh>>

Commit ==
  /\ tx # NoTx
  /\ tx.todo = {}
  /\ db' = tx.work
  /\ EndTx

\* A faulty variant: what was done before the failure is committed.
RollbackKeepsWork ==
  /\ tx # NoTx
  /\ db' = tx.work
  /\ EndTx

\* A statement, a decoding or the commit fails.
Rollback ==
  /\ tx # NoTx
  /\ UNCHANGED db
  /\ EndTx

-----------------------------------------------------------------------------
Next ==
  \/ Advance
  \/ StepBack
  \/ SetHistoryPlugins
  \/ Crash
  \/ TickFires
  \/ TickFails
  \/ WriteSnapshot
  \/ RefreshSmartIfDue
  \/ RefreshSmartStart
  \/ RefreshSmartEnd
  \/ BeginMaintenance
  \/ RollupStep
  \/ DeleteOldHistory
  \/ Commit
  \/ Rollback

Spec == Init /\ [][Next]_vars

-----------------------------------------------------------------------------
(* Properties.                                                              *)

\* The committed tables, and the copy an open transaction is working on.
TablesInUse == {db} \cup (IF tx = NoTx THEN {} ELSE {tx.work})

(***************************************************************************)
(* No sample is averaged twice: two rows of one longer resolution never    *)
(* share a shorter row, whatever the clock, the delays, the reloads and    *)
(* the crashes, because applyRollupStep chains its windows off the last    *)
(* row and moves a chain on by whole windows.                              *)
(***************************************************************************)
NoDoubleAggregation ==
  \A t \in TablesInUse, p \in Plugins, l \in LongLevel :
    \A r, s \in t[p][l] : r # s => r.from \cap s.from = {}

(***************************************************************************)
(* A row averages all of its window: no shorter row that is in the table   *)
(* lies inside the window of a longer row that does not average it.  The   *)
(* collector alone keeps this, since it rolls up to the time of the row it *)
(* has just written (runtime.go, collectAndPersist).                       *)
(***************************************************************************)
CompleteAggregates ==
  \A p \in Plugins, l \in LongLevel :
    \A r \in db[p][l], s \in db[p][l - 1] :
      r.at - Window[l] < s.at /\ s.at <= r.at => s.at \in r.from

(***************************************************************************)
(* Maintenance catches up before it deletes: when deleteOldHistory is      *)
(* about to expire the rows of a plugin, no window of any chain that       *)
(* retention has not passed is dense enough and still not rolled up, the   *)
(* windows that the same transaction made dense included.                  *)
(***************************************************************************)
CaughtUpBeforeDelete ==
  tx # NoTx /\ tx.todo # {} /\ tx.step = TopLevel + 1 =>
    LET h == tx.work[Current]
    IN \A l \in LongLevel : \A r \in h[l] : IsLatest(r.at, h[l]) =>
         \A x \in Cursors(SkipExpired(r.at + Window[l], l, tx.now), l, tx.now) :
           ~ Dense(h[l - 1], l, x)

(***************************************************************************)
(* An aggregate is final: a committed row of a longer resolution is never  *)
(* replaced, and maintenance removes it only when its retention is over at *)
(* the time the maintenance runs for.                                      *)
(***************************************************************************)
AggregatesAreFinal ==
  [][\A p \in Plugins, l \in LongLevel : \A r \in db[p][l] :
       r \in db'[p][l] \/ (tx # NoTx /\ r.at < tx.now - Retention[l])]_vars

(***************************************************************************)
(* What is committed is what History promises: the many steps of a         *)
(* maintenance, with the writes, reloads, failures and crashes between     *)
(* them, look like one, or like none (rollups.go, RunMaintenance).         *)
(***************************************************************************)
Promise == INSTANCE History WITH history <- db

HistoryIsKept == Promise!Spec

=============================================================================
