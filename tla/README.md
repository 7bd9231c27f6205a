# Formal specification of go-monitoring

TLA+ models of the monitoring agent in `src/`, checked with TLC on small instances
and, for the properties that matter most, proved with TLAPS for all of them.
`PROJECT.json` lists the runs, which definition models which lines of the source,
the findings and the hazards the properties are aimed at.

## The system

`go-monitoring` is one Go process. A collector goroutine samples the machine at a
fixed interval and writes the samples to a SQLite database, which it also maintains:
rows are averaged into longer resolutions and expire. An HTTP API serves current
values, history and administrative commands. The configuration can be reloaded while
the agent runs. Command-line programs check, maintain, repair or reset the database.

### Inventory

| Component | State | Operations | Talks to | What is hard |
|---|---|---|---|---|
| History store and maintenance (`internal/store/store.go`, `rollups.go`, `plugins.go`) | one current and one history table per plugin; the plugins whose history is kept | write a snapshot, write SMART rows, maintenance (rollup, retention), queries, change of plugins | called by the collector, the API and the commands, over one connection | maintenance at any time and in any order with writes, missed ticks, outages, clock steps, crashes in a transaction |
| Store files (`store.go`) | `metrics.db`, its `-wal` and `-shm`, the files moved aside | open, create the schema, check, repair, reset | the agent and the `db` commands | crash or error between two steps, damaged files, files of other versions |
| Agent runtime (`internal/app/runtime.go`) | store handle, managers, servers, interval channel, configuration in force, health file | start, event loop, SIGHUP, reload command, collector cycle, shutdown | everything | order of start and stop on every path, a channel that two goroutines fill and one empties, reloads that interleave |
| Live current values (`live_current.go`, `api/http/plugin.go`) | cache of responses with expiry, TTLs, the App mutex | GET of a value, POST of a refresh, reload of the TTLs | collectors, SMART manager | requests interleave between lookup, collection, timestamp and storing |
| Collector snapshots (`agent.go`, `agent_cache.go`) | the last snapshot and its time | `gatherStats` | collector, managers | freshness of the cache against the interval |
| SMART (`smart.go`, `emmc.go`, `mdraid.go`) | device list, readings, exclusions, time of the last scan | scan, refresh, read | runtime, API | slow probes beside the collector, merging of device lists, drives that sleep |
| Docker (`integration/docker/docker.go`) | containers, CPU and network baselines, worker tokens | `GetStats` | collector, API | bounded workers, retries, cancellation halfway |
| systemd (`systemd.go`) | map of services | refresh by a worker and by the API, read | collector, API, D-Bus | two refreshes with lists of different age |
| Network, disk and CPU rates (`network.go`, `disk.go`, `cpu.go`, `deltatracker.go`) | baselines per cache interval, the usage of the file systems | update, cycle, reset | collector, API | counters that shrink, devices that come and go, collections given up halfway |
| GPU (`gpu*.go`) | samples, baselines per cache interval, collector processes | start, collect, retry, fall back, average, stop | runtime, collector | retries and fallbacks while stopping, several users of one accumulator |
| Commands and configuration (`cmd/command_api.go`, `config/config.go`, menus) | the configuration file and what is in force of it | set, reload, edit, start | runtime, file system | read-change-write by commands and menus at once |
| HTTP API (`api/http`) | routing, registry of plugins, access rules | handlers | all of the above | shutdown with requests under way |
| Memory, sensors, processes, battery, ZFS | previous samples | readings | the operating system | parsing rather than concurrency |
| Command line, menus, logging, domain types | none that lasts | flags, output, records | | |

What makes each of the modelled parts correct is stated below with its module. The others
keep no state that interacts.

### How the parts interact

```
 SIGHUP, signals ──► event loop ──interval──► collector ──► gatherStats ──► managers
                        ▲                        │  │
 HTTP commands ─ reload ┘                        │  └─► RefreshSmartIfDue ─► SMART
       │                                         ▼
       └── db.maintain, smart.refresh ──────► Store (one connection) ◄── history queries
 HTTP GET ──► live cache ──(App mutex)──► managers
 db check / repair / reset (other processes) ──► metrics.db, -wal
```

The App mutex is taken by `gatherStats`, by the collections of the live API and by the
SMART times. The store serialises on its single connection. The interval channel has
capacity 1 and is filled by the event loop and by reload commands.

## Modules

Each component has one module; `MC` modules give TLC its instances, and `Proofs`
modules hold the theorems.

| Module | Models | Proofs |
|---|---|---|
| `Rollup` (`MCRollup`) | `WriteSnapshot`, `refreshSmart`, `RunMaintenance`, `SetHistoryPlugins`, the collector's calls of them | `RollupProofs` |
| `History` | what the history tables promise to their readers: the abstract specification that `Rollup` implements | |
| `AgentRuntime` (`MCAgentRuntime`, `MCStartStop`) | `StartContext`, `runEventLoop`, `handleSIGHUP`, `ReloadRuntime`, `runCollector`, `collectAndPersist` | `StartStopProofs` |
| `LiveCurrent` (`MCLiveCurrent`) | `CurrentPlugin`, `SystemSummary`, `currentProcessPlugin`, `handleRefresh`, the live cache | `LiveCurrentProofs` |
| `GatherStats` (`MCKeptState`) | `gatherStats`, `systemDataCache`, the ticker | `KeptStateProofs` |
| `DockerStats` (`MCDockerStats`) | `GetStats` of the Docker manager, `queue`, `dequeue`, `updateContainerStats`, its trackers | `DockerStatsProofs` |
| `StoreFiles` (`MCKeptState`, `MCStoreFiles`) | `OpenStore`, `CheckDatabase`, `RepairDatabase`, `ResetDatabase`, `moveAsideStoreFiles`, `createSchema` | `StoreFilesProofs` |
| `Rates` (`MCRates`) | `getSystemStats`: CPU, disk and network baselines per interval, usage of file systems | `RatesProofs` |
| `IntervalRates` | what a rate promises: the abstract specification that `Rates` implements | |
| `SmartDevices` (`MCKeptState`) | `Refresh`, `ScanDevices`, `mergeDeviceLists`, `CollectSmart` | `DevicesProofs` |
| `SystemdServices` (`MCStartStop`) | `Start`, `Stop`, the worker and `getServiceStats` of the systemd manager | `StartStopProofs` |
| `GpuCollectors` (`MCStartStop`) | `Start`, `startCollectorsByPriority`, the collectors' loops, nvtop's fallback, `Stop` | `StartStopProofs` |
| `GpuSamples` (`MCKeptState`) | `GpuDataMap`, `updateNvtopSnapshots`, `GetCurrentData` | `DevicesProofs` |
| `ConfigCommands` (`MCKeptState`) | `Load`, `Save`, `SaveIfMissing`, `loadEffectiveConfig`, `handleConfigSet`, `handleConfigReload`, `applyReload`, the menus | `KeptStateProofs` |

Two `MC` modules put several components under one next-state relation. `MCStartStop` holds what has
to settle or to end (runtime, systemd worker, GPU collectors) and checks it under their
fairness; `MCKeptState` holds what is kept from one operation to the next (store files,
configuration, cached snapshot, drives, GPU sums). The parts of each share no state, in the code
as in the model, so nothing is gained by interleaving them: the variable `part` chooses the one
that runs in a behaviour, the others stay in one initial state that enables nothing fairness asks
for. All invariants and properties are checked in all behaviours. `PartsTypeOK` and `KeptTypeOK`
join the parts' type invariants. Those of `Rollup`, `LiveCurrent` and `DockerStats` hold by the
theorems `TypeCorrect` of their proof modules, so their runs do not repeat them.

### Rollup

State: `db`, the committed history tables (for each plugin and resolution a set of rows,
each with its time and the shorter rows it was averaged from); `tx`, the maintenance
transaction that is open, with its copy of the tables; `tick`, where the collector is;
`refresh`, a SMART refresh that has taken its time and is still probing; `clock`; `enabled`.
The averages are left out: a row is known by the rows it came from. The transaction takes
a step for each plugin and resolution, so that errors and crashes fall between them; while
it is open it holds the only connection, and writes wait.

- `NoDoubleAggregation`: no shorter row is averaged into two longer rows.
- `CompleteAggregates`: a longer row covers every shorter row of its window. This needs the
  collector alone. With `db.maintain` beside it, a smart refresh that began earlier, or a
  clock that was stepped back, a row may be written after the window it belongs to was
  closed; such a late row is never averaged, and the runs with these actions do not claim it.
- `CaughtUpBeforeDelete`: nothing is expired while a window that could be rolled up is open.
- `HistoryIsKept`: the committed tables implement `History`, with the refinement mapping
  `history <- db`. There samples are recorded, and a maintenance is one step: for each plugin
  it either does nothing or adds longer rows, each the average of all rows of a window that is full
  enough, no two windows overlapping, until nothing is left to average, and then takes away what has
  expired and nothing else. The many steps of `RunMaintenance` are stutters of `History` until
  `Commit`, and for ever if the transaction fails or the process dies.
- `AggregatesAreFinal`: a committed longer row is neither replaced nor removed early. It is a
  theorem only; no run checks it.

All five are proved. Runs: `rollup_collector` checks the second and the third (three resolutions,
windows 3 and 6, clock to 13, missed ticks and outages), `rollup_concurrent` the first and
`HistoryIsKept` (two resolutions, maintain, refresh, reload and steps of the clock back beside the collector). The bounds of the first allow several windows of each
resolution, a chain that is continued, a chain that jumps over expired windows, and a window
of the third resolution made of rows that the same transaction wrote; those of the second,
a window of 2 and a clock to 3, are the least in which a chain goes on and a row expires, so
that every interleaving of the five actors can be explored.

The comment at `rollups.go:63` says that the windows a chain skips can never fill, because
their source rows are deleted. After an outage this is not so: rows expire only in the same
maintenance, after the rollup, so windows that are still dense are skipped and then deleted
without being averaged. No property claims the contrary; `CaughtUpBeforeDelete` is about the
windows that retention has not passed.

### AgentRuntime

State: the place of `StartContext` and of its deferred calls (`main`), of the collector and
its cycle, of every actor in a reload; the channel; the configuration as its three users
see it (history plugins, reported values, ticker); context, signals, server errors, servers,
managers, store, health file.

- `CollectorUsesLiveResources`, `NothingRunsAfterExit`, `CommandsSeeOpenStore`: order of
  shutdown. The last one is about the handlers that end within the 5 s that `Shutdown` grants;
  `SlowHandlers` names the others, which do lose their store.
- `ConfigInForce`: when all is quiet, the three users agree. It holds for a SIGHUP; with a
  reload command it does not, see below.
- `ReloadReachesTicker`, `ShutdownCompletes`: liveness; they hold for one SIGHUP. A second
  one violates the first (`runtime_blocked`): the drain blocks.

Three more observations, which no run repeats:

- the event loop that is blocked in the drain (`runtime.go:270`) sees neither the context nor
  a server error any more, so `ShutdownCompletes` fails with two SIGHUPs as well;
- `ReloadRuntime` reports the new configuration and then sends its interval only if the
  channel is registered (`runtime.go:286`). Commands are served earlier, from
  `startHTTPServers` on, so such a reload reports an interval that the ticker does not have;
- a clean exit removes the health file (`runtime.go:152`) before it waits for the collector,
  whose cycle may be past its look at the context and writes the file again.

Fairness: goroutines that can go on do so (weak fairness of the steps of `StartContext`, the
cycle, a reload, and the end of a command). A `select` whose case is ready again and again
takes it eventually (strong fairness of the cases of the event loop and of the collector):
Go chooses among ready cases at random. Nothing makes signals, ticks, commands or
cancellation occur. `runtime_safety` uses two handlers, two configurations and three reloads from both
sources, enough for two reloads to interleave and for a third to find the channel full; the
liveness runs (`start_stop`, `runtime_blocked`) have one handler, which may be slow, and SIGHUP
alone.

### LiveCurrent

State: the cache (`sample`, `captured`, `expires` of each entry), the configured TTLs, the
place of each request, the holder of the App mutex, the time the SMART data was read. A
payload is represented by its sampling time. The kinds of plugins are the five paths of
`CurrentPlugin` and that of `SystemSummary`. The payloads of the plugins in `Held` have parts that
managers hold and that are not as old as the request: the usage of file systems under
DISK_USAGE_CACHE (`disk.go:586`), disk rates that `FsStats` keeps, the last averages of a GPU. Some
of them are pointers that the snapshot shares with the manager, so they may change until they are
marshalled.

- `HonestTimestamps`: outside `Held`, no value is newer than its `captured_at`, and what a request
  collects itself is no older than the request. SMART data is as old as the last refresh; of the age
  of a held part nothing is said (for the usage of file systems see `UsageIsRecent`).
- `BoundedAge`: an answer from the cache is no older than some configured TTL plus the time
  a request may take to store (`MaxStoreDelay`), although a request for another plugin may
  have stored the entry.
- `ZeroDisablesCaching`: a plugin whose TTL is always 0 is never answered from the cache,
  though requests for other plugins store entries for their siblings. A reload that sets a
  TTL to 0 (`live_current.go:102`) does keep the old entries, which are served until they expire.
- `RefreshAnswersRefreshed`: violated when the SMART plugin has a cache, as it has by default
  (`live_refresh_cached`).
- `RequestsAreAnswered`: liveness under weak fairness of requests and strong fairness of
  taking the mutex, which Go hands to a goroutine that has waited for long.

`live_requests` has two plugins of one system collection, one with held parts, which is never
cached, and one with none; `live_answered` has one on the process path and SMART; the proofs cover
every kind. Two requests suffice for one to store between two
steps of another; the clock runs to 3 with TTLs of 0 and 1, so entries expire and are replaced.

### GatherStats

State: the clock, the ticker and the tick in its channel, the cycle under way, the cached
snapshot, the row written last. `RowsAreRecent` bounds the age of a row's data by half of the
cache time and one collection, counted from the start of the collection (which may itself take over
older values: the usage kept under DISK_USAGE_CACHE). Time may pass in every stage of a tick: a
collection takes up to `MaxDuration`, but the mutex before it, and `WriteSnapshot`, the health file, the
SMART refresh and the maintenance after it (`runtime.go:349`) have no bound, so a tick may be taken at
any later time. `EveryTickCollects` holds for intervals of at least half of the cache time, the longest
collection and the longest delay with which a tick asks the cache (`TakenWithin`), which is proved
(`LongIntervalCollects`). At the default interval it does not, even without delay: README.md:122 says that the agent
"collects every 15s by default", but a snapshot is fresh for half of 60 s (`agent_cache.go:39`),
so a tick that follows a collection by less than 30 s writes the data of the earlier tick, without
processes, programs, connections and IRQs. Times are in units of 15 s (cache time 4, interval 1); the
clock runs to 9: two snapshots expire, with ticks lost, late and on time between them.

### DockerStats

State: where `GetStats` is, with the containers its loop has still to start and those that failed;
the worker of each container; the tokens in `sem` and the workers that have left the wait group but
not given their token back; the stats map; the byte baselines (`current`, `previous`) and read times
of each cache interval; what is known of the engine; whether the shared decoder still works. A
reading is represented by the number of the call that made it, so that a rate is a pair of calls:
the one its bytes are counted from and the one its time is counted from. The limit of workers is
looked at when a worker is queued and again when it dequeues (`docker.go:88`, `docker.go:102`), and
a call may begin between; both are steps of their own.

- `NoWorkerOutlivesCall`: on every path out of `GetStats`, also those of a cancelled call, the
  workers have left. They write the map and the list of failures that `GetStats` reads unlocked.
- `TokensComeBack`: each token in the semaphore belongs to a worker that will dequeue, also when
  the version becomes known while workers without a token are under way.
- `WorkersAreLimited`: once the engine is limited, no step adds a worker without a token (the theorem
  `LimitHolds`; no run repeats it).
- `RatesAreExact`: the bytes and the time of a rate are counted from the same reading. A call that
  was cancelled is the exception: it has moved the time on, not the bytes (`docker.go:235` is not
  reached), and the next rate of its interval is too high.
- `AnswerIsFresh`: an answer holds what this call read, or zeros where the second try failed after
  the reset of `docker.go:513`; never readings of an earlier call. Two parts are outside this: the
  ports stay when the engine lists none (`docker.go:508`), and the shared decode target is cleared of its
  networks only (`docker.go:518`), so a field that a response leaves out is that of the response before.

`docker_calls` has two containers and a semaphore of one, so that one worker waits for the other's
token, and three calls for two intervals: a reading, a call that is cancelled, and a rate over both,
with a call for the other interval in any place. The source has a capacity of 5. No liveness is
claimed: a call ends when the engine answers or the client's timeout passes, which the model leaves
to the step `Request`, whose failure is always possible.

The decoder is the source's `json.Decoder` over one buffer: after a syntax error it returns that
error for ever, so one response that is no JSON makes all later calls fail (`decoder` stays FALSE).
The pointers that an answer shares with the map are not modelled.

### StoreFiles

State: `metrics.db` and its log, the files moved aside, how many transactions of each database
were committed, where the process that uses the store is, whether the disk can be read, what
the last command printed. A database is the number of its transactions, of which the first are
the statements of `createSchema`, so that a crash or power loss leaves any prefix of them.
How SQLite treats the log (deleted beside a new database, merged at the last close, its end
lost with the power under `synchronous = NORMAL`) is modelled from its documented behaviour.

- `NothingLost`: every committed transaction is in a file that exists, in place or moved aside.
- `HealthyStays`: opening and `db repair` move only what is damaged or cannot be read.
- `CheckIsHonest`, `RepairRestores`: the answers ok of `db check`, repair and reset are true.
- `AdviceHelps`: violated; repair refuses what the check advises to repair.

The store's part of `kept_state` uses three databases, a schema of two statements and two rows, with moves that
are not interrupted (`MovesInterrupted = FALSE`). If a move stops between its two renames
(`store.go:241`), the next start creates a database beside the old log, which SQLite deletes:
`NothingLost` then fails. One process uses the store at a time, as the documentation of repair
and reset asks for; two that open it at once may meet SQLITE_BUSY, because `journal_mode` is set
before `busy_timeout` (`store.go:263`), which is not recoverable and loses nothing. `store_advice`
has instances of its own.

### Rates and IntervalRates

`Rates` is one collection at a time, under the App mutex, in the order of
`updateCoreSystemStats`: CPU, usage, disk counters, network; its context may end between any
two stages, and in the usage between any two file systems. State: the counters of the machine
and which of them the operating system shows; `lastCpu`, `diskPrev` and `netIoStats` with
`tracker` for each cache interval; `fs`, the disk baseline that all intervals share; `fsNames`,
the devices that are read; `lastUsage`. A rate is a pair of bytes and milliseconds, and one
counter stands for all counters of a device. The bandwidth over all interfaces is computed as in
`network.go:228`: the difference of the totals times `PerSecond`, modulo `Wrap`, divided by the time.

`IntervalRates` is the abstract specification: each interval has a mark (a reading and its
time) for each counter; a rate is the traffic since the mark over the time since the mark, or 0;
marks move when they are measured, and a mark of another interval may be dropped but never
replaced. The counters in `Kept` keep their rate from answer to answer. The refinement mapping `Mark` takes the marks from `lastCpu`, `diskPrev` and the
trackers, and `Kept` is the extra file systems, whose rates are fields of `FsStats`. Its weight lies in what it excludes: an interval that measures against a reading of
another, counts bytes twice, or divides by the wrong time.

- `RatesImplementPromise`: `Rates` implements `IntervalRates`, through counter resets, invalid
  rates, vanished devices and abandoned collections.
- `BandwidthIsTraffic`: while an interval is read lately (`ReadLately`), its bandwidth is never more than
  the interfaces have counted, although the total wraps when an interface vanishes: the result must
  look invalid. The product of `network.go:228` wraps too, so with 2^64 and 10^10 this is about
  21 days between two readings for the interval. Beyond that the code may report a bandwidth that
  never was, as does the model.
- `UsageIsRecent`: a reported usage is younger than the cache duration or was tried just now. The clock
  stands still during a collection, while the code notes the time after the last file system.

`rates` has two intervals and machines of a CPU, of two disks and of three interfaces, clock and
counters to 3, limits of 1 and 2 so that errors occur, two ticks a second and a `Wrap` of 12, so that the
product wraps both within `ReadLately` and beyond it, two plugs: enough for a counter to be
reset, vanish and return between two readings of each interval.

What the code does and no property denies:

- The first rate of a disk for an interval is counted from the shared baseline, so it covers
  another span than later ones; it is also reset by a failed usage reading (`disk.go:609`).
- The rates of an extra file system are reported again (`live_current.go:300`, `agent.go:171`) when its
  device is absent, was read less than 100 ms before or has an invalid rate (`disk.go:673`,
  `disk.go:701`), whichever interval they were measured for. Those of the root go with the answer.
- A disk reading less than 100 ms after the last moves the baseline and reports nothing
  (`disk.go:673`): those bytes are in no rate.
- `initializeDiskIoStats` keeps the devices that are in the counters at that moment; one that is
  absent is never read again (`disk.go:559`).
- When an interface vanishes the unsigned total wraps, which looks like an invalid bandwidth and
  drops the baselines of all intervals (`network.go:246`). An interface that appears counts from 0.
- Live answers and the collector's snapshot hold pointers to the same `FsStats`
  (`live_current.go:309`), which the next collection changes while they may be encoded.

### SmartDevices

State: the machine's drives, which are attached and which asleep; the device list; the data
kept for each drive with the path and type it was stored under; the exclusions; whether the last
scan is recent; the refresh under way. A drive is given by the path a scan shows, the path it
answers on, the type a scan shows, the type of its data and its schema, so that the guesses of
`smartctl --scan` may be wrong.

- `ExcludedNeverRead`: no data of a device named in `EXCLUDE_SMART` is ever stored, through the
  renames and the NVMe fallback.
- `VerifiedDevicesStay`: a device whose parser is verified, and whose path names no other, is
  unchanged by a scan, and keeps the data stored under its path and its type.
- `SleepersAreLeftAlone`: a refresh wakes no drive whose data was cached when it began, in all its
  steps and after whatever it has renamed or dropped before, if the drive is still listed by the path
  and the type of its data when its turn comes.

The instances are five sets of drives (SATA with SAS, one that a scan misreads with an md array,
an NVMe controller, one that answers on its namespace only, two drives behind one RAID
controller) under six settings, with two drives pulled out or put in.

What the code does: a failed fallback renames the device all the same; one that succeeds excludes
the controller (`smart.go:575`), so the next scan, which shows the controller, drops the namespace
and its data. A drive shown as `scsi` whose data says `sat` loses its data at each scan
(`smart.go:439`, `smart.go:827`), and is then read without `-n standby`: it may be woken. Both
properties leave this drive out, as it is listed by another type than its data has. The namespace of an
NVMe controller is asked only if smartctl returned an error (`smart.go:557`); an exit without one and
without data leaves the controller as it was. When smartctl fails but
SMART_DEVICES or sysfs shows a device, the list is replaced by that (`smart.go:157`). Data of a
replaced drive stays while its path is listed. RAID drives at one path share the answer of
`hasDataForDevice`. A command that runs into its timeout ends the whole refresh; if it was the fallback of an NVMe
controller, the controller has been renamed to its namespace by then (`FallbackCutOff`,
`smart.go:557`).

### SystemdServices

State: the units as systemd sees them, the map, the listing of each refresh with the units still
to update, the worker. D-Bus may fail; a unit may change at any time. A unit that has been active is
active, inactive or failed; one that never was is listed as inactive or failed and is left out by its
ActiveEnterTimestamp. A refresh stores the state of its listing as it was parsed
(`systemd.go:290`), not what the unit is by then.

- `ServicesConverge`: when a unit changes no more and the worker runs, the map comes to show it,
  though refreshes overlap and an old listing may overwrite or remove what a newer one stored.

Fairness: the worker's ticker fires again and again and D-Bus answers or fails (weak fairness of
the worker's refresh and of a request's that has begun; nobody has to make requests). Two units
that change twice, one request and one error let two listings of different age meet. The
number of services and the number of failed ones are read one after the other
(`agent.go:216`); a refresh between them may leave more failed than counted.

### GpuCollectors

State: the machine (what is installed, GPU_COLLECTOR), the manager, the context, the list that is
being worked through and by whom, the collector of each source, its failures. When nvtop, which serves
all vendors, fails, its goroutine starts the sources left out.

- `OneSourcePerVendor`: no vendor's GPUs are sampled twice, through fallbacks.
- `NoCollectorAfterStop`: nothing runs or is started after `Stop`, also when a fallback begins
  while `Stop` waits.
- `StopGpuReturns`: under weak fairness of the goroutine that works through the list, of the
  collectors' return once their context is done (commands are killed with it, sleeps select
  on it) and of `wg.Wait`.

Seven machines, one for each way the list may go, and retries up to 2 (5 in the code). What the
code does: nvtop is never retried when it has a list to fall back to, and its entries stay and report
the last average; the failures of `rocm-smi` are never reset (`gpu.go:676`), so it ends after
as many failures in its whole life.

### GpuSamples

State: the entries of `GpuDataMap` as the sequences of GPUs that were sampled into them, the
answer of nvtop that is being matched, the counts at the last report of each cache key, the last
average of each entry.

- `EntriesKeepTheirName`: if nvtop's first answer is complete, an entry only ever sums GPUs of one
  name, whatever the order of later answers and whatever they leave out. Without a complete
  first answer it does not hold: two names meet in one entry.
- `ReportsCoverNewSamples`: reports with one key neither lose samples nor average any twice.

Three machines with up to three GPUs, two of one name, two keys, two samples an entry. Equal names
cannot be told apart by the code either. The match by position does not ask whether the
entry was used in this answer (`gpu_nvtop.go:52`). `lastAvgData` is shared by the keys, so an idle
report of one key may show the average of another.

### ConfigCommands

State: the file (a configuration, missing, empty or torn), the configuration in force, and what
each commander, the start of the agent and the menu is doing, with its draft. Three fields
(cache TTLs, history, interval) are put in force at different moments; one bad value stands for all
that `Validate` rejects. A save truncates and then writes (`os.WriteFile`), either may
fail, and another process may write in between. The overrides are those of the environment
and the command line.

- `OnlyValidInForce`: whatever the file holds, no field that `Validate` rejects is in force.
- `SetIsAllOrNothing`: README.md:474 says of `config.set` that it "validates, saves, and
  live-applies". One that nothing else disturbs does all of it or nothing; a write that fails
  leaves no configuration in the file, and what was in force stays in force.

Two commanders, one start, one menu, two good values and a bad one, three things that begin (tasks
or edits by hand) and one write that fails. Tasks that overlap do worse, as nothing locks the file:
of two commands, or a command and a menu with an old draft, one loses its change; file and runtime may
end with different configurations; two writes may tear the file. If the agent dies, or the disk is full,
between truncating and writing, the file is empty and the next start fails, as `Load`
rejects it; `SaveIfMissing` has the same window after its create. A menu or `config` command saves the overridden values into the file.

One more divergence from the documentation, which no run repeats: README.md:159 gives the environment
and the command line precedence over the file, and start and reload keep to it, but `config.set` puts
the file's values in force without them (`command_api.go:118`) until the next reload or start. The
model does as the code does, and `SetIsAllOrNothing` takes the file's values for those that a set
should put in force, so it says nothing against this.

## Proofs

Every invariant, every action property and both refinements (`Rollup` of `History`, `Rates` of
`IntervalRates`) that a passing run checks are also theorems, for all values of the constants. A theorem assumes what the modules' named assumptions say of the
constants (`WindowAssumption`, `TTLAssumption`, `SmartAssumption` and so on, each as weak as the
code allows) and, where it says `ASSUME ... PROVE`, or has a premise about the behaviour, what is given below. TLC evaluates
the assumptions in every run. `StartStopProofs`, `KeptStateProofs` and `DevicesProofs` hold the
theorems of several components; the first two extend the `MC` modules of the same name and end
in the type invariants that these join (`PartsTypesCorrect`, `KeptTypesCorrect`).

### RollupProofs

`TypeCorrect`, `NoSampleTwice`, `AggregatesFinal`: the inductive invariant `IInv` says, of the committed
tables and of the copy in a transaction alike, that rows have distinct times, that each longer row
averages only rows of its own window, and that the longer rows of one resolution are at least a
window apart. `NoDoubleAggregation` alone is not inductive: it does not know that the next window
of a chain begins where the last one ended. The proof shows that `ChainStart` and `SkipExpired` keep
rows a window apart.

`CatchesUp` proves `CaughtUpBeforeDelete` with commands, steps of the clock back and crashes.
`CatchUpInv` says that every resolution which the open transaction has passed is caught up
(`Caught`): from its last row on, no window that can still fill is dense. The step of a longer
resolution reads the table of the one below and does not change it, so what was caught up stays so.

`CollectorAggregatesWhole` proves `CompleteAggregates` under `Commands = {}` and `MaxStepBack = 0`.
Both premises are needed: maintenance in the middle of a tick, or a clock that goes back, closes
a window to which a row is still to be written. `CompleteInv` says that there is a time `m`, that of
the last committed maintenance and before any tick under way, for which all committed tables are
settled (`Settled`): no longer row is later than `m`, each has all of its window, and what could be
rolled up at `m` has been. The samples of a tick come after `m`, so they fall into no window that is closed. An open transaction has each of its tables settled for its own time, not
yet begun, or settled up to the resolution it is at (`PartlyDone`).

`HistoryImplemented` proves `HistoryIsKept`, step by step: a write maps to `Record`, `Commit` to
`Maintain` for the time of the transaction, everything else to a stutter. `HistoryInv` says what
`Commit` will find: of each plugin that the transaction still has to do, the copy is that of a
maintenance begun (`Begun`: rolled up, with whole averages only and nothing left to average, below the
resolution it is at, and otherwise as committed); of the others it is as committed, or maintained
in the sense of `History`. It also says that committed rows of the shortest resolution are samples,
so that INSERT OR REPLACE adds a row and changes none. The theorem has one premise,
`RetentionGrows`: no resolution is kept for a shorter time than the one it averages. Without
it a row could expire in the maintenance that makes it, and the reader would see a gap which
`History` excludes; `historyRetention` (`store.go:41`) satisfies it with 1 h, 12 h, 24 h, 7 d and 30 d.
`History` does not say whether a sample that is written late is averaged: that is
`CompleteAggregates`, for the collector alone.

### StartStopProofs

- `LiveResources`, `CleanExit`, `OpenStoreForCommands`: `RuntimeInv` ties the place of `StartContext`
  to the state of each resource, for every path into and out of it. `RuntimeTypeCorrect` is the
  type invariant.
- `SignalledConfigInForce` proves `ConfigInForce` under `"command" \notin ReloadSources`; with commands
  it is false, as two reloads may interleave. `FlowInv` says that only the event loop reloads, and
  where it is when the three users of the configuration disagree; `InSync` says that otherwise
  an interval in the channel is the reported one, so that the ticker will agree when it takes it.
- `GpuTypeCorrect`, `VendorsHaveOneSource`, `StopIsFinal`, for any machines, lists and retries:
  `OneSourcePerVendor` is not inductive. `GpuInv` adds that whoever works through the list has noted
  the vendor of every source that was ever started, that nvtop runs only while all others are
  off and the list is done with, and that a collector beyond its retries has ended.
- `SystemdTypeCorrect`: the map, the listings and what is left of them, for any units: what a refresh
  has still to update was loaded when it listed, and the map has no state of a unit that never was
  active.

### LiveCurrentProofs

`TypeCorrect`, and `TimestampsHonest`, whose invariant follows a value from its sampling through the
request into the entry; for the parts that managers hold (`Held`, any set of plugins) it says nothing. `AgesAreBounded` and `ZeroMeansUncached` rest on `AgeInv` (`AgesKnown`): an
entry was stored no more than `MaxStoreDelay` after it was captured, with a TTL above 0 that
some configuration gives its key, also by a request for another key; and a request that stores
carries a configured TTL. So a key that has TTL 0 in all configurations never has an entry.

### KeptStateProofs

- `GatherTypeCorrect`, `Recency` (`RecentInv`), and `LongIntervalCollects` (`CollectInv`) under two
  premises: the interval is at least half of the cache time plus the longest collection plus some
  delay, and every tick asks the cache within that delay (`TakenWithin`). The second is about the
  behaviour, as nothing in the code bounds what a tick waits for.
- `ConfigTypeCorrect`, `ValidInForce`: `ConfigInv` adds that whoever is at work has validated the
  configuration it carries, so that it does not matter what the file holds by then.
- `SetsAreAllOrNothing`: `SetInv` says, for a `config.set` that nothing has disturbed, what the file and
  each field in force are at each of its stages. That others leave them alone is shown from what
  `undisturbed` records (`OthersLeaveTask`).

### DockerStatsProofs

`TypeCorrect`, `WorkersStayInCall`, `AllTokensComeBack`, `LimitHolds`, `RatesExact` and `AnswersAreFresh`,
for any containers, intervals and capacity. `TokensComeBack` is not inductive: the invariant adds
that a container is in one place of the call only (to be started, queued, at work, or failed), so
that a worker that starts is a new one, and that no token exists before the engine is limited. For
the rates it adds how the baselines and times of every interval relate, that a container still
to be read has no reading of this call, and that this call is not answered yet. For the answers,
`FreshInv` says that a container which the call has admitted is fresh, or else its worker is still to
end in the first round: a failure of that round removes the old entry, so a failure of the second
has nothing old to leave.

### StoreFilesProofs

`FilesTypeCorrect`, and `OldFilesPreserved` under `MovesInterrupted = FALSE` (without it `NothingLost` is
false, see above). The invariant says that a log belongs to the database beside it and is at least
as long, that a log without a database exists only between the two renames, and that the
transactions of the database in use are those its connection sees. `SoundFilesStay`,
`ChecksAreHonest` and `RepairsRestore` need no premise, interrupted moves included. They rest on `StageInv`
(`StagesKnow`), what each stage of a command knows of the database: a store whose schema is created
has this version's format, one that is verified has the whole schema, one that was opened after a move
is new and undamaged.

### RatesProofs

- `RatesImplement`, the refinement of `IntervalRates`, and `ReportedUsageIsRecent`, for any intervals,
  devices, limits and bounds. The invariant `IInv` says that the CPU baselines are readings not
  above the counter, that the answer is empty until its stage is reached, that an interface with
  a tracked value has a total of the same time, and that the time of the last usage is one at which
  every file system was tried. Each stage is shown to be a `Measure` of its interval or a stutter; the
  rates of `Kept` counters outlive the end of a collection in both.
- `RatesTypeCorrect`: that totals are integers needs facts about sums over finite sets. The first
  section proves them from the library's well-founded orders, with induction in terms of sets
  (`AllNumbers`, `AllSubsets`) in place of the induction theorems, which cannot be applied here: such
  a sum exists, is unique, unfolds at any element and is bounded by the bound of its terms.
- `BandwidthIsCounted` proves `BandwidthIsTraffic` for all constants: what it needs, that the product
  by which a total went down leaves room for the limit below `Wrap`, is the condition `ReadLately` in the
  property. `PerSecondBound` shows that the wrapped product, divided by the time, is then above the
  limit, or is the true difference; `TotalsInv` that the total of an interval is the sum of the values it
  tracks.

### DevicesProofs

- `SmartTypeCorrect`, `ExcludedStaysUnread`, `SleepersSleepOn`, for any drives, names and settings:
  `SmartInv` adds that what EXCLUDE_SMART names stays excluded, that data is stored under the path the
  drive answers on, so that the look for cached data of a path finds that of the drive that
  would answer, and that what sleeps is no NVMe drive, so that the fallback, which does not
  pass `-n standby`, wakes nothing. For `SleepersAreLeftAlone`, `CachedInv` says that a drive whose data
  was cached when the refresh began has it still, as long as the list knows it by the path and type of
  that data. `VerifiedDevicesAreKept` follows a device through both merges.
- `SamplesTypeCorrect`, `ReportsAreExact`: `SampleInv` says that the count a key saw last is its snapshot,
  and that the last average is not of fewer samples.
- `EntriesHaveOneName`: `NamesInv` says that there is an order of the machine's GPUs, that of the first
  answer, in which the slots are filled, and that what is matched of a later answer has used
  slots of the same names. That the match by name then never runs out is a counting argument, by
  the library's theorems on injections and finite sets.

### Model-checked only

The liveness properties `RequestsAreAnswered`, `ShutdownCompletes`, `ReloadReachesTicker`,
`ServicesConverge` and `StopGpuReturns`: their proofs need ENABLED and fairness, which the provers do
not handle. The two runs that expect a violation of a statement of the documentation and the
`runtime_blocked` counterexample are TLC's as well.

## What could follow

History queries (resolution, range and limit against the rows of `Rollup`); the age of the health
file; how file systems are matched to devices; two processes that open one store. Of abstract specifications, a
cache of current values that are no older than their time to live, which `LiveCurrent` would implement.

## Not modelled

- Readings of the operating system and their parsing (memory, sensors, processes, battery,
  ZFS, sysfs, the formats of GPU tools, the attributes of SMART data): pure input.
- Discovery of disks and file systems (`disk.go`, 92 to 470), done once at start. One thing it
  does is worth knowing: an entry of EXTRA_FILESYSTEMS that maps to the I/O device of the root
  replaces the root in the map without a word.
- Arithmetic of the averages, rounding and units.
- Routing, access rules and history queries of the API: functions of one request and of rows
  whose correctness `Rollup` states.
- Keys and screens of the menus, flags, output, the detached agent, logging, packaging: they keep no
  state that interacts, or are pure input and output.
