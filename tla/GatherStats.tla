---------------------------- MODULE GatherStats ----------------------------
(***************************************************************************)
(* How often the collector really samples.                                 *)
(*                                                                         *)
(* Each tick of the collector asks gatherStats for a snapshot and writes   *)
(* it with the time of the tick.  gatherStats answers from a cache while   *)
(* the last snapshot is younger than half of CacheTime; the cached copy    *)
(* has lost the payloads that only the default interval collects           *)
(* (processes, programs, connections, IRQs).  The ticker has a channel of  *)
(* capacity 1 and drops the ticks that find it full.                       *)
(*                                                                         *)
(* Time may pass in every stage of a tick: a collection takes up to        *)
(* MaxDuration, but the wait for the mutex of the App before it, and after *)
(* it WriteSnapshot, the health file, a SMART refresh and the maintenance  *)
(* have no bound, so the tick that waits may be taken at any later time.   *)
(* The interval stays what it was at the start.                            *)
(***************************************************************************)
EXTENDS Integers

CONSTANTS
  Interval,     \* of the collector's ticker
  CacheTime,    \* defaultDataCacheTimeMs
  MaxDuration,  \* longest collection
  MaxTime,      \* bound on the clock
  NoRow         \* an empty cache, no ticker, no tick waiting, no row written

ASSUME IntervalAssumption == Interval \in Nat \ {0}
ASSUME TimeAssumption == CacheTime \in Nat /\ MaxDuration \in Nat /\ MaxTime \in Nat
ASSUME NoRowAssumption == NoRow \notin Int

VARIABLES
  clock,      \* the monotonic clock
  nextTick,   \* when the ticker fires next, once it runs
  waiting,    \* the tick in the ticker's channel
  sampling,   \* where collectAndPersist is, its tick and the snapshot it has
  cache,      \* the snapshot cached for CacheTime, and when it was cached
  last        \* the row written last: its captured_at and its snapshot

gatherVars == <<clock, nextTick, waiting, sampling, cache, last>>

\* The mutex and the cache; a collection; WriteSnapshot; the rest of collectAndPersist.
TickStages == {"gather", "collect", "write", "finish"}

\* A snapshot: when its collection began, and whether it has all its payloads.
Snapshot == [sampled : Nat, complete : BOOLEAN]
NoSnapshot == [sampled |-> 0, complete |-> FALSE]

GatherTypeOK ==
  /\ clock \in 0 .. MaxTime
  /\ nextTick \in Nat \cup {NoRow}
  /\ waiting \in Nat \cup {NoRow}
  /\ sampling \in [stage : TickStages \cup {"off", "ended"}, at : Nat, data : Snapshot]
  /\ cache \in [data : Snapshot, updated : Nat] \cup {NoRow}
  /\ last \in [at : Nat, data : Snapshot] \cup {NoRow}

\* StartContext collects once before it starts the ticker.
GatherInit ==
  /\ clock = 0
  /\ nextTick = NoRow
  /\ waiting = NoRow
  /\ sampling = [stage |-> "gather", at |-> 0, data |-> NoSnapshot]
  /\ cache = NoRow
  /\ last = NoRow

-----------------------------------------------------------------------------
\* The collection under way must not take longer than MaxDuration.
InTime(t) == sampling.stage = "collect" => t <= sampling.data.sampled + MaxDuration

\* Time passes, whatever the collector does; a tick that finds one waiting is lost.
Advance ==
  /\ clock < MaxTime
  /\ InTime(clock + 1)
  /\ clock' = clock + 1
  /\ IF clock' = nextTick
       THEN /\ nextTick' = nextTick + Interval
            /\ waiting' = IF waiting = NoRow THEN clock' ELSE waiting
       ELSE UNCHANGED <<nextTick, waiting>>
  /\ UNCHANGED <<sampling, cache, last>>

\* runCollector starts its ticker when the collection of StartContext is written.
StartTicker ==
  /\ sampling.stage = "off"
  /\ nextTick = NoRow
  /\ nextTick' = clock + Interval
  /\ UNCHANGED <<clock, waiting, sampling, cache, last>>

\* runCollector receives the tick and its time.
TakeTick ==
  /\ sampling.stage = "off"
  /\ waiting # NoRow
  /\ sampling' = [stage |-> "gather", at |-> waiting, data |-> NoSnapshot]
  /\ waiting' = NoRow
  /\ UNCHANGED <<clock, nextTick, cache, last>>

\* A faulty variant: a snapshot is fresh for all of the cache time.
FreshForCacheTime == cache # NoRow /\ clock - cache.updated < CacheTime

\* Get: half of the cache time is allowed for skew.
Fresh == cache # NoRow /\ clock - cache.updated < CacheTime \div 2

\* gatherStats has the mutex and asks the cache.
GatherOrReuse ==
  /\ sampling.stage = "gather"
  /\ sampling' = IF Fresh
                THEN [sampling EXCEPT !.stage = "write", !.data = cache.data]
                ELSE [sampling EXCEPT !.stage = "collect",
                                      !.data = [sampled |-> clock, complete |-> TRUE]]
  /\ UNCHANGED <<clock, nextTick, waiting, cache, last>>

\* A tick that fails ends; when it is that of StartContext the agent does not start.
Failed == IF nextTick = NoRow THEN "ended" ELSE "off"

\* The collection ends and its snapshot is cached without the detail payloads,
\* or it fails and the tick ends.  (A collection writes into the snapshot that was
\* cached before; as that one is no longer fresh, nobody reads it again.)
Collected ==
  /\ sampling.stage = "collect"
  /\ \/ /\ sampling' = [sampling EXCEPT !.stage = "write"]
        /\ cache' = [data |-> [sampling.data EXCEPT !.complete = FALSE], updated |-> clock]
     \/ /\ sampling' = [sampling EXCEPT !.stage = Failed]
        /\ UNCHANGED cache
  /\ UNCHANGED <<clock, nextTick, waiting, last>>

\* WriteSnapshot ends: the row has the time of the tick, or there is none.
Persist ==
  /\ sampling.stage = "write"
  /\ \/ /\ sampling' = [sampling EXCEPT !.stage = "finish"]
        /\ last' = [at |-> sampling.at, data |-> sampling.data]
     \/ /\ sampling' = [sampling EXCEPT !.stage = Failed]
        /\ UNCHANGED last
  /\ UNCHANGED <<clock, nextTick, waiting, cache>>

\* The health file, the SMART refresh and the maintenance are done, or one has failed.
Finish ==
  /\ sampling.stage = "finish"
  /\ \E stage \in {"off", Failed} : sampling' = [sampling EXCEPT !.stage = stage]
  /\ UNCHANGED <<clock, nextTick, waiting, cache, last>>

GatherNext ==
  \/ Advance
  \/ StartTicker
  \/ TakeTick
  \/ GatherOrReuse
  \/ Collected
  \/ Persist
  \/ Finish

GatherSpec == GatherInit /\ [][GatherNext]_gatherVars

-----------------------------------------------------------------------------
(* Properties.                                                              *)

\* A row never holds data whose collection began more than half of the cache time and
\* one collection before its tick, however late the ticks are taken.  (A collection may
\* itself take over older values: the usage of file systems under DISK_USAGE_CACHE.)
RowsAreRecent ==
  last # NoRow => last.at - last.data.sampled < CacheTime \div 2 + MaxDuration
                 \/ last.data.sampled >= last.at

\* Every row is sampled at or after its own tick, with all its payloads: the
\* collector collects once every interval.
EveryTickCollects ==
  last # NoRow => last.data.complete /\ last.data.sampled >= last.at

\* The cache is asked within delay after the tick has fired: neither the tick before
\* nor the mutex of the App holds it up any longer.
TakenWithin(delay) == sampling.stage = "gather" => clock <= sampling.at + delay

=============================================================================
