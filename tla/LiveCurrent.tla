---------------------------- MODULE LiveCurrent ----------------------------
(***************************************************************************)
(* The current values that the HTTP API serves, and their cache.           *)
(*                                                                         *)
(* A request for the current value of a plugin is answered from an entry   *)
(* of the live cache that has not expired, or collects the value, notes    *)
(* the time, stores the value with a time to live, and answers.  One       *)
(* collection may serve several plugins: a system collection stores an     *)
(* entry for every base plugin, a process collection one for processes     *)
(* and one for programs.  System and process collections run under the     *)
(* mutex of the App, which the collector takes too; looking up and storing *)
(* take another lock, each for one step, so requests interleave.           *)
(*                                                                         *)
(* A value is represented by the time it was sampled at.  The payload of a *)
(* plugin in Held has parts that a manager holds: file-system usage under  *)
(* DISK_USAGE_CACHE, the rates of disks, the last averages of a GPU.  They *)
(* may be older than the request, and a structure that the snapshot shares *)
(* with the manager may change until it is marshalled.                     *)
(***************************************************************************)
EXTENDS Integers

CONSTANTS
  Keys,            \* plugins, and the system summary
  Kind,            \* Kind[k]: the path on which CurrentPlugin collects k
  Held,            \* plugins whose payloads have parts that managers hold
  Requests,        \* goroutines that serve requests
  TTLs,            \* sets of cache TTLs that may be configured
  MaxStoreDelay,   \* longest time from noting captured_at to storing the entries
  MaxTime,         \* bound on the clock
  None             \* no entry, or nobody holding the mutex

Kinds == {"base", "containers", "summary", "process", "plain", "smart"}

ASSUME KindAssumption == Kind \in [Keys -> Kinds]
ASSUME HeldAssumption == Held \subseteq {k \in Keys : Kind[k] \in {"base", "summary", "containers"}}
ASSUME TTLAssumption == TTLs \subseteq [Keys -> Nat] /\ TTLs # {}
ASSUME TimeAssumption == MaxStoreDelay \in Nat /\ MaxTime \in Nat
ASSUME NoneAssumption == None \notin Requests \cup {"collector"}
ASSUME CollectorAssumption == "collector" \notin Requests

VARIABLES
  clock,     \* the wall clock
  ttl,       \* App.liveTTLs
  cache,     \* App.liveCache
  req,       \* req[r]: where the request served by r is
  holder,    \* who holds the mutex of the App
  smart      \* when the data the SMART manager holds was read from the drives

vars == <<clock, ttl, cache, req, holder, smart>>

Time == 0 .. MaxTime
Idle == [stage |-> "idle"]

\* An entry, its sampling time, captured_at, and the time it expires.
Entry == [sample : Time, captured : Time, expires : Nat]

\* A request; ttl is the one read before the lookup, todo the entries to store.
Stage == {"refresh", "ttl", "lookup", "lock", "collect", "sample", "capture", "store",
          "own", "reply"}
Request == [stage : Stage, key : Keys, post : BOOLEAN, began : Time, ttl : Nat,
            sample : Time, captured : Time, todo : SUBSET Keys]

TypeOK ==
  /\ clock \in Time
  /\ ttl \in TTLs
  /\ cache \in [Keys -> Entry \cup {None}]
  /\ req \in [Requests -> Request \cup {Idle}]
  /\ holder \in Requests \cup {"collector", None}
  /\ smart \in Time

Init ==
  /\ clock = 0
  /\ ttl \in TTLs
  /\ cache = [k \in Keys |-> None]
  /\ req = [r \in Requests |-> Idle]
  /\ holder = None
  /\ smart = 0

-----------------------------------------------------------------------------
At(r, stage) == req[r].stage = stage

Base == {k \in Keys : Kind[k] = "base"}

\* The plugins whose entries a collection for k stores with their own TTLs.
Siblings(k) ==
  CASE Kind[k] \in {"base", "summary"} -> Base
    [] Kind[k] = "containers" -> Base \cup {k}
    [] Kind[k] = "process" -> {p \in Keys : Kind[p] = "process"}
    [] Kind[k] \in {"plain", "smart"} -> {}

\* Process plugins look the cache up at once, the others read their TTL first.
FirstStage(k) == IF Kind[k] = "process" THEN "lookup" ELSE "ttl"

\* Where a request goes that the cache cannot answer: connections, IRQs, systemd
\* and SMART are collected without the mutex.
CollectStage(k) == IF Kind[k] \in {"plain", "smart"} THEN "sample" ELSE "lock"

\* getLiveCache: an entry expires after the last instant of its TTL.
Valid(k) == cache[k] # None /\ clock <= cache[k].expires

\* When what r stores for k was sampled.
SampledAt(k, r) == IF k \in Held THEN 0 .. clock ELSE {req[r].sample}

\* A faulty variant of the next operator: an entry without a TTL is stored.
PutAlways(k, r, t) ==
  \E s \in SampledAt(k, r) :
    cache' = [cache EXCEPT ![k] = [sample |-> s, captured |-> req[r].captured,
                                   expires |-> clock + t]]

\* setLiveCache: what r collected becomes the entry of k.
Put(k, r, t) ==
  IF t <= 0 THEN UNCHANGED cache
            ELSE \E s \in SampledAt(k, r) :
                   cache' = [cache EXCEPT ![k] = [sample |-> s, captured |-> req[r].captured,
                                                  expires |-> clock + t]]

\* A faulty variant of the next operator: the error path keeps the mutex.
KeepMutex(r) == UNCHANGED holder

\* The deferred Unlock of a request that ends early.
ReleaseOnError(r) == holder' = IF holder = r THEN None ELSE holder

-----------------------------------------------------------------------------
(* One request.                                                             *)

\* GET of a current value, or POST of a SMART refresh.
Begin(r) ==
  /\ At(r, "idle")
  /\ \E k \in Keys, post \in BOOLEAN :
       /\ post => Kind[k] = "smart"
       /\ req' = [req EXCEPT ![r] =
                    [stage |-> IF post THEN "refresh" ELSE FirstStage(k), key |-> k,
                     post |-> post, began |-> clock, ttl |-> 0, sample |-> 0,
                     captured |-> 0, todo |-> {}]]
  /\ UNCHANGED <<clock, ttl, cache, holder, smart>>

\* RefreshSmartNow reads the drives; the store may still refuse the result.
Refresh(r) ==
  /\ At(r, "refresh")
  /\ smart' = clock
  /\ \/ req' = [req EXCEPT ![r].stage = FirstStage(req[r].key)]
     \/ req' = [req EXCEPT ![r] = Idle]
  /\ UNCHANGED <<clock, ttl, cache, holder>>

\* liveTTL, an argument of currentCachedRaw.
ReadTTL(r) ==
  /\ At(r, "ttl")
  /\ req' = [req EXCEPT ![r].ttl = ttl[req[r].key], ![r].stage = "lookup"]
  /\ UNCHANGED <<clock, ttl, cache, holder, smart>>

\* A faulty variant: entries never expire.
LookupUnexpired(r) ==
  /\ At(r, "lookup")
  /\ LET k == req[r].key
     IN req' = [req EXCEPT ![r] =
                  IF cache[k] # None
                    THEN [@ EXCEPT !.stage = "reply", !.sample = cache[k].sample,
                                   !.captured = cache[k].captured]
                    ELSE [@ EXCEPT !.stage = CollectStage(k)]]
  /\ UNCHANGED <<clock, ttl, cache, holder, smart>>

\* getLiveCache answers the request, or a collection must.
Lookup(r) ==
  /\ At(r, "lookup")
  /\ LET k == req[r].key
     IN req' = [req EXCEPT ![r] =
                  IF Valid(k)
                    THEN [@ EXCEPT !.stage = "reply", !.sample = cache[k].sample,
                                   !.captured = cache[k].captured]
                    ELSE [@ EXCEPT !.stage = CollectStage(k)]]
  /\ UNCHANGED <<clock, ttl, cache, holder, smart>>

\* collectLiveCurrentData or collectProcessStats begins, with the mutex.
Lock(r) ==
  /\ At(r, "lock")
  /\ holder = None
  /\ holder' = r
  /\ req' = [req EXCEPT ![r].stage = "collect", ![r].sample = clock]
  /\ UNCHANGED <<clock, ttl, cache, smart>>

Collected(r) ==
  /\ At(r, "collect")
  /\ holder' = None
  /\ req' = [req EXCEPT ![r].stage = "capture"]
  /\ UNCHANGED <<clock, ttl, cache, smart>>

\* A collection without the mutex; SMART records are those last read.
Sample(r) ==
  /\ At(r, "sample")
  /\ req' = [req EXCEPT ![r].stage = "capture",
                        ![r].sample = IF Kind[req[r].key] = "smart" THEN smart ELSE clock]
  /\ UNCHANGED <<clock, ttl, cache, holder, smart>>

\* A faulty variant: captured_at is the time the request came in.
CaptureAtRequest(r) ==
  /\ At(r, "capture")
  /\ req' = [req EXCEPT ![r].captured = req[r].began, ![r].todo = Siblings(req[r].key),
                        ![r].stage = "store"]
  /\ UNCHANGED <<clock, ttl, cache, holder, smart>>

\* captured_at is taken after the collection.
Capture(r) ==
  /\ At(r, "capture")
  /\ req' = [req EXCEPT ![r].captured = clock, ![r].todo = Siblings(req[r].key),
                        ![r].stage = "store"]
  /\ UNCHANGED <<clock, ttl, cache, holder, smart>>

\* The entries of the siblings, each with its current TTL.
StoreSibling(r) ==
  /\ At(r, "store")
  /\ \E k \in req[r].todo :
       /\ Put(k, r, ttl[k])
       /\ req' = [req EXCEPT ![r].todo = @ \ {k}]
  /\ UNCHANGED <<clock, ttl, holder, smart>>

\* Process plugins are done, the others store their own entry.
SiblingsStored(r) ==
  /\ At(r, "store")
  /\ req[r].todo = {}
  /\ req' = [req EXCEPT ![r].stage = IF Kind[req[r].key] = "process" THEN "reply" ELSE "own"]
  /\ UNCHANGED <<clock, ttl, cache, holder, smart>>

\* currentCachedRaw stores with the TTL it read before the lookup.
StoreOwn(r) ==
  /\ At(r, "own")
  /\ Put(req[r].key, r, req[r].ttl)
  /\ req' = [req EXCEPT ![r].stage = "reply"]
  /\ UNCHANGED <<clock, ttl, holder, smart>>

Reply(r) ==
  /\ At(r, "reply")
  /\ req' = [req EXCEPT ![r] = Idle]
  /\ UNCHANGED <<clock, ttl, cache, holder, smart>>

\* The context is done, or the collection or the refresh fails.
Fail(r) ==
  /\ req[r].stage \in {"refresh", "ttl", "lookup", "lock", "collect", "sample"}
  /\ ReleaseOnError(r)
  /\ req' = [req EXCEPT ![r] = Idle]
  /\ UNCHANGED <<clock, ttl, cache, smart>>

-----------------------------------------------------------------------------
(* The collector, reloads and time.                                         *)

\* gatherStats and refreshSmartIfDue, as far as requests notice them.
GatherStats ==
  /\ holder = None
  /\ holder' = "collector"
  /\ UNCHANGED <<clock, ttl, cache, req, smart>>

Gathered ==
  /\ holder = "collector"
  /\ holder' = None
  /\ UNCHANGED <<clock, ttl, cache, req, smart>>

\* Without a SMART manager nothing is refreshed.
RefreshSmartIfDue ==
  /\ \E k \in Keys : Kind[k] = "smart"
  /\ smart # clock
  /\ smart' = clock
  /\ UNCHANGED <<clock, ttl, cache, req, holder>>

\* A reload replaces the TTLs and leaves the entries in the cache.
SetLiveCurrentTTLs ==
  /\ \E t \in TTLs : t # ttl /\ ttl' = t
  /\ UNCHANGED <<clock, cache, req, holder, smart>>

Storing(r) == req[r].stage \in {"store", "own"}

\* Time passes, except when a request would be too slow in storing its entries.
Advance ==
  /\ clock < MaxTime
  /\ \A r \in Requests : Storing(r) => clock < req[r].captured + MaxStoreDelay
  /\ clock' = clock + 1
  /\ UNCHANGED <<ttl, cache, req, holder, smart>>

-----------------------------------------------------------------------------
RequestStep(r) ==
  \/ Refresh(r) \/ ReadTTL(r) \/ Lookup(r) \/ Collected(r) \/ Sample(r) \/ Capture(r)
  \/ StoreSibling(r) \/ SiblingsStored(r) \/ StoreOwn(r) \/ Reply(r)

Next ==
  \/ \E r \in Requests : Begin(r) \/ RequestStep(r) \/ Lock(r) \/ Fail(r)
  \/ GatherStats
  \/ Gathered
  \/ RefreshSmartIfDue
  \/ SetLiveCurrentTTLs
  \/ Advance

(***************************************************************************)
(* Goroutines run, collections end, and a Go mutex hands itself over to a  *)
(* goroutine that has waited for long.                                     *)
(***************************************************************************)
Fairness ==
  /\ \A r \in Requests : WF_vars(RequestStep(r)) /\ SF_vars(Lock(r))
  /\ WF_vars(Gathered)

Spec == Init /\ [][Next]_vars
FairSpec == Spec /\ Fairness

-----------------------------------------------------------------------------
(* Properties.                                                              *)

\* The lookup of r finds an entry.
Hits(r) == At(r, "lookup") /\ Valid(req[r].key) /\ req'[r].stage = "reply"

(***************************************************************************)
(* captured_at is honest, except for the parts that managers hold: no      *)
(* value is sampled after the time it carries, in the cache and in answers *)
(* alike, and what a request collected itself was sampled after the        *)
(* request came in.  (SMART records are those last read, so they may be    *)
(* older than the request; for the other plugins of Held nothing is said   *)
(* of the age of a part.)                                                  *)
(***************************************************************************)
HonestTimestamps ==
  /\ \A k \in Keys : cache[k] # None =>
       (k \notin Held => cache[k].sample <= cache[k].captured) /\ cache[k].captured <= clock
  /\ \A r \in Requests :
       /\ At(r, "reply") => /\ req[r].key \notin Held => req[r].sample <= req[r].captured
                            /\ req[r].captured <= clock
       /\ Storing(r) /\ Kind[req[r].key] # "smart" =>
            req[r].began <= req[r].sample /\ req[r].sample <= req[r].captured

(***************************************************************************)
(* An answer from the cache is never older than a TTL that was configured  *)
(* for its plugin, plus the time a request may take to store what it has   *)
(* collected, although the entry may come from a request for a sibling.    *)
(***************************************************************************)
BoundedAge ==
  [][\A r \in Requests : At(r, "lookup") /\ req'[r] # req[r] /\ req'[r].stage = "reply" =>
       \E t \in TTLs : clock - cache[req[r].key].captured <= t[req[r].key] + MaxStoreDelay]_vars

(***************************************************************************)
(* A plugin whose TTL is always 0 is collected for every request (README:  *)
(* "0s disables response caching"), although a collection for any other    *)
(* plugin of its kind walks over it when it stores entries.                *)
(***************************************************************************)
ZeroDisablesCaching ==
  [][\A r \in Requests : Hits(r) => \E t \in TTLs : t[req[r].key] # 0]_vars

(***************************************************************************)
(* The answer to POST /smart/refresh is the data of that refresh, not what *)
(* was read before.                                                        *)
(***************************************************************************)
RefreshAnswersRefreshed ==
  \A r \in Requests : At(r, "reply") /\ req[r].post => req[r].sample >= req[r].began

\* Every request is answered: no path keeps the mutex of the App.
RequestsAreAnswered == \A r \in Requests : ~ At(r, "idle") ~> At(r, "idle")

=============================================================================
