----------------------------- MODULE DockerStats -----------------------------
(***************************************************************************)
(* How the Docker manager reads the stats of the containers.               *)
(*                                                                         *)
(* GetStats lists the containers and starts one worker for each; when the  *)
(* engine is known to answer single requests correctly a semaphore limits  *)
(* how many of them run at once.  The containers that fail are tried once  *)
(* more, those that are gone are forgotten, and the byte counters become   *)
(* the baseline of the next call for the same cache interval.  A call may  *)
(* be cancelled at any time, and it starts before the last workers of the  *)
(* call before have given their tokens back.  Calls do not overlap, since  *)
(* callers hold the mutex of the App.                                      *)
(*                                                                         *)
(* A reading is represented by the number of the call that made it; 0      *)
(* stands for none.  The CPU baselines, which are read and written in one  *)
(* critical section, and what Podman changes besides are left out.         *)
(***************************************************************************)
EXTENDS Integers, FiniteSets

CONSTANTS
  Containers,   \* containers that may be running and are not excluded
  Intervals,    \* cache intervals, each with baselines of its own
  Capacity,     \* of the semaphore
  MaxCalls,     \* bound on the number of calls
  None          \* a container without stats, no container being queued

ASSUME ContainersAssumption == IsFiniteSet(Containers) /\ None \notin Containers
ASSUME CapacityAssumption == Capacity \in Nat \ {0}
ASSUME MaxCallsAssumption == MaxCalls \in Nat

VARIABLES
  limited,     \* goodDockerVersion
  checked,     \* dockerVersionChecked
  decoder,     \* the shared JSON decoder has never met a syntax error
  tokens,      \* number of tokens in sem
  releasing,   \* workers that have left the wait group and not yet dequeued
  call,        \* where GetStats is
  worker,      \* worker[c]: the worker of c inside the wait group
  valid,       \* validIds
  stats,       \* containerStatsMap
  current,     \* current of networkSentTrackers and networkRecvTrackers
  previous,    \* previous of the same trackers
  readTime,    \* lastNetworkReadTime
  answered     \* the calls that were answered

vars == <<limited, checked, decoder, tokens, releasing, call, worker, valid, stats, current,
          previous, readTime, answered>>

Calls == 0 .. MaxCalls
Readings == [Containers -> Calls]

\* Stats of a container: the call that read them, and the readings that the
\* bytes and the time of its network rate are counted from.
Stats == [read : Calls, bytesFrom : Calls, timeFrom : Calls]
Zero == [read |-> 0, bytesFrom |-> 0, timeFrom |-> 0]

Stage == {"idle", "list", "version", "reset", "loop", "queue", "wait", "abort", "answer"}
Call == [stage : Stage, n : Calls, interval : Intervals, cancelled : BOOLEAN, round : {1, 2},
         todo : SUBSET Containers, next : Containers \cup {None}, failed : SUBSET Containers]

TypeOK ==
  /\ limited \in BOOLEAN /\ checked \in BOOLEAN /\ decoder \in BOOLEAN
  /\ tokens \in 0 .. Capacity
  /\ releasing \in Nat
  /\ call \in Call
  /\ call.stage = "queue" => call.next \in Containers
  /\ worker \in [Containers -> {"off", "request", "update"}]
  /\ valid \in SUBSET Containers
  /\ stats \in [Containers -> Stats \cup {None}]
  /\ current \in [Intervals -> Readings]
  /\ previous \in [Intervals -> Readings]
  /\ readTime \in [Intervals -> Readings]
  /\ answered \in SUBSET Calls

NoReadings == [c \in Containers |-> 0]

\* NewManager: its probe of the version may have succeeded or failed.
Init ==
  /\ limited \in BOOLEAN
  /\ checked \in BOOLEAN /\ (limited => checked)
  /\ decoder \in BOOLEAN
  /\ tokens = 0 /\ releasing = 0
  /\ \E i \in Intervals :
       call = [stage |-> "idle", n |-> 0, interval |-> i, cancelled |-> FALSE, round |-> 1,
               todo |-> {}, next |-> None, failed |-> {}]
  /\ worker = [c \in Containers |-> "off"]
  /\ valid = {}
  /\ stats = [c \in Containers |-> None]
  /\ current = [i \in Intervals |-> NoReadings]
  /\ previous = current
  /\ readTime = [i \in Intervals |-> NoReadings]
  /\ answered = {}

-----------------------------------------------------------------------------
At(stage) == call.stage = stage
GoTo(stage) == call' = [call EXCEPT !.stage = stage]

\* GetStats returns; its variables and the context are gone.
Return == call' = [call EXCEPT !.stage = "idle", !.cancelled = FALSE, !.round = 1,
                               !.todo = {}, !.failed = {}]

\* The containers whose workers are in the wait group.
Active == {c \in Containers : worker[c] # "off"}

\* decode fails: the body is of another type, cannot be read, or is no JSON at
\* all, which the decoder never recovers from.
DecodeFails == decoder' = decoder \/ decoder' = FALSE

engine == <<limited, checked>>
pool == <<tokens, releasing, worker>>
readings == <<stats, current, previous, readTime>>

-----------------------------------------------------------------------------
(* GetStats: the list of containers and the version of the engine.          *)

Begin ==
  /\ At("idle")
  /\ call.n < MaxCalls
  /\ \E i \in Intervals :
       call' = [call EXCEPT !.stage = "list", !.n = @ + 1, !.interval = i]
  /\ UNCHANGED <<engine, decoder, pool, valid, readings, answered>>

\* The context of the caller is cancelled.
Cancel ==
  /\ ~ At("idle") /\ ~ call.cancelled
  /\ call' = [call EXCEPT !.cancelled = TRUE]
  /\ UNCHANGED <<engine, decoder, pool, valid, readings, answered>>

\* The request for the list; its header may tell that the engine is Podman.
List ==
  /\ At("list")
  /\ \/ Return /\ DecodeFails /\ UNCHANGED engine
     \/ /\ ~ call.cancelled /\ decoder
        /\ \E cs \in SUBSET Containers :
             call' = [call EXCEPT !.stage = "version", !.todo = cs]
        /\ (limited' = TRUE /\ checked' = TRUE) \/ UNCHANGED engine
        /\ UNCHANGED decoder
  /\ UNCHANGED <<pool, valid, readings, answered>>

\* ensureDockerVersionChecked: the probe fails, or finds an old or a good engine.
EnsureVersionChecked ==
  /\ At("version")
  /\ GoTo("reset")
  /\ \/ (checked \/ call.cancelled) /\ UNCHANGED <<engine, decoder>>
     \/ ~ checked /\ DecodeFails /\ UNCHANGED engine
     \/ /\ ~ checked /\ ~ call.cancelled /\ decoder
        /\ checked' = TRUE /\ limited' \in {limited, TRUE} /\ UNCHANGED decoder
  /\ UNCHANGED <<pool, valid, readings, answered>>

ResetValid ==
  /\ At("reset")
  /\ IF call.cancelled THEN Return /\ UNCHANGED valid
                       ELSE GoTo("loop") /\ valid' = {}
  /\ UNCHANGED <<engine, decoder, pool, readings, answered>>

-----------------------------------------------------------------------------
(* The loop over the containers, and the one over those that failed.        *)

\* A container that is less than a minute old loses its earlier readings.
Admit(c) ==
  /\ At("loop") /\ call.round = 1 /\ ~ call.cancelled
  /\ c \in call.todo
  /\ call' = [call EXCEPT !.stage = "queue", !.todo = @ \ {c}, !.next = c]
  /\ valid' = valid \cup {c}
  /\ \/ UNCHANGED <<stats, readTime>>
     \/ /\ stats' = [stats EXCEPT ![c] = None]
        /\ readTime' = [i \in Intervals |-> [readTime[i] EXCEPT ![c] = 0]]
  /\ UNCHANGED <<engine, decoder, pool, current, previous, answered>>

Retry(c) ==
  /\ At("loop") /\ call.round = 2 /\ ~ call.cancelled
  /\ c \in call.todo
  /\ call' = [call EXCEPT !.stage = "queue", !.todo = @ \ {c}, !.next = c]
  /\ UNCHANGED <<engine, decoder, pool, valid, readings, answered>>

LoopEnds ==
  /\ At("loop")
  /\ \/ call.todo = {} /\ GoTo("wait")
     \/ call.todo # {} /\ call.cancelled /\ GoTo("abort")
  /\ UNCHANGED <<engine, decoder, pool, valid, readings, answered>>

\* queue takes a token when workers are limited, and the worker starts; a
\* cancelled call may give up instead.
Queue ==
  /\ At("queue")
  /\ \/ /\ limited => tokens < Capacity
        /\ tokens' = IF limited THEN tokens + 1 ELSE tokens
        /\ worker' = [worker EXCEPT ![call.next] = "request"]
        /\ call' = [call EXCEPT !.stage = "loop", !.next = None]
     \/ /\ limited /\ call.cancelled
        /\ call' = [call EXCEPT !.stage = "abort", !.next = None]
        /\ UNCHANGED <<tokens, worker>>
  /\ UNCHANGED <<engine, decoder, releasing, valid, readings, answered>>

\* wg.Wait after a loop: the call ends, tries the failed containers, or answers.
Wait ==
  /\ At("wait") /\ Active = {}
  /\ \/ call.cancelled /\ Return
     \/ /\ ~ call.cancelled /\ call.round = 1 /\ call.failed # {}
        /\ call' = [call EXCEPT !.stage = "loop", !.round = 2, !.todo = call.failed]
     \/ /\ ~ call.cancelled /\ (call.round = 2 \/ call.failed = {})
        /\ GoTo("answer")
  /\ UNCHANGED <<engine, decoder, pool, valid, readings, answered>>

\* A faulty variant: a cancelled call returns at once.
AbortAtOnce ==
  /\ At("abort")
  /\ Return
  /\ UNCHANGED <<engine, decoder, pool, valid, readings, answered>>

\* wg.Wait when the call was cancelled in a loop.
Abort ==
  /\ At("abort") /\ Active = {}
  /\ Return
  /\ UNCHANGED <<engine, decoder, pool, valid, readings, answered>>

\* Invalid containers are removed, the others reported, and the trackers cycled.
Answer ==
  /\ At("answer")
  /\ Return
  /\ stats' = [c \in Containers |-> IF c \in valid THEN stats[c] ELSE None]
  /\ previous' = [previous EXCEPT ![call.interval] = current[call.interval]]
  /\ current' = [current EXCEPT ![call.interval] = NoReadings]
  /\ answered' = answered \cup {call.n}
  /\ UNCHANGED <<engine, decoder, pool, valid, readTime>>

-----------------------------------------------------------------------------
(* A worker: updateContainerStats, then dequeue.                            *)

\* The worker leaves the wait group; its token is still to be given back.
Leave(c) ==
  /\ worker' = [worker EXCEPT ![c] = "off"]
  /\ releasing' = releasing + 1
  /\ UNCHANGED tokens

\* A faulty variant: the stats of a container that failed are kept.
FailKeepsStats(c, s) ==
  /\ stats' = s
  /\ call' = [call EXCEPT !.failed = IF call.round = 1 THEN @ \cup {c} ELSE @]

\* The update of c has failed with stats s: in the first round c is removed and
\* noted for the second, in the second round the error is only logged.
Fail(c, s) ==
  IF call.round = 1
    THEN /\ stats' = [s EXCEPT ![c] = None]
         /\ call' = [call EXCEPT !.failed = @ \cup {c}]
    ELSE stats' = s /\ UNCHANGED call

\* The request for the stats of c.
Request(c) ==
  /\ worker[c] = "request"
  /\ \/ /\ ~ call.cancelled
        /\ worker' = [worker EXCEPT ![c] = "update"]
        /\ UNCHANGED <<tokens, releasing, stats, call>>
     \/ Leave(c) /\ Fail(c, stats)
  /\ UNCHANGED <<engine, decoder, valid, current, previous, readTime, answered>>

\* A faulty variant: one read time is shared by all intervals.
ReadingSharedTime(c) ==
  LET bytes == previous[call.interval][c]
      times == {readTime[i][c] : i \in Intervals} \ {0}
  IN [read |-> call.n, bytesFrom |-> IF times = {} THEN 0 ELSE bytes,
      timeFrom |-> IF times = {} \/ bytes = 0 THEN 0
                   ELSE CHOOSE t \in times : \A u \in times : u <= t]

\* calculateNetworkStats: without a previous reading the rate is 0.
Reading(c) ==
  LET bytes == previous[call.interval][c]
      time == readTime[call.interval][c]
  IN [read |-> call.n, bytesFrom |-> IF time = 0 THEN 0 ELSE bytes,
      timeFrom |-> IF bytes = 0 THEN 0 ELSE time]

\* The response is decoded and the stats are updated, or they are found to be bad
\* after the values in the map have been reset.
Update(c) ==
  /\ worker[c] = "update"
  /\ \/ /\ decoder
        /\ stats' = [stats EXCEPT ![c] = Reading(c)]
        /\ current' = [current EXCEPT ![call.interval][c] = call.n]
        /\ readTime' = [readTime EXCEPT ![call.interval][c] = call.n]
        /\ UNCHANGED <<decoder, call>>
     \/ /\ DecodeFails
        /\ Fail(c, [stats EXCEPT ![c] = Zero])
        /\ UNCHANGED <<current, readTime>>
  /\ Leave(c)
  /\ UNCHANGED <<engine, valid, previous, answered>>

\* A faulty variant: the token is kept.
ReleaseNothing ==
  /\ releasing > 0
  /\ releasing' = releasing - 1
  /\ UNCHANGED <<engine, decoder, tokens, worker, call, valid, readings, answered>>

\* The rest of dequeue, which looks at the version again.
Release ==
  /\ releasing > 0
  /\ releasing' = releasing - 1
  /\ limited => tokens > 0
  /\ tokens' = IF limited THEN tokens - 1 ELSE tokens
  /\ UNCHANGED <<engine, decoder, worker, call, valid, readings, answered>>

-----------------------------------------------------------------------------
Main ==
  \/ List \/ EnsureVersionChecked \/ ResetValid
  \/ \E c \in Containers : Admit(c) \/ Retry(c)
  \/ LoopEnds \/ Queue \/ Wait \/ Abort \/ Answer

Next ==
  \/ Begin
  \/ Cancel
  \/ Main
  \/ \E c \in Containers : Request(c) \/ Update(c)
  \/ Release

Spec == Init /\ [][Next]_vars

-----------------------------------------------------------------------------
(* Properties.                                                              *)

(***************************************************************************)
(* No worker outlives its call, on any path out of GetStats: the map and   *)
(* the list of failures are read without their mutex once the workers are  *)
(* waited for, and the next call starts from there.                        *)
(***************************************************************************)
NoWorkerOutlivesCall == call.stage \in {"idle", "list", "version", "reset", "answer"} => Active = {}

(***************************************************************************)
(* An answer holds no readings of an earlier call: a container whose stats *)
(* could not be read twice is missing, or reported with zeros.  (Not so    *)
(* its ports, which stay when the engine lists none, and what a response   *)
(* leaves out of the shared decode target: docker.go:508, 518.)            *)
(***************************************************************************)
AnswerIsFresh ==
  [][Answer => \A c \in Containers : stats'[c] # None => stats'[c].read \in {0, call.n}]_vars

(***************************************************************************)
(* A network rate divides the bytes since a reading by the time since that *)
(* same reading.  The exception is a reading of a call that was cancelled: *)
(* it moves the time on and not the bytes, so the rate then is too high,   *)
(* never too low.                                                          *)
(***************************************************************************)
RatesAreExact ==
  \A c \in Containers : stats[c] # None =>
    \/ stats[c].bytesFrom = stats[c].timeFrom
    \/ stats[c].bytesFrom < stats[c].timeFrom /\ stats[c].timeFrom \notin answered

\* The workers under way, those included that are still to dequeue.
Workers == Cardinality(Active) + releasing

(***************************************************************************)
(* Every token in the semaphore is one that a worker will give back, so    *)
(* that queue never waits for a token that nobody returns.                 *)
(***************************************************************************)
TokensComeBack == tokens <= Workers

(***************************************************************************)
(* The semaphore limits the workers: once the version of the engine is     *)
(* known, the number of workers beyond those with a token never grows.  It *)
(* is not 0 when earlier workers, which took no token, are still to        *)
(* dequeue: one of them may take the token of another away.                *)
(***************************************************************************)
WorkersAreLimited == [][limited => Workers' - tokens' <= Workers - tokens]_vars

=============================================================================
