------------------------- MODULE LiveCurrentProofs -------------------------
(***************************************************************************)
(* Type correctness of LiveCurrent, the honesty of captured_at, the age of *)
(* cached answers and that a TTL of 0 disables caching, for any plugins,   *)
(* requests, TTLs and reloads.                                             *)
(***************************************************************************)
EXTENDS LiveCurrent, TLAPS

\* A request that is somewhere on its way has all the fields of a request.
LEMMA ActiveRequest ==
  ASSUME TypeOK, NEW r \in Requests, req[r].stage \in Stage
  PROVE  req[r] \in Request
  BY DEF TypeOK, Idle, Stage

LEMMA SiblingsAreKeys ==
  ASSUME NEW k \in Keys PROVE Siblings(k) \in SUBSET Keys
  BY KindAssumption DEF Siblings, Base, Kinds

LEMMA StagesOfKeys ==
  ASSUME NEW k \in Keys PROVE FirstStage(k) \in Stage /\ CollectStage(k) \in Stage
  BY DEF FirstStage, CollectStage, Stage

\* Storing keeps the cache a table of entries.
LEMMA PutTyped ==
  ASSUME TypeOK, NEW k \in Keys, NEW r \in Requests, req[r] \in Request,
         NEW t \in Nat, Put(k, r, t)
  PROVE  cache' \in [Keys -> Entry \cup {None}]
<1> DEFINE new(s) == [sample |-> s, captured |-> req[r].captured, expires |-> clock + t]
<1>1. \A s \in SampledAt(k, r) : new(s) \in Entry
  BY TimeAssumption DEF TypeOK, Entry, Request, Time, SampledAt
<1>2. cache' = cache \/ \E s \in SampledAt(k, r) : cache' = [cache EXCEPT ![k] = new(s)]
  BY DEF Put
<1> HIDE DEF new
<1> QED
  BY <1>1, <1>2 DEF TypeOK

\* Every variable has its type: the fields of a request and of an entry too.
THEOREM TypeCorrect == Spec => []TypeOK
<1>1. Init => TypeOK
  BY TTLAssumption, TimeAssumption DEF Init, TypeOK, Time
<1>2. TypeOK /\ [Next]_vars => TypeOK'
  <2> SUFFICES ASSUME TypeOK, [Next]_vars PROVE TypeOK'
    OBVIOUS
  <2> USE DEF TypeOK
  <2>0. /\ 0 \in Time /\ clock \in Time
        /\ \A k \in Keys : ttl[k] \in Nat
    BY TimeAssumption, TTLAssumption DEF Time
  <2>1. ASSUME NEW r \in Requests, Begin(r) PROVE TypeOK'
    <3>1. PICK k \in Keys, post \in BOOLEAN :
            req' = [req EXCEPT ![r] =
                      [stage |-> IF post THEN "refresh" ELSE FirstStage(k), key |-> k,
                       post |-> post, began |-> clock, ttl |-> 0, sample |-> 0,
                       captured |-> 0, todo |-> {}]]
      BY <2>1 DEF Begin
    <3> DEFINE new == [stage |-> IF post THEN "refresh" ELSE FirstStage(k), key |-> k,
                       post |-> post, began |-> clock, ttl |-> 0, sample |-> 0,
                       captured |-> 0, todo |-> {}]
    <3>2. new \in Request
      BY <2>0, StagesOfKeys DEF Request, Stage
    <3>3. req' = [req EXCEPT ![r] = new]
      BY <3>1
    <3> HIDE DEF new
    <3> QED
      BY <2>1, <3>2, <3>3 DEF Begin
  <2>2. ASSUME NEW r \in Requests, Refresh(r) PROVE TypeOK'
    <3>1. req[r] \in Request
      BY <2>2, ActiveRequest DEF Refresh, At, Stage
    <3>2. [req[r] EXCEPT !.stage = FirstStage(req[r].key)] \in Request
      BY <3>1, StagesOfKeys DEF Request
    <3>3. req' \in [Requests -> Request \cup {Idle}]
      BY <2>2, <3>2 DEF Refresh
    <3> QED
      BY <2>0, <2>2, <3>3 DEF Refresh
  <2>3. ASSUME NEW r \in Requests, ReadTTL(r) PROVE TypeOK'
    <3>1. req[r] \in Request
      BY <2>3, ActiveRequest DEF ReadTTL, At, Stage
    <3>2. [req[r] EXCEPT !.ttl = ttl[req[r].key], !.stage = "lookup"] \in Request
      BY <2>0, <3>1 DEF Request, Stage
    <3>3. req' \in [Requests -> Request \cup {Idle}]
      BY <2>3, <3>2 DEF ReadTTL
    <3> QED
      BY <2>3, <3>3 DEF ReadTTL
  <2>4. ASSUME NEW r \in Requests, Lookup(r) PROVE TypeOK'
    <3>1. req[r] \in Request
      BY <2>4, ActiveRequest DEF Lookup, At, Stage
    <3> DEFINE k == req[r].key
               hit == [req[r] EXCEPT !.stage = "reply", !.sample = cache[k].sample,
                                     !.captured = cache[k].captured]
               miss == [req[r] EXCEPT !.stage = CollectStage(k)]
    <3>2. ~ Valid(k) => miss \in Request
      BY <3>1, StagesOfKeys DEF Request
    <3>3. Valid(k) => hit \in Request
      <4>1. Valid(k) => cache[k] \in Entry
        BY <3>1 DEF Valid, Request
      <4> QED
        BY <3>1, <4>1 DEF Request, Stage, Entry
    <3>4. \/ Valid(k) /\ req' = [req EXCEPT ![r] = hit]
          \/ ~ Valid(k) /\ req' = [req EXCEPT ![r] = miss]
      BY <2>4 DEF Lookup
    <3> HIDE DEF hit, miss
    <3>5. req' \in [Requests -> Request \cup {Idle}]
      BY <3>2, <3>3, <3>4
    <3> QED
      BY <2>4, <3>5 DEF Lookup
  <2>5. ASSUME NEW r \in Requests, Lock(r) PROVE TypeOK'
    <3>1. req[r] \in Request
      BY <2>5, ActiveRequest DEF Lock, At, Stage
    <3>2. [req[r] EXCEPT !.stage = "collect", !.sample = clock] \in Request
      BY <2>0, <3>1 DEF Request, Stage
    <3>3. req' \in [Requests -> Request \cup {Idle}]
      BY <2>5, <3>2 DEF Lock
    <3> QED
      BY <2>5, <3>3 DEF Lock
  <2>6. ASSUME NEW r \in Requests, Collected(r) PROVE TypeOK'
    <3>1. req[r] \in Request
      BY <2>6, ActiveRequest DEF Collected, At, Stage
    <3>2. [req[r] EXCEPT !.stage = "capture"] \in Request
      BY <3>1 DEF Request, Stage
    <3>3. req' \in [Requests -> Request \cup {Idle}]
      BY <2>6, <3>2 DEF Collected
    <3> QED
      BY <2>6, <3>3 DEF Collected
  <2>7. ASSUME NEW r \in Requests, Sample(r) PROVE TypeOK'
    <3>1. req[r] \in Request
      BY <2>7, ActiveRequest DEF Sample, At, Stage
    <3> DEFINE value == IF Kind[req[r].key] = "smart" THEN smart ELSE clock
    <3>2. value \in Time
      BY <2>0
    <3>3. [req[r] EXCEPT !.stage = "capture", !.sample = value] \in Request
      BY <3>1, <3>2 DEF Request, Stage
    <3>4. req' \in [Requests -> Request \cup {Idle}]
      BY <2>7, <3>3 DEF Sample
    <3> QED
      BY <2>7, <3>4 DEF Sample
  <2>8. ASSUME NEW r \in Requests, Capture(r) PROVE TypeOK'
    <3>1. req[r] \in Request
      BY <2>8, ActiveRequest DEF Capture, At, Stage
    <3>2. Siblings(req[r].key) \in SUBSET Keys
      BY <3>1, SiblingsAreKeys DEF Request
    <3>3. [req[r] EXCEPT !.captured = clock, !.todo = Siblings(req[r].key),
                         !.stage = "store"] \in Request
      BY <2>0, <3>1, <3>2 DEF Request, Stage
    <3>4. req' \in [Requests -> Request \cup {Idle}]
      BY <2>8, <3>3 DEF Capture
    <3> QED
      BY <2>8, <3>4 DEF Capture
  <2>9. ASSUME NEW r \in Requests, StoreSibling(r) PROVE TypeOK'
    <3>1. req[r] \in Request
      BY <2>9, ActiveRequest DEF StoreSibling, At, Stage
    <3>2. PICK k \in req[r].todo :
            Put(k, r, ttl[k]) /\ req' = [req EXCEPT ![r].todo = @ \ {k}]
      BY <2>9 DEF StoreSibling
    <3>3. k \in Keys
      BY <3>1, <3>2 DEF Request
    <3>4. cache' \in [Keys -> Entry \cup {None}]
      BY <2>0, <3>1, <3>2, <3>3, PutTyped
    <3>5. [req[r] EXCEPT !.todo = @ \ {k}] \in Request
      BY <3>1 DEF Request
    <3>6. req' \in [Requests -> Request \cup {Idle}]
      BY <3>2, <3>5
    <3> QED
      BY <2>9, <3>4, <3>6 DEF StoreSibling
  <2>10. ASSUME NEW r \in Requests, SiblingsStored(r) PROVE TypeOK'
    <3>1. req[r] \in Request
      BY <2>10, ActiveRequest DEF SiblingsStored, At, Stage
    <3> DEFINE next == IF Kind[req[r].key] = "process" THEN "reply" ELSE "own"
    <3>2. next \in Stage
      BY DEF Stage
    <3>3. [req[r] EXCEPT !.stage = next] \in Request
      BY <3>1, <3>2 DEF Request
    <3>4. req' \in [Requests -> Request \cup {Idle}]
      BY <2>10, <3>3 DEF SiblingsStored
    <3> QED
      BY <2>10, <3>4 DEF SiblingsStored
  <2>11. ASSUME NEW r \in Requests, StoreOwn(r) PROVE TypeOK'
    <3>1. req[r] \in Request
      BY <2>11, ActiveRequest DEF StoreOwn, At, Stage
    <3>2. cache' \in [Keys -> Entry \cup {None}]
      <4>1. req[r].key \in Keys /\ req[r].ttl \in Nat
        BY <3>1 DEF Request
      <4> QED
        BY <2>11, <3>1, <4>1, PutTyped DEF StoreOwn
    <3>3. [req[r] EXCEPT !.stage = "reply"] \in Request
      BY <3>1 DEF Request, Stage
    <3>4. req' \in [Requests -> Request \cup {Idle}]
      BY <2>11, <3>3 DEF StoreOwn
    <3> QED
      BY <2>11, <3>2, <3>4 DEF StoreOwn
  <2>12. ASSUME NEW r \in Requests, Reply(r) \/ Fail(r) PROVE TypeOK'
    BY <2>12 DEF Reply, Fail, ReleaseOnError
  <2>13. CASE GatherStats \/ Gathered
    BY <2>13 DEF GatherStats, Gathered
  <2>14. CASE RefreshSmartIfDue
    BY <2>0, <2>14 DEF RefreshSmartIfDue
  <2>15. CASE SetLiveCurrentTTLs
    BY <2>15 DEF SetLiveCurrentTTLs
  <2>16. CASE Advance
    BY <2>16, TimeAssumption DEF Advance, Time
  <2>17. CASE UNCHANGED vars
    BY <2>17 DEF vars
  <2> QED
    BY <2>1, <2>2, <2>3, <2>4, <2>5, <2>6, <2>7, <2>8, <2>9, <2>10, <2>11, <2>12,
       <2>13, <2>14, <2>15, <2>16, <2>17 DEF Next, RequestStep
<1> QED
  BY <1>1, <1>2, PTL DEF Spec

-----------------------------------------------------------------------------
(* The honesty of captured_at.                                              *)

\* What is known of the times of one request, by the stage it has reached.
HonestRequest(q, now) ==
  /\ q.stage \in Stage => q.began <= now
  /\ q.stage \in {"collect", "capture"} =>
       q.sample <= now /\ (Kind[q.key] # "smart" => q.began <= q.sample)
  /\ q.stage \in {"store", "own"} =>
       /\ q.sample <= q.captured /\ q.captured <= now
       /\ Kind[q.key] # "smart" => q.began <= q.sample
  /\ q.stage = "reply" => /\ q.key \notin Held => q.sample <= q.captured
                          /\ q.captured <= now

HonestEntry(k, e, now) ==
  e # None => (k \notin Held => e.sample <= e.captured) /\ e.captured <= now

HonestInv ==
  /\ TypeOK
  /\ smart <= clock
  /\ \A k \in Keys : HonestEntry(k, cache[k], clock)
  /\ \A r \in Requests : HonestRequest(req[r], clock)

\* A step of one request that keeps that request honest keeps all of them so.
LEMMA OneRequest ==
  ASSUME HonestInv, NEW r \in Requests, NEW q, req' = [req EXCEPT ![r] = q],
         HonestRequest(q, clock), clock' = clock
  PROVE  \A x \in Requests : HonestRequest(req'[x], clock')
  BY DEF HonestInv, TypeOK

\* Storing what an honest request collected keeps the cache honest.
LEMMA PutHonest ==
  ASSUME HonestInv, NEW k \in Keys, NEW r \in Requests, NEW t \in Nat, Put(k, r, t),
         Storing(r), clock' = clock
  PROVE  \A x \in Keys : HonestEntry(x, cache'[x], clock')
<1> DEFINE new(s) == [sample |-> s, captured |-> req[r].captured, expires |-> clock + t]
<1>1. \A s \in SampledAt(k, r) : HonestEntry(k, new(s), clock)
  BY DEF HonestEntry, HonestInv, HonestRequest, Storing, SampledAt
<1>2. cache' = cache \/ \E s \in SampledAt(k, r) : cache' = [cache EXCEPT ![k] = new(s)]
  BY DEF Put
<1> HIDE DEF new
<1> QED
  BY <1>1, <1>2 DEF HonestInv, TypeOK

(***************************************************************************)
(* HonestTimestamps for any plugins, requests and reloads: outside Held no *)
(* value is sampled after the captured_at it carries, and what a request   *)
(* collects itself, SMART records excepted, is no older than the request.  *)
(***************************************************************************)
THEOREM TimestampsHonest == Spec => []HonestTimestamps
<1>1. Init => HonestInv
  BY TTLAssumption, TimeAssumption
  DEF Init, HonestInv, TypeOK, Time, HonestEntry, HonestRequest, Idle, Stage
<1>2. HonestInv /\ TypeOK' /\ [Next]_vars => HonestInv'
  <2> SUFFICES ASSUME HonestInv, TypeOK', [Next]_vars PROVE HonestInv'
    OBVIOUS
  <2>0. /\ TypeOK /\ clock \in Int /\ smart \in Int /\ smart <= clock
        /\ \A k \in Keys : HonestEntry(k, cache[k], clock)
        /\ \A r \in Requests : HonestRequest(req[r], clock)
        /\ req \in [Requests -> Request \cup {Idle}]
    BY DEF HonestInv, TypeOK, Time
  <2>1. ASSUME NEW r \in Requests, Begin(r) PROVE HonestInv'
    <3>1. PICK k \in Keys, post \in BOOLEAN :
            req' = [req EXCEPT ![r] =
                      [stage |-> IF post THEN "refresh" ELSE FirstStage(k), key |-> k,
                       post |-> post, began |-> clock, ttl |-> 0, sample |-> 0,
                       captured |-> 0, todo |-> {}]]
      BY <2>1 DEF Begin
    <3> DEFINE q == [stage |-> IF post THEN "refresh" ELSE FirstStage(k), key |-> k,
                     post |-> post, began |-> clock, ttl |-> 0, sample |-> 0,
                     captured |-> 0, todo |-> {}]
    <3>2. HonestRequest(q, clock)
      BY <2>0 DEF HonestRequest, FirstStage
    <3>3. req' = [req EXCEPT ![r] = q]
      BY <3>1
    <3> HIDE DEF q
    <3>4. \A x \in Requests : HonestRequest(req'[x], clock')
      BY <2>1, <3>2, <3>3, OneRequest DEF Begin
    <3> QED
      BY <2>0, <2>1, <3>4 DEF Begin, HonestInv
  <2>2. ASSUME NEW r \in Requests, Refresh(r) PROVE HonestInv'
    <3>1. req[r] \in Request /\ req[r].stage = "refresh"
      BY <2>0, <2>2, ActiveRequest DEF Refresh, At, Stage
    <3> DEFINE q == [req[r] EXCEPT !.stage = FirstStage(req[r].key)]
    <3>2. HonestRequest(q, clock) /\ HonestRequest(Idle, clock)
      BY <2>0, <3>1 DEF HonestRequest, FirstStage, Stage, Idle, Request
    <3>3. req' = [req EXCEPT ![r] = q] \/ req' = [req EXCEPT ![r] = Idle]
      BY <2>2 DEF Refresh
    <3> HIDE DEF q
    <3>4. \A x \in Requests : HonestRequest(req'[x], clock')
      BY <2>2, <3>2, <3>3, OneRequest DEF Refresh
    <3> QED
      BY <2>0, <2>2, <3>4 DEF Refresh, HonestInv
  <2>3. ASSUME NEW r \in Requests, ReadTTL(r) PROVE HonestInv'
    <3>1. req[r] \in Request /\ req[r].stage = "ttl"
      BY <2>0, <2>3, ActiveRequest DEF ReadTTL, At, Stage
    <3> DEFINE q == [req[r] EXCEPT !.ttl = ttl[req[r].key], !.stage = "lookup"]
    <3>2. HonestRequest(q, clock)
      BY <2>0, <3>1 DEF HonestRequest, Stage, Request
    <3>3. req' = [req EXCEPT ![r] = q]
      BY <2>3 DEF ReadTTL
    <3> HIDE DEF q
    <3>4. \A x \in Requests : HonestRequest(req'[x], clock')
      BY <2>3, <3>2, <3>3, OneRequest DEF ReadTTL
    <3> QED
      BY <2>0, <2>3, <3>4 DEF ReadTTL, HonestInv
  <2>4. ASSUME NEW r \in Requests, Lookup(r) PROVE HonestInv'
    <3>1. req[r] \in Request /\ req[r].stage = "lookup"
      BY <2>0, <2>4, ActiveRequest DEF Lookup, At, Stage
    <3> DEFINE k == req[r].key
               hit == [req[r] EXCEPT !.stage = "reply", !.sample = cache[k].sample,
                                     !.captured = cache[k].captured]
               miss == [req[r] EXCEPT !.stage = CollectStage(k)]
    <3>2. HonestRequest(miss, clock)
      BY <2>0, <3>1 DEF HonestRequest, CollectStage, Stage, Request
    <3>3. Valid(k) => HonestRequest(hit, clock)
      BY <2>0, <3>1 DEF HonestRequest, HonestEntry, Valid, Stage, Request
    <3>4. \/ Valid(k) /\ req' = [req EXCEPT ![r] = hit]
          \/ req' = [req EXCEPT ![r] = miss]
      BY <2>4 DEF Lookup
    <3> HIDE DEF hit, miss
    <3>5. \A x \in Requests : HonestRequest(req'[x], clock')
      BY <2>4, <3>2, <3>3, <3>4, OneRequest DEF Lookup
    <3> QED
      BY <2>0, <2>4, <3>5 DEF Lookup, HonestInv
  <2>5. ASSUME NEW r \in Requests, Lock(r) PROVE HonestInv'
    <3>1. req[r] \in Request /\ req[r].stage = "lock"
      BY <2>0, <2>5, ActiveRequest DEF Lock, At, Stage
    <3> DEFINE q == [req[r] EXCEPT !.stage = "collect", !.sample = clock]
    <3>2. HonestRequest(q, clock)
      BY <2>0, <3>1 DEF HonestRequest, Stage, Request
    <3>3. req' = [req EXCEPT ![r] = q]
      BY <2>5 DEF Lock
    <3> HIDE DEF q
    <3>4. \A x \in Requests : HonestRequest(req'[x], clock')
      BY <2>5, <3>2, <3>3, OneRequest DEF Lock
    <3> QED
      BY <2>0, <2>5, <3>4 DEF Lock, HonestInv
  <2>6. ASSUME NEW r \in Requests, Collected(r) PROVE HonestInv'
    <3>1. req[r] \in Request /\ req[r].stage = "collect"
      BY <2>0, <2>6, ActiveRequest DEF Collected, At, Stage
    <3> DEFINE q == [req[r] EXCEPT !.stage = "capture"]
    <3>2. HonestRequest(q, clock)
      BY <2>0, <3>1 DEF HonestRequest, Stage, Request
    <3>3. req' = [req EXCEPT ![r] = q]
      BY <2>6 DEF Collected
    <3> HIDE DEF q
    <3>4. \A x \in Requests : HonestRequest(req'[x], clock')
      BY <2>6, <3>2, <3>3, OneRequest DEF Collected
    <3> QED
      BY <2>0, <2>6, <3>4 DEF Collected, HonestInv
  <2>7. ASSUME NEW r \in Requests, Sample(r) PROVE HonestInv'
    <3>1. req[r] \in Request /\ req[r].stage = "sample"
      BY <2>0, <2>7, ActiveRequest DEF Sample, At, Stage
    <3> DEFINE q == [req[r] EXCEPT !.stage = "capture",
                       !.sample = IF Kind[req[r].key] = "smart" THEN smart ELSE clock]
    <3>2. HonestRequest(q, clock)
      BY <2>0, <3>1 DEF HonestRequest, Stage, Request
    <3>3. req' = [req EXCEPT ![r] = q]
      BY <2>7 DEF Sample
    <3> HIDE DEF q
    <3>4. \A x \in Requests : HonestRequest(req'[x], clock')
      BY <2>7, <3>2, <3>3, OneRequest DEF Sample
    <3> QED
      BY <2>0, <2>7, <3>4 DEF Sample, HonestInv
  <2>8. ASSUME NEW r \in Requests, Capture(r) PROVE HonestInv'
    <3>1. req[r] \in Request /\ req[r].stage = "capture"
      BY <2>0, <2>8, ActiveRequest DEF Capture, At, Stage
    <3> DEFINE q == [req[r] EXCEPT !.captured = clock, !.todo = Siblings(req[r].key),
                                   !.stage = "store"]
    <3>2. HonestRequest(q, clock)
      BY <2>0, <3>1 DEF HonestRequest, Stage, Request
    <3>3. req' = [req EXCEPT ![r] = q]
      BY <2>8 DEF Capture
    <3> HIDE DEF q
    <3>4. \A x \in Requests : HonestRequest(req'[x], clock')
      BY <2>8, <3>2, <3>3, OneRequest DEF Capture
    <3> QED
      BY <2>0, <2>8, <3>4 DEF Capture, HonestInv
  <2>9. ASSUME NEW r \in Requests, StoreSibling(r) PROVE HonestInv'
    <3>1. req[r] \in Request /\ req[r].stage = "store"
      BY <2>0, <2>9, ActiveRequest DEF StoreSibling, At, Stage
    <3>2. PICK k \in req[r].todo :
            Put(k, r, ttl[k]) /\ req' = [req EXCEPT ![r].todo = @ \ {k}]
      BY <2>9 DEF StoreSibling
    <3>3. k \in Keys /\ ttl[k] \in Nat
      BY <2>0, <3>1, <3>2, TTLAssumption DEF Request, TypeOK
    <3> DEFINE q == [req[r] EXCEPT !.todo = @ \ {k}]
    <3>4. HonestRequest(q, clock)
      BY <2>0, <3>1 DEF HonestRequest, Stage, Request
    <3>5. req' = [req EXCEPT ![r] = q]
      BY <3>2
    <3> HIDE DEF q
    <3>6. \A x \in Requests : HonestRequest(req'[x], clock')
      BY <2>9, <3>4, <3>5, OneRequest DEF StoreSibling
    <3>7. \A x \in Keys : HonestEntry(x, cache'[x], clock')
      BY <2>9, <3>1, <3>2, <3>3, PutHonest DEF StoreSibling, Storing
    <3> QED
      BY <2>0, <2>9, <3>6, <3>7 DEF StoreSibling, HonestInv
  <2>10. ASSUME NEW r \in Requests, SiblingsStored(r) PROVE HonestInv'
    <3>1. req[r] \in Request /\ req[r].stage = "store"
      BY <2>0, <2>10, ActiveRequest DEF SiblingsStored, At, Stage
    <3> DEFINE q == [req[r] EXCEPT !.stage = IF Kind[req[r].key] = "process"
                                               THEN "reply" ELSE "own"]
    <3>2. HonestRequest(q, clock)
      BY <2>0, <3>1 DEF HonestRequest, Stage, Request
    <3>3. req' = [req EXCEPT ![r] = q]
      BY <2>10 DEF SiblingsStored
    <3> HIDE DEF q
    <3>4. \A x \in Requests : HonestRequest(req'[x], clock')
      BY <2>10, <3>2, <3>3, OneRequest DEF SiblingsStored
    <3> QED
      BY <2>0, <2>10, <3>4 DEF SiblingsStored, HonestInv
  <2>11. ASSUME NEW r \in Requests, StoreOwn(r) PROVE HonestInv'
    <3>1. req[r] \in Request /\ req[r].stage = "own"
      BY <2>0, <2>11, ActiveRequest DEF StoreOwn, At, Stage
    <3>2. req[r].key \in Keys /\ req[r].ttl \in Nat
      BY <3>1 DEF Request
    <3> DEFINE q == [req[r] EXCEPT !.stage = "reply"]
    <3>3. HonestRequest(q, clock)
      BY <2>0, <3>1 DEF HonestRequest, Stage, Request
    <3>4. req' = [req EXCEPT ![r] = q]
      BY <2>11 DEF StoreOwn
    <3> HIDE DEF q
    <3>5. \A x \in Requests : HonestRequest(req'[x], clock')
      BY <2>11, <3>3, <3>4, OneRequest DEF StoreOwn
    <3>6. \A x \in Keys : HonestEntry(x, cache'[x], clock')
      BY <2>11, <3>1, <3>2, PutHonest DEF StoreOwn, Storing
    <3> QED
      BY <2>0, <2>11, <3>5, <3>6 DEF StoreOwn, HonestInv
  <2>12. ASSUME NEW r \in Requests, Reply(r) \/ Fail(r) PROVE HonestInv'
    <3>1. HonestRequest(Idle, clock)
      BY DEF HonestRequest, Idle, Stage
    <3>2. \A x \in Requests : HonestRequest(req'[x], clock')
      BY <2>12, <3>1, OneRequest DEF Reply, Fail
    <3> QED
      BY <2>0, <2>12, <3>2 DEF Reply, Fail, HonestInv
  <2>13. CASE GatherStats \/ Gathered
    BY <2>0, <2>13 DEF GatherStats, Gathered, HonestInv
  <2>14. CASE RefreshSmartIfDue
    BY <2>0, <2>14 DEF RefreshSmartIfDue, HonestInv
  <2>15. CASE SetLiveCurrentTTLs
    BY <2>0, <2>15 DEF SetLiveCurrentTTLs, HonestInv
  <2>16. CASE Advance
    <3>1. clock' = clock + 1 /\ UNCHANGED <<ttl, cache, req, holder, smart>>
      BY <2>16 DEF Advance
    <3>2. \A k \in Keys : HonestEntry(k, cache[k], clock + 1)
      BY <2>0 DEF HonestEntry, TypeOK, Entry, Time
    <3>3. \A r \in Requests : HonestRequest(req[r], clock + 1)
      <4> SUFFICES ASSUME NEW r \in Requests PROVE HonestRequest(req[r], clock + 1)
        OBVIOUS
      <4>1. CASE req[r].stage \in Stage
        <5>1. req[r] \in Request
          BY <2>0, <4>1, ActiveRequest
        <5> QED
          BY <2>0, <5>1 DEF HonestRequest, Request, Time
      <4>2. CASE req[r].stage \notin Stage
        BY <4>2 DEF HonestRequest, Stage
      <4> QED
        BY <4>1, <4>2
    <3> QED
      BY <2>0, <3>1, <3>2, <3>3 DEF HonestInv
  <2>17. CASE UNCHANGED vars
    BY <2>0, <2>17 DEF vars, HonestInv
  <2> QED
    BY <2>1, <2>2, <2>3, <2>4, <2>5, <2>6, <2>7, <2>8, <2>9, <2>10, <2>11, <2>12,
       <2>13, <2>14, <2>15, <2>16, <2>17 DEF Next, RequestStep
<1>3. HonestInv => HonestTimestamps
  BY DEF HonestInv, HonestTimestamps, HonestEntry, HonestRequest, Storing, At
<1> QED
  BY <1>1, <1>2, <1>3, TypeCorrect, PTL DEF Spec

-----------------------------------------------------------------------------
(* The age of cached answers.                                               *)

(***************************************************************************)
(* What is known of a request: it is within its time while it stores its   *)
(* entries, and from its lookup on it carries a TTL that was configured    *)
(* for its key, unless that is a process plugin, which stores no entry of  *)
(* its own.                                                                *)
(***************************************************************************)
AgedRequest(q, now) ==
  /\ q.stage \in {"store", "own"} => now <= q.captured + MaxStoreDelay
  /\ q.stage \in {"lookup", "lock", "collect", "sample", "capture", "store", "own"}
       /\ Kind[q.key] # "process" => \E t \in TTLs : q.ttl = t[q.key]
  /\ q.stage = "own" => Kind[q.key] # "process"

\* An entry was stored in time, with a TTL above 0 that was configured for its key.
AgedEntry(k, e) ==
  e # None => \E t \in TTLs : 0 < t[k] /\ e.expires <= e.captured + MaxStoreDelay + t[k]

AgeInv ==
  /\ TypeOK
  /\ \A k \in Keys : AgedEntry(k, cache[k])
  /\ \A r \in Requests : AgedRequest(req[r], clock)

\* A step of one request that keeps what is known of it keeps it for all.
LEMMA OneAgedRequest ==
  ASSUME AgeInv, NEW r \in Requests, NEW q, req' = [req EXCEPT ![r] = q],
         AgedRequest(q, clock), clock' = clock
  PROVE  \A x \in Requests : AgedRequest(req'[x], clock')
  BY DEF AgeInv, TypeOK

\* Entries are stored with a TTL above 0, and in time.
LEMMA PutAged ==
  ASSUME AgeInv, NEW k \in Keys, NEW r \in Requests, NEW t \in TTLs, Put(k, r, t[k]),
         req[r] \in Request, Storing(r)
  PROVE  \A x \in Keys : AgedEntry(x, cache'[x])
<1> DEFINE new(s) == [sample |-> s, captured |-> req[r].captured, expires |-> clock + t[k]]
<1>1. t[k] \in Nat /\ clock \in Int /\ req[r].captured \in Int /\ MaxStoreDelay \in Int
  BY TTLAssumption, TimeAssumption DEF AgeInv, TypeOK, Request, Time
<1>2. clock <= req[r].captured + MaxStoreDelay
  BY DEF AgeInv, AgedRequest, Storing
<1>3. CASE t[k] <= 0
  BY <1>3 DEF Put, AgeInv
<1>4. CASE ~ (t[k] <= 0)
  <2>1. 0 < t[k] /\ clock + t[k] <= req[r].captured + MaxStoreDelay + t[k]
    BY <1>1, <1>2, <1>4
  <2>2. \A s \in SampledAt(k, r) : AgedEntry(k, new(s))
    BY <2>1 DEF AgedEntry
  <2>3. \E s \in SampledAt(k, r) : cache' = [cache EXCEPT ![k] = new(s)]
    BY <1>4 DEF Put
  <2> HIDE DEF new
  <2> QED
    BY <2>2, <2>3 DEF AgeInv, TypeOK
<1> QED
  BY <1>3, <1>4

\* AgeInv is inductive.
LEMMA AgeStep == AgeInv /\ TypeOK' /\ [Next]_vars => AgeInv'
<1> SUFFICES ASSUME AgeInv, TypeOK', [Next]_vars PROVE AgeInv'
  OBVIOUS
<1> QED
  <2>0. /\ TypeOK /\ clock \in Int /\ MaxStoreDelay \in Nat /\ ttl \in TTLs
        /\ \A k \in Keys : AgedEntry(k, cache[k])
        /\ \A r \in Requests : AgedRequest(req[r], clock)
    BY TimeAssumption DEF AgeInv, TypeOK, Time
  <2>1. ASSUME NEW r \in Requests, Begin(r) PROVE AgeInv'
    <3>1. PICK k \in Keys, post \in BOOLEAN :
            /\ post => Kind[k] = "smart"
            /\ req' = [req EXCEPT ![r] =
                      [stage |-> IF post THEN "refresh" ELSE FirstStage(k), key |-> k,
                       post |-> post, began |-> clock, ttl |-> 0, sample |-> 0,
                       captured |-> 0, todo |-> {}]]
      BY <2>1 DEF Begin
    <3> DEFINE q == [stage |-> IF post THEN "refresh" ELSE FirstStage(k), key |-> k,
                     post |-> post, began |-> clock, ttl |-> 0, sample |-> 0,
                     captured |-> 0, todo |-> {}]
    <3>2. AgedRequest(q, clock)
      BY <2>0 DEF AgedRequest, FirstStage
    <3>3. req' = [req EXCEPT ![r] = q]
      BY <3>1
    <3> HIDE DEF q
    <3>4. \A x \in Requests : AgedRequest(req'[x], clock')
      BY <2>1, <3>2, <3>3, OneAgedRequest DEF Begin
    <3> QED
      BY <2>0, <2>1, <3>4 DEF Begin, AgeInv
  <2>2. ASSUME NEW r \in Requests, Refresh(r) PROVE AgeInv'
    <3>1. req[r] \in Request /\ req[r].stage = "refresh"
      BY <2>0, <2>2, ActiveRequest DEF Refresh, At, Stage
    <3>2. req' = [req EXCEPT ![r] = Idle] => \A x \in Requests : AgedRequest(req'[x], clock')
      BY <2>2, OneAgedRequest DEF Refresh, AgedRequest, Idle
    <3> DEFINE q == [req[r] EXCEPT !.stage = FirstStage(req[r].key)]
    <3>3. AgedRequest(q, clock)
      BY <2>0, <3>1 DEF AgedRequest, FirstStage, Request
    <3>4. req' = [req EXCEPT ![r] = q] \/ req' = [req EXCEPT ![r] = Idle]
      BY <2>2 DEF Refresh
    <3> HIDE DEF q
    <3>5. \A x \in Requests : AgedRequest(req'[x], clock')
      BY <2>2, <3>2, <3>3, <3>4, OneAgedRequest DEF Refresh
    <3> QED
      BY <2>0, <2>2, <3>5 DEF Refresh, AgeInv
  <2>3. ASSUME NEW r \in Requests, ReadTTL(r) PROVE AgeInv'
    <3>1. req[r] \in Request /\ req[r].stage = "ttl"
      BY <2>0, <2>3, ActiveRequest DEF ReadTTL, At, Stage
    <3> DEFINE q == [req[r] EXCEPT !.ttl = ttl[req[r].key], !.stage = "lookup"]
    <3>2. AgedRequest(q, clock)
      BY <2>0, <3>1 DEF AgedRequest, Stage, Request
    <3>3. req' = [req EXCEPT ![r] = q]
      BY <2>3 DEF ReadTTL
    <3> HIDE DEF q
    <3>4. \A x \in Requests : AgedRequest(req'[x], clock')
      BY <2>3, <3>2, <3>3, OneAgedRequest DEF ReadTTL
    <3> QED
      BY <2>0, <2>3, <3>4 DEF ReadTTL, AgeInv
  <2>4. ASSUME NEW r \in Requests, Lookup(r) PROVE AgeInv'
    <3>1. req[r] \in Request /\ req[r].stage = "lookup"
      BY <2>0, <2>4, ActiveRequest DEF Lookup, At, Stage
    <3> DEFINE k == req[r].key
               hit == [req[r] EXCEPT !.stage = "reply", !.sample = cache[k].sample,
                                     !.captured = cache[k].captured]
               miss == [req[r] EXCEPT !.stage = CollectStage(k)]
    <3>2. AgedRequest(miss, clock)
      BY <2>0, <3>1 DEF AgedRequest, CollectStage, Request
    <3>3. AgedRequest(hit, clock)
      BY <3>1 DEF AgedRequest, Request
    <3>4. req' = [req EXCEPT ![r] = hit] \/ req' = [req EXCEPT ![r] = miss]
      BY <2>4 DEF Lookup
    <3> HIDE DEF hit, miss
    <3>5. \A x \in Requests : AgedRequest(req'[x], clock')
      BY <2>4, <3>2, <3>3, <3>4, OneAgedRequest DEF Lookup
    <3> QED
      BY <2>0, <2>4, <3>5 DEF Lookup, AgeInv
  <2>5. ASSUME NEW r \in Requests, Lock(r) PROVE AgeInv'
    <3>1. req[r] \in Request /\ req[r].stage = "lock"
      BY <2>0, <2>5, ActiveRequest DEF Lock, At, Stage
    <3> DEFINE q == [req[r] EXCEPT !.stage = "collect", !.sample = clock]
    <3>2. AgedRequest(q, clock)
      BY <2>0, <3>1 DEF AgedRequest, Stage, Request
    <3>3. req' = [req EXCEPT ![r] = q]
      BY <2>5 DEF Lock
    <3> HIDE DEF q
    <3>4. \A x \in Requests : AgedRequest(req'[x], clock')
      BY <2>5, <3>2, <3>3, OneAgedRequest DEF Lock
    <3> QED
      BY <2>0, <2>5, <3>4 DEF Lock, AgeInv
  <2>6. ASSUME NEW r \in Requests, Collected(r) PROVE AgeInv'
    <3>1. req[r] \in Request /\ req[r].stage = "collect"
      BY <2>0, <2>6, ActiveRequest DEF Collected, At, Stage
    <3> DEFINE q == [req[r] EXCEPT !.stage = "capture"]
    <3>2. AgedRequest(q, clock)
      BY <2>0, <3>1 DEF AgedRequest, Stage, Request
    <3>3. req' = [req EXCEPT ![r] = q]
      BY <2>6 DEF Collected
    <3> HIDE DEF q
    <3>4. \A x \in Requests : AgedRequest(req'[x], clock')
      BY <2>6, <3>2, <3>3, OneAgedRequest DEF Collected
    <3> QED
      BY <2>0, <2>6, <3>4 DEF Collected, AgeInv
  <2>7. ASSUME NEW r \in Requests, Sample(r) PROVE AgeInv'
    <3>1. req[r] \in Request /\ req[r].stage = "sample"
      BY <2>0, <2>7, ActiveRequest DEF Sample, At, Stage
    <3> DEFINE q == [req[r] EXCEPT !.stage = "capture",
                       !.sample = IF Kind[req[r].key] = "smart" THEN smart ELSE clock]
    <3>2. AgedRequest(q, clock)
      BY <2>0, <3>1 DEF AgedRequest, Stage, Request
    <3>3. req' = [req EXCEPT ![r] = q]
      BY <2>7 DEF Sample
    <3> HIDE DEF q
    <3>4. \A x \in Requests : AgedRequest(req'[x], clock')
      BY <2>7, <3>2, <3>3, OneAgedRequest DEF Sample
    <3> QED
      BY <2>0, <2>7, <3>4 DEF Sample, AgeInv
  <2>8. ASSUME NEW r \in Requests, Capture(r) PROVE AgeInv'
    <3>1. req[r] \in Request /\ req[r].stage = "capture"
      BY <2>0, <2>8, ActiveRequest DEF Capture, At, Stage
    <3> DEFINE q == [req[r] EXCEPT !.captured = clock, !.todo = Siblings(req[r].key),
                                   !.stage = "store"]
    <3>2. AgedRequest(q, clock)
      BY <2>0, <3>1 DEF AgedRequest, Stage, Request
    <3>3. req' = [req EXCEPT ![r] = q]
      BY <2>8 DEF Capture
    <3> HIDE DEF q
    <3>4. \A x \in Requests : AgedRequest(req'[x], clock')
      BY <2>8, <3>2, <3>3, OneAgedRequest DEF Capture
    <3> QED
      BY <2>0, <2>8, <3>4 DEF Capture, AgeInv
  <2>9. ASSUME NEW r \in Requests, StoreSibling(r) PROVE AgeInv'
    <3>1. req[r] \in Request /\ req[r].stage = "store"
      BY <2>0, <2>9, ActiveRequest DEF StoreSibling, At, Stage
    <3>2. PICK k \in req[r].todo :
            Put(k, r, ttl[k]) /\ req' = [req EXCEPT ![r].todo = @ \ {k}]
      BY <2>9 DEF StoreSibling
    <3>3. k \in Keys
      BY <3>1, <3>2 DEF Request
    <3> DEFINE q == [req[r] EXCEPT !.todo = @ \ {k}]
    <3>4. AgedRequest(q, clock)
      BY <2>0, <3>1 DEF AgedRequest, Request
    <3>5. req' = [req EXCEPT ![r] = q]
      BY <3>2
    <3> HIDE DEF q
    <3>6. \A x \in Requests : AgedRequest(req'[x], clock')
      BY <2>9, <3>4, <3>5, OneAgedRequest DEF StoreSibling
    <3>7. \A x \in Keys : AgedEntry(x, cache'[x])
      BY <2>0, <3>1, <3>2, <3>3, PutAged DEF Storing
    <3> QED
      BY <2>9, <3>6, <3>7 DEF StoreSibling, AgeInv
  <2>10. ASSUME NEW r \in Requests, SiblingsStored(r) PROVE AgeInv'
    <3>1. req[r] \in Request /\ req[r].stage = "store"
      BY <2>0, <2>10, ActiveRequest DEF SiblingsStored, At, Stage
    <3> DEFINE q == [req[r] EXCEPT !.stage = IF Kind[req[r].key] = "process"
                                               THEN "reply" ELSE "own"]
    <3>2. AgedRequest(q, clock)
      BY <2>0, <3>1 DEF AgedRequest, Stage, Request
    <3>3. req' = [req EXCEPT ![r] = q]
      BY <2>10 DEF SiblingsStored
    <3> HIDE DEF q
    <3>4. \A x \in Requests : AgedRequest(req'[x], clock')
      BY <2>10, <3>2, <3>3, OneAgedRequest DEF SiblingsStored
    <3> QED
      BY <2>0, <2>10, <3>4 DEF SiblingsStored, AgeInv
  <2>11. ASSUME NEW r \in Requests, StoreOwn(r) PROVE AgeInv'
    <3>1. req[r] \in Request /\ req[r].stage = "own"
      BY <2>0, <2>11, ActiveRequest DEF StoreOwn, At, Stage
    <3>2. req[r].key \in Keys
      BY <3>1 DEF Request
    <3>3. PICK t \in TTLs : req[r].ttl = t[req[r].key]
      BY <2>0, <3>1 DEF AgedRequest
    <3> DEFINE q == [req[r] EXCEPT !.stage = "reply"]
    <3>4. AgedRequest(q, clock)
      BY <3>1 DEF AgedRequest, Request
    <3>5. req' = [req EXCEPT ![r] = q]
      BY <2>11 DEF StoreOwn
    <3> HIDE DEF q
    <3>6. \A x \in Requests : AgedRequest(req'[x], clock')
      BY <2>11, <3>4, <3>5, OneAgedRequest DEF StoreOwn
    <3>7. \A x \in Keys : AgedEntry(x, cache'[x])
      BY <2>11, <3>1, <3>2, <3>3, PutAged DEF StoreOwn, Storing
    <3> QED
      BY <2>11, <3>6, <3>7 DEF StoreOwn, AgeInv
  <2>12. ASSUME NEW r \in Requests, Reply(r) \/ Fail(r) PROVE AgeInv'
    <3>1. AgedRequest(Idle, clock)
      BY DEF AgedRequest, Idle
    <3>2. \A x \in Requests : AgedRequest(req'[x], clock')
      BY <2>12, <3>1, OneAgedRequest DEF Reply, Fail
    <3> QED
      BY <2>0, <2>12, <3>2 DEF Reply, Fail, AgeInv
  <2>13. CASE GatherStats \/ Gathered \/ RefreshSmartIfDue \/ SetLiveCurrentTTLs
    BY <2>0, <2>13 DEF GatherStats, Gathered, RefreshSmartIfDue, SetLiveCurrentTTLs, AgeInv
  <2>14. CASE Advance
    <3>1. clock' = clock + 1 /\ UNCHANGED <<ttl, cache, req, holder, smart>>
          /\ \A r \in Requests : Storing(r) => clock < req[r].captured + MaxStoreDelay
      BY <2>14 DEF Advance
    <3>2. ASSUME NEW r \in Requests PROVE AgedRequest(req[r], clock + 1)
      <4>1. Storing(r) => req[r] \in Request
        BY <2>0, ActiveRequest DEF Storing, Stage
      <4>2. Storing(r) => req[r].captured + MaxStoreDelay \in Int
        BY <2>0, <4>1 DEF Request, Time
      <4>3. Storing(r) => clock + 1 <= req[r].captured + MaxStoreDelay
        BY <2>0, <3>1, <4>2
      <4> QED
        BY <2>0, <4>3 DEF AgedRequest, Storing
    <3> QED
      BY <2>0, <3>1, <3>2 DEF AgeInv
  <2>15. CASE UNCHANGED vars
    BY <2>0, <2>15 DEF vars, AgeInv
  <2> QED
    BY <2>1, <2>2, <2>3, <2>4, <2>5, <2>6, <2>7, <2>8, <2>9, <2>10, <2>11, <2>12,
       <2>13, <2>14, <2>15 DEF Next, RequestStep

\* AgeInv holds in every reachable state.
THEOREM AgesKnown == Spec => []AgeInv
<1>1. Init /\ TypeOK => AgeInv
  BY DEF Init, AgeInv, AgedEntry, AgedRequest, Idle
<1> QED
  BY <1>1, AgeStep, TypeCorrect, PTL DEF Spec

\* A step of one request leaves the others where they are.
LEMMA OthersStay ==
  ASSUME TypeOK, NEW x \in Requests, NEW r \in Requests, r # x,
         Begin(x) \/ RequestStep(x) \/ Lock(x) \/ Fail(x)
  PROVE  req'[r] = req[r]
<1>1. CASE Begin(x) \/ Refresh(x) \/ ReadTTL(x) \/ Lookup(x) \/ Lock(x) \/ Collected(x)
  BY <1>1 DEF TypeOK, Begin, Refresh, ReadTTL, Lookup, Lock, Collected
<1>2. CASE Sample(x) \/ Capture(x) \/ StoreSibling(x) \/ SiblingsStored(x) \/ StoreOwn(x)
           \/ Reply(x) \/ Fail(x)
  BY <1>2 DEF TypeOK, Sample, Capture, StoreSibling, SiblingsStored, StoreOwn, Reply, Fail
<1> QED
  BY <1>1, <1>2 DEF RequestStep

\* A request that goes from its lookup to its answer found a valid entry.
LEMMA AnswersAreValid ==
  ASSUME TypeOK, Next, NEW r \in Requests,
         At(r, "lookup"), req'[r] # req[r], req'[r].stage = "reply"
  PROVE  Valid(req[r].key) /\ req[r] \in Request
<1>1. PICK x \in Requests : Begin(x) \/ RequestStep(x) \/ Lock(x) \/ Fail(x)
  BY DEF Next, GatherStats, Gathered, RefreshSmartIfDue, SetLiveCurrentTTLs, Advance
<1>2. x = r
  BY <1>1, OthersStay
<1>3. ~ Fail(r)
  BY DEF TypeOK, Fail, Idle
<1>4. Lookup(r)
  BY <1>1, <1>2, <1>3 DEF At, Begin, RequestStep, Lock, Refresh, ReadTTL, Collected, Sample,
                          Capture, StoreSibling, SiblingsStored, StoreOwn, Reply
<1>5. req[r] \in Request
  BY ActiveRequest DEF At, Stage
<1>6. ASSUME ~ Valid(req[r].key) PROVE FALSE
  <2>1. req' = [req EXCEPT ![r] = [@ EXCEPT !.stage = CollectStage(req[r].key)]]
    BY <1>4, <1>6 DEF Lookup
  <2>2. req'[r].stage = CollectStage(req[r].key)
    BY <1>5, <2>1 DEF TypeOK, Request
  <2> QED
    BY <2>2 DEF CollectStage
<1> QED
  BY <1>5, <1>6

(***************************************************************************)
(* BoundedAge for any plugins, TTLs, reloads and number of requests: an    *)
(* answer from the cache is at most as old as a TTL configured for its     *)
(* plugin and the time that storing an entry may take.                     *)
(***************************************************************************)
THEOREM AgesAreBounded == Spec => BoundedAge
<1> DEFINE Bounded ==
      \A r \in Requests : At(r, "lookup") /\ req'[r] # req[r] /\ req'[r].stage = "reply" =>
        \E t \in TTLs : clock - cache[req[r].key].captured <= t[req[r].key] + MaxStoreDelay
<1>1. AgeInv /\ [Next]_vars => [Bounded]_vars
  <2> SUFFICES ASSUME AgeInv, Next, NEW r \in Requests,
                      At(r, "lookup"), req'[r] # req[r], req'[r].stage = "reply"
               PROVE  \E t \in TTLs :
                        clock - cache[req[r].key].captured <= t[req[r].key] + MaxStoreDelay
    BY DEF vars
  <2> DEFINE k == req[r].key
  <2>1. Valid(k) /\ k \in Keys
    BY AnswersAreValid DEF AgeInv, Request
  <2>2. cache[k] # None /\ clock <= cache[k].expires
    BY <2>1 DEF Valid
  <2>3. PICK t \in TTLs : 0 < t[k] /\ cache[k].expires <= cache[k].captured + MaxStoreDelay + t[k]
    BY <2>1, <2>2 DEF AgeInv, AgedEntry
  <2>4. cache[k] \in Entry /\ clock \in Int /\ t[k] \in Int /\ MaxStoreDelay \in Int
    BY <2>1, <2>2, TTLAssumption, TimeAssumption DEF AgeInv, TypeOK, Time
  <2>5. cache[k].captured \in Int /\ cache[k].expires \in Int
    BY <2>4 DEF Entry, Time
  <2>6. clock - cache[k].captured <= t[k] + MaxStoreDelay
    BY <2>2, <2>3, <2>4, <2>5
  <2> QED
    BY <2>6
<1> QED
  BY <1>1, AgesKnown, PTL DEF BoundedAge, Spec

(***************************************************************************)
(* ZeroDisablesCaching for any plugins, TTLs, reloads and requests: a      *)
(* plugin whose TTL is always 0 never gets an entry, so every request for  *)
(* it collects, whatever is collected for other plugins.                   *)
(***************************************************************************)
THEOREM ZeroMeansUncached == Spec => ZeroDisablesCaching
<1> DEFINE Uncached == \A r \in Requests : Hits(r) => \E t \in TTLs : t[req[r].key] # 0
<1>1. AgeInv /\ [Next]_vars => [Uncached]_vars
  <2> SUFFICES ASSUME AgeInv, NEW r \in Requests, Hits(r)
               PROVE  \E t \in TTLs : t[req[r].key] # 0
    BY DEF vars
  <2>1. req[r] \in Request /\ Valid(req[r].key)
    BY ActiveRequest DEF AgeInv, Hits, At, Stage
  <2>2. PICK t \in TTLs : 0 < t[req[r].key]
    BY <2>1 DEF Valid, AgeInv, AgedEntry, Request
  <2> QED
    BY <2>2, <2>1, TTLAssumption DEF Request
<1> QED
  BY <1>1, AgesKnown, PTL DEF ZeroDisablesCaching, Spec
=============================================================================
