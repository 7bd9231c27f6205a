------------------------- MODULE DockerStatsProofs -------------------------
(***************************************************************************)
(* Proofs about DockerStats, for any number of containers, intervals and   *)
(* tokens: workers stay within their call, tokens come back, rates are     *)
(* exact, and answers hold no values of an earlier call.                   *)
(***************************************************************************)
EXTENDS DockerStats, FiniteSetTheorems, TLAPS

(***************************************************************************)
(* The containers of a call that are still to be read: of the list, of the *)
(* loop, queued, at work, or noted for the second round.                   *)
(***************************************************************************)
Queued == IF call.stage = "queue" THEN {call.next} ELSE {}
Noted == IF call.round = 1 THEN call.failed ELSE {}
Pending == IF call.stage = "list" THEN Containers
                                  ELSE call.todo \cup Queued \cup Active \cup Noted

\* A container is in one of those places only, and between calls in none.
PlacesAreDisjoint ==
  /\ call.todo \cap (Queued \cup Active \cup Noted) = {}
  /\ Queued \cap (Active \cup Noted) = {}
  /\ Active \cap Noted = {}
  /\ call.stage \in {"idle", "list"} => call.todo = {} /\ call.failed = {}

\* Without a limit no tokens are taken, and with it workers cover them.
TokensInv == (~ limited => tokens = 0) /\ TokensComeBack

PoolInv == TypeOK /\ NoWorkerOutlivesCall /\ PlacesAreDisjoint /\ TokensInv

(***************************************************************************)
(* The readings of container c for interval i: when there are both, the    *)
(* bytes read last were read at the last time, and so were the bytes of    *)
(* the call before, unless a call was cancelled in between.                *)
(***************************************************************************)
Bytes(i, c) == previous[i][c]
NewBytes(i, c) == current[i][c]
Time(i, c) == readTime[i][c]
ReadingsAgree(i, c) ==
  /\ Time(i, c) = 0 \/ NewBytes(i, c) = 0 \/ NewBytes(i, c) = Time(i, c)
  /\ \/ Time(i, c) = 0 \/ Bytes(i, c) = 0 \/ Bytes(i, c) = Time(i, c)
     \/ Bytes(i, c) < Time(i, c) /\ Time(i, c) \notin answered

\* No reading is of a call to come, nor of this one where it is still to be made.
ReadingsInOrder(i, c) ==
  /\ Time(i, c) <= call.n /\ NewBytes(i, c) <= call.n /\ Bytes(i, c) <= call.n
  /\ ~ At("idle") => Bytes(i, c) < call.n
  /\ ~ At("idle") /\ (i # call.interval \/ c \in Pending) => Time(i, c) < call.n

\* No call is answered before its end, and no rate is from a time of this call.
CallsInOrder ==
  /\ \A n \in answered : n <= call.n
  /\ ~ At("idle") => call.n \notin answered
  /\ \A c \in Containers : stats[c] # None =>
       stats[c].timeFrom <= call.n /\ (~ At("idle") => stats[c].timeFrom < call.n)

RatesFacts ==
  /\ \A i \in Intervals, c \in Containers : ReadingsAgree(i, c) /\ ReadingsInOrder(i, c)
  /\ CallsInOrder
  /\ RatesAreExact

RatesInv == PoolInv /\ RatesFacts

-----------------------------------------------------------------------------
\* What the moves within GetStats do to the state of the call.
LEMMA CallMoves ==
  ASSUME TypeOK
  PROVE  /\ \A s \in Stage : GoTo(s) =>
              /\ call' \in Call /\ call'.stage = s
              /\ call'.n = call.n /\ call'.round = call.round /\ call'.interval = call.interval
              /\ call'.todo = call.todo /\ call'.failed = call.failed
              /\ call'.cancelled = call.cancelled /\ call'.next = call.next
         /\ Return =>
              /\ call' \in Call /\ call'.stage = "idle" /\ call'.todo = {} /\ call'.failed = {}
              /\ call'.n = call.n /\ call'.round = 1 /\ call'.interval = call.interval
              /\ call'.cancelled = FALSE /\ call'.next = call.next
<1>1. call \in Call
  BY DEF TypeOK
<1>2. ASSUME NEW s \in Stage, GoTo(s)
      PROVE  /\ call' \in Call /\ call'.stage = s
             /\ call'.n = call.n /\ call'.round = call.round /\ call'.interval = call.interval
             /\ call'.todo = call.todo /\ call'.failed = call.failed
             /\ call'.cancelled = call.cancelled /\ call'.next = call.next
  BY <1>1, <1>2 DEF Call, GoTo
<1>3. ASSUME Return
      PROVE  /\ call' \in Call /\ call'.stage = "idle" /\ call'.todo = {} /\ call'.failed = {}
             /\ call'.n = call.n /\ call'.round = 1 /\ call'.interval = call.interval
             /\ call'.cancelled = FALSE /\ call'.next = call.next
  BY <1>1, <1>3 DEF Call, Return, Stage
<1> QED
  BY <1>2, <1>3

\* The state is well typed: no queue without a container, no reading of a later call.
THEOREM TypeCorrect == Spec => []TypeOK
<1>1. Init => TypeOK
  BY ContainersAssumption, CapacityAssumption, MaxCallsAssumption
  DEF Init, TypeOK, Call, Stage, Calls, Readings, NoReadings
<1>2. TypeOK /\ [Next]_vars => TypeOK'
  <2> SUFFICES ASSUME TypeOK, [Next]_vars PROVE TypeOK'
    OBVIOUS
  <2> USE ContainersAssumption, CapacityAssumption, MaxCallsAssumption
      DEF TypeOK, engine, pool, readings, Calls
  <2>1. CASE Begin
    <3>1. PICK i \in Intervals :
            call' = [call EXCEPT !.stage = "list", !.n = @ + 1, !.interval = i]
      BY <2>1 DEF Begin
    <3>2. call.n + 1 \in 0 .. MaxCalls
      BY <2>1 DEF Begin, Call
    <3>3. call' \in Call /\ call'.stage = "list"
      BY <3>1, <3>2 DEF Call, Stage
    <3> QED
      BY <2>1, <3>3 DEF Begin
  <2>2. CASE Cancel
    BY <2>2 DEF Cancel, Call
  <2>3. CASE List
    BY <2>3, CallMoves DEF List, DecodeFails, Call, Stage
  <2>4. CASE EnsureVersionChecked
    BY <2>4, CallMoves DEF EnsureVersionChecked, DecodeFails, Stage
  <2>5. CASE ResetValid
    BY <2>5, CallMoves DEF ResetValid, Stage
  <2>6. ASSUME NEW c \in Containers, Admit(c) PROVE TypeOK'
    <3>1. call' \in Call /\ call'.next = c
      BY <2>6 DEF Admit, Call, Stage
    <3>2. stats' \in [Containers -> Stats \cup {None}]
      BY <2>6 DEF Admit
    <3>3. readTime' \in [Intervals -> Readings]
      BY <2>6 DEF Admit, Readings
    <3> QED
      BY <2>6, <3>1, <3>2, <3>3 DEF Admit
  <2>7. ASSUME NEW c \in Containers, Retry(c) PROVE TypeOK'
    BY <2>7 DEF Retry, Call, Stage
  <2>8. CASE LoopEnds
    BY <2>8, CallMoves DEF LoopEnds, Stage
  <2>9. CASE Queue
    <3>1. call' \in Call /\ call'.stage # "queue"
      <4>1. CASE call' = [call EXCEPT !.stage = "loop", !.next = None]
        BY <4>1 DEF Call, Stage
      <4>2. CASE call' = [call EXCEPT !.stage = "abort", !.next = None]
        BY <4>2 DEF Call, Stage
      <4> QED
        BY <2>9, <4>1, <4>2 DEF Queue
    <3>2. tokens' \in 0 .. Capacity
      BY <2>9 DEF Queue
    <3>3. worker' \in [Containers -> {"off", "request", "update"}]
      BY <2>9 DEF Queue
    <3> QED
      BY <2>9, <3>1, <3>2, <3>3 DEF Queue
  <2>10. CASE Wait
    <3>1. CASE Return
      BY <2>10, <3>1, CallMoves DEF Wait
    <3>2. CASE call' = [call EXCEPT !.stage = "loop", !.round = 2, !.todo = call.failed]
      BY <2>10, <3>2 DEF Wait, Call, Stage
    <3>3. CASE GoTo("answer")
      BY <2>10, <3>3, CallMoves DEF Wait, Stage
    <3> QED
      BY <2>10, <3>1, <3>2, <3>3 DEF Wait
  <2>11. CASE Abort
    BY <2>11, CallMoves DEF Abort
  <2>12. CASE Answer
    <3>1. call' \in Call /\ call'.stage = "idle"
      BY <2>12, CallMoves DEF Answer
    <3>2. stats' \in [Containers -> Stats \cup {None}]
      BY <2>12 DEF Answer
    <3>3. current' \in [Intervals -> Readings] /\ previous' \in [Intervals -> Readings]
      BY <2>12 DEF Answer, Readings, NoReadings, Call
    <3>4. answered' \in SUBSET (0 .. MaxCalls)
      BY <2>12 DEF Answer, Call
    <3> QED
      BY <2>12, <3>1, <3>2, <3>3, <3>4 DEF Answer
  <2>13. ASSUME NEW c \in Containers, Request(c) PROVE TypeOK'
    <3>1. call' \in Call /\ (call'.stage = "queue" => call'.next \in Containers)
      BY <2>13 DEF Request, Fail, Call
    <3>2. stats' \in [Containers -> Stats \cup {None}]
      BY <2>13 DEF Request, Fail
    <3>3. worker' \in [Containers -> {"off", "request", "update"}] /\ releasing' \in Nat
      BY <2>13 DEF Request, Leave
    <3> QED
      BY <2>13, <3>1, <3>2, <3>3 DEF Request, Leave
  <2>14. ASSUME NEW c \in Containers, Update(c) PROVE TypeOK'
    <3>0. Reading(c) \in Stats /\ Zero \in Stats /\ call.n \in 0 .. MaxCalls
      BY DEF Reading, Zero, Stats, Call, Readings
    <3>1. call' \in Call /\ (call'.stage = "queue" => call'.next \in Containers)
      BY <2>14 DEF Update, Fail, Call
    <3>2. stats' \in [Containers -> Stats \cup {None}]
      BY <2>14, <3>0 DEF Update, Fail
    <3>3. worker' \in [Containers -> {"off", "request", "update"}] /\ releasing' \in Nat
      BY <2>14 DEF Update, Leave
    <3>4. current' \in [Intervals -> Readings]
      <4>1. CASE UNCHANGED current
        BY <4>1
      <4>2. CASE current' = [current EXCEPT ![call.interval][c] = call.n]
        BY <3>0, <4>2 DEF Call, Readings
      <4> QED
        BY <2>14, <4>1, <4>2 DEF Update
    <3>5. readTime' \in [Intervals -> Readings]
      <4>1. CASE UNCHANGED readTime
        BY <4>1
      <4>2. CASE readTime' = [readTime EXCEPT ![call.interval][c] = call.n]
        BY <3>0, <4>2 DEF Call, Readings
      <4> QED
        BY <2>14, <4>1, <4>2 DEF Update
    <3> QED
      BY <2>14, <3>1, <3>2, <3>3, <3>4, <3>5 DEF Update, DecodeFails, Leave
  <2>15. CASE Release
    BY <2>15 DEF Release
  <2>16. CASE UNCHANGED vars
    BY <2>16 DEF vars
  <2> QED
    BY <2>1, <2>2, <2>3, <2>4, <2>5, <2>6, <2>7, <2>8, <2>9, <2>10, <2>11, <2>12, <2>13,
       <2>14, <2>15, <2>16 DEF Next, Main
<1> QED
  BY <1>1, <1>2, PTL DEF Spec

-----------------------------------------------------------------------------
\* A worker that leaves is one less, and one that starts is one more.
LEMMA ActiveCount ==
  ASSUME TypeOK
  PROVE  /\ Cardinality(Active) \in Nat
         /\ \A c \in Active : worker' = [worker EXCEPT ![c] = "off"] =>
              /\ Active' = Active \ {c}
              /\ Cardinality(Active') = Cardinality(Active) - 1
         /\ \A c \in Containers \ Active : worker' = [worker EXCEPT ![c] = "request"] =>
              /\ Active' = Active \cup {c}
              /\ Cardinality(Active') = Cardinality(Active) + 1
         /\ \A c \in Active : worker' = [worker EXCEPT ![c] = "update"] => Active' = Active
<1>1. IsFiniteSet(Active)
  BY ContainersAssumption, FS_Subset DEF Active
<1>2. Cardinality(Active) \in Nat
  BY <1>1, FS_CardinalityType
<1>3. ASSUME NEW c \in Active, worker' = [worker EXCEPT ![c] = "off"]
      PROVE  Active' = Active \ {c} /\ Cardinality(Active') = Cardinality(Active) - 1
  <2>1. Active' = Active \ {c}
    BY <1>3 DEF Active, TypeOK
  <2> QED
    BY <1>1, <2>1, FS_RemoveElement
<1>4. ASSUME NEW c \in Containers \ Active, worker' = [worker EXCEPT ![c] = "request"]
      PROVE  Active' = Active \cup {c} /\ Cardinality(Active') = Cardinality(Active) + 1
  <2>1. Active' = Active \cup {c}
    BY <1>4 DEF Active, TypeOK
  <2> QED
    BY <1>1, <1>4, <2>1, FS_AddElement
<1>5. ASSUME NEW c \in Active, worker' = [worker EXCEPT ![c] = "update"]
      PROVE  Active' = Active
  BY <1>5 DEF Active, TypeOK
<1> QED
  BY <1>2, <1>3, <1>4, <1>5

\* Tokens are taken by workers that start, and given back by those that dequeue.
LEMMA TokensStep ==
  ASSUME PoolInv, [Next]_vars
  PROVE  TokensInv'
<1> USE DEF PoolInv, TokensInv, TokensComeBack, Workers, engine, pool
<1>0. tokens \in Nat /\ releasing \in Nat /\ limited \in BOOLEAN /\ Cardinality(Active) \in Nat
  BY ActiveCount, CapacityAssumption DEF TypeOK
<1>1. ASSUME UNCHANGED <<worker, tokens, releasing>>, limited' \in {limited, TRUE} PROVE TokensInv'
  BY <1>1 DEF Active
<1>2. CASE Queue
  <2>1. CASE UNCHANGED <<tokens, worker>>
    BY <1>1, <1>2, <2>1 DEF Queue
  <2>2. CASE worker' = [worker EXCEPT ![call.next] = "request"]
    <3>1. call.next \in Containers \ Active
      BY <1>2 DEF Queue, At, PlacesAreDisjoint, Queued, TypeOK
    <3>2. Cardinality(Active') = Cardinality(Active) + 1
      BY <2>2, <3>1, ActiveCount
    <3> QED
      BY <1>0, <1>2, <2>2, <3>2 DEF Queue
  <2> QED
    BY <1>2, <2>1, <2>2 DEF Queue
<1>3. ASSUME NEW c \in Containers, Request(c) \/ Update(c) PROVE TokensInv'
  <2>1. c \in Active
    BY <1>3 DEF Request, Update, Active
  <2>2. CASE worker' = [worker EXCEPT ![c] = "update"] /\ UNCHANGED releasing
    <3>1. Active' = Active
      BY <2>1, <2>2, ActiveCount
    <3>2. UNCHANGED <<limited, tokens>>
      BY <1>3 DEF Request, Update, Leave
    <3> QED
      BY <1>0, <2>2, <3>1, <3>2
  <2>3. CASE Leave(c)
    <3>1. Cardinality(Active') = Cardinality(Active) - 1
      BY <2>1, <2>3, ActiveCount DEF Leave
    <3>2. UNCHANGED <<limited, tokens>> /\ releasing' = releasing + 1
      BY <1>3, <2>3 DEF Request, Update, Leave
    <3> QED
      BY <1>0, <3>1, <3>2
  <2> QED
    BY <1>3, <2>2, <2>3 DEF Request, Update
<1>4. CASE Release
  <2>1. Active' = Active
    BY <1>4 DEF Release, Active
  <2> QED
    BY <1>0, <1>4, <2>1 DEF Release
<1>5. CASE List \/ EnsureVersionChecked
  BY <1>1, <1>5 DEF List, EnsureVersionChecked
<1>6. CASE Begin \/ Cancel \/ ResetValid \/ LoopEnds \/ Wait \/ Abort \/ Answer \/ UNCHANGED vars
  BY <1>1, <1>6 DEF Begin, Cancel, ResetValid, LoopEnds, Wait, Abort, Answer, vars
<1>7. ASSUME NEW c \in Containers, Admit(c) \/ Retry(c) PROVE TokensInv'
  BY <1>1, <1>7 DEF Admit, Retry
<1> QED
  BY <1>2, <1>3, <1>4, <1>5, <1>6, <1>7 DEF Next, Main

\* Containers move from place to place; a call ends when its workers have left.
LEMMA PlacesStep ==
  ASSUME PoolInv, [Next]_vars
  PROVE  (NoWorkerOutlivesCall /\ PlacesAreDisjoint)'
<1> SUFFICES ASSUME TypeOK, NoWorkerOutlivesCall, PlacesAreDisjoint
             PROVE  (NoWorkerOutlivesCall /\ PlacesAreDisjoint)'
  BY DEF PoolInv
<1> USE DEF NoWorkerOutlivesCall, PlacesAreDisjoint, Queued, Noted, pool, At
<1>0. call \in Call
  BY DEF TypeOK
<1>w. UNCHANGED worker => Active' = Active
  BY DEF Active
<1>1. CASE Begin
  BY <1>0, <1>1, <1>w DEF Begin, Call
<1>2. CASE Cancel
  BY <1>0, <1>2, <1>w DEF Cancel, Call
<1>3. CASE List
  <2>1. CASE Return
    BY <1>3, <1>w, <2>1, CallMoves DEF List
  <2>2. ASSUME NEW cs \in SUBSET Containers,
               call' = [call EXCEPT !.stage = "version", !.todo = cs]
        PROVE  (NoWorkerOutlivesCall /\ PlacesAreDisjoint)'
    <3>1. call'.stage = "version" /\ call'.todo = cs /\ call'.failed = call.failed
      BY <1>0, <2>2 DEF Call
    <3>2. Active = {} /\ call.failed = {}
      BY <1>3 DEF List
    <3> QED
      BY <1>3, <1>w, <3>1, <3>2 DEF List
  <2> QED
    BY <1>3, <2>1, <2>2 DEF List
<1>4. CASE EnsureVersionChecked
  BY <1>4, <1>w, CallMoves DEF EnsureVersionChecked, Stage
<1>5. CASE ResetValid
  BY <1>5, <1>w, CallMoves DEF ResetValid, Stage
<1>6. ASSUME NEW c \in Containers, Admit(c) \/ Retry(c)
      PROVE  (NoWorkerOutlivesCall /\ PlacesAreDisjoint)'
  <2>1. /\ call'.stage = "queue" /\ call'.todo = call.todo \ {c} /\ call'.next = c
        /\ call'.failed = call.failed /\ call'.round = call.round
    BY <1>0, <1>6 DEF Admit, Retry, Call
  <2> QED
    BY <1>6, <1>w, <2>1 DEF Admit, Retry
<1>7. CASE LoopEnds
  BY <1>7, <1>w, CallMoves DEF LoopEnds, Stage
<1>8. CASE Queue
  <2>1. /\ call'.stage \in {"loop", "abort"} /\ call'.todo = call.todo
        /\ call'.failed = call.failed /\ call'.round = call.round
    BY <1>0, <1>8 DEF Queue, Call
  <2>2. Active' \subseteq Active \cup {call.next}
    BY <1>8 DEF Queue, Active, TypeOK
  <2> QED
    BY <1>8, <2>1, <2>2 DEF Queue
<1>9. CASE Wait
  <2>1. CASE Return
    BY <1>9, <1>w, <2>1, CallMoves DEF Wait
  <2>2. CASE call' = [call EXCEPT !.stage = "loop", !.round = 2, !.todo = call.failed]
    <3>1. call'.stage = "loop" /\ call'.round = 2
      BY <1>0, <2>2 DEF Call
    <3> QED
      BY <1>9, <1>w, <3>1 DEF Wait
  <2>3. CASE GoTo("answer")
    BY <1>9, <1>w, <2>3, CallMoves DEF Wait, Stage
  <2> QED
    BY <1>9, <2>1, <2>2, <2>3 DEF Wait
<1>10. CASE Abort \/ Answer
  BY <1>10, <1>w, CallMoves DEF Abort, Answer
<1>11. ASSUME NEW c \in Containers, Request(c) \/ Update(c)
       PROVE  (NoWorkerOutlivesCall /\ PlacesAreDisjoint)'
  <2>1. c \in Active
    BY <1>11 DEF Request, Update, Active
  <2>2. CASE UNCHANGED call
    <3>1. Active' \subseteq Active
      BY <1>11, <2>1, ActiveCount DEF Request, Update, Leave
    <3> QED
      BY <2>2, <3>1
  <2>3. CASE Leave(c) /\ call.round = 1 /\ call' = [call EXCEPT !.failed = @ \cup {c}]
    <3>1. Active' = Active \ {c}
      BY <2>1, <2>3, ActiveCount DEF Leave
    <3>2. /\ call'.stage = call.stage /\ call'.todo = call.todo /\ call'.next = call.next
          /\ call'.round = call.round /\ call'.failed = call.failed \cup {c}
      BY <1>0, <2>3 DEF Call
    <3> QED
      BY <2>1, <2>3, <3>1, <3>2
  <2> QED
    BY <1>11, <2>2, <2>3 DEF Request, Update, Fail
<1>12. CASE Release \/ UNCHANGED vars
  BY <1>12, <1>w DEF Release, vars
<1> QED
  BY <1>1, <1>2, <1>3, <1>4, <1>5, <1>6, <1>7, <1>8, <1>9, <1>10, <1>11, <1>12 DEF Next, Main

\* The invariant of the workers and their tokens.
THEOREM PoolInvariant == Spec => []PoolInv
<1>1. Init => PoolInv
  <2> SUFFICES ASSUME Init PROVE NoWorkerOutlivesCall /\ PlacesAreDisjoint /\ TokensInv /\ TypeOK
    BY DEF PoolInv
  <2>1. Active = {}
    BY DEF Init, Active
  <2>2. PICK i \in Intervals :
          call = [stage |-> "idle", n |-> 0, interval |-> i, cancelled |-> FALSE, round |-> 1,
                  todo |-> {}, next |-> None, failed |-> {}]
    BY DEF Init
  <2>3. NoWorkerOutlivesCall /\ PlacesAreDisjoint
    BY <2>1, <2>2 DEF NoWorkerOutlivesCall, PlacesAreDisjoint, Queued, Noted
  <2>4. TokensInv
    BY <2>1, FS_EmptySet DEF Init, TokensInv, TokensComeBack, Workers
  <2>5. TypeOK
    BY ContainersAssumption, CapacityAssumption, MaxCallsAssumption
    DEF Init, TypeOK, Call, Stage, Calls, Readings, NoReadings
  <2> QED
    BY <2>3, <2>4, <2>5
<1>2. PoolInv /\ TypeOK' /\ [Next]_vars => PoolInv'
  BY PlacesStep, TokensStep DEF PoolInv
<1> QED
  BY <1>1, <1>2, TypeCorrect, PTL DEF Spec

(***************************************************************************)
(* No worker outlives its call, whatever the order of failures and         *)
(* cancellations: GetStats waits on every path.                            *)
(***************************************************************************)
THEOREM WorkersStayInCall == Spec => []NoWorkerOutlivesCall
  BY PoolInvariant, PTL DEF PoolInv

\* Every token is one that a worker will give back, so queue never waits in vain.
THEOREM AllTokensComeBack == Spec => []TokensComeBack
  BY PoolInvariant, PTL DEF PoolInv, TokensInv

\* Once the engine is known to be limited, workers without a token never get more.
THEOREM LimitHolds == Spec => WorkersAreLimited
<1>1. PoolInv /\ [Next]_vars => [limited => Workers' - tokens' <= Workers - tokens]_vars
  <2> SUFFICES ASSUME PoolInv, limited, Next PROVE Workers' - tokens' <= Workers - tokens
    BY DEF vars, Workers, Active
  <2> USE DEF Workers, pool, engine
  <2>0. TypeOK /\ tokens \in Nat /\ releasing \in Nat /\ Cardinality(Active) \in Nat
    BY ActiveCount, CapacityAssumption DEF PoolInv, TypeOK
  <2>1. ASSUME UNCHANGED <<worker, tokens, releasing>> PROVE Workers' - tokens' <= Workers - tokens
    BY <2>0, <2>1 DEF Active
  <2>2. CASE Queue
    <3>1. CASE UNCHANGED <<tokens, worker>>
      BY <2>1, <2>2, <3>1 DEF Queue
    <3>2. CASE tokens' = tokens + 1 /\ worker' = [worker EXCEPT ![call.next] = "request"]
      <4>1. call.next \in Containers \ Active
        BY <2>2 DEF PoolInv, Queue, At, PlacesAreDisjoint, Queued, TypeOK
      <4>2. Cardinality(Active') = Cardinality(Active) + 1
        BY <2>0, <3>2, <4>1, ActiveCount
      <4> QED
        BY <2>0, <2>2, <3>2, <4>2 DEF Queue
    <3> QED
      BY <2>2, <3>1, <3>2 DEF Queue
  <2>3. ASSUME NEW c \in Containers, Request(c) \/ Update(c)
        PROVE  Workers' - tokens' <= Workers - tokens
    <3>1. c \in Active
      BY <2>3 DEF Request, Update, Active
    <3>2. CASE worker' = [worker EXCEPT ![c] = "update"] /\ UNCHANGED <<tokens, releasing>>
      <4>1. Active' = Active
        BY <2>0, <3>1, <3>2, ActiveCount
      <4> QED
        BY <2>0, <3>2, <4>1
    <3>3. CASE Leave(c)
      <4>1. Cardinality(Active') = Cardinality(Active) - 1
        BY <2>0, <3>1, <3>3, ActiveCount DEF Leave
      <4> QED
        BY <2>0, <3>3, <4>1 DEF Leave
    <3> QED
      BY <2>3, <3>2, <3>3 DEF Request, Update
  <2>4. CASE Release
    <3>1. Active' = Active
      BY <2>4 DEF Release, Active
    <3> QED
      BY <2>0, <2>4, <3>1 DEF Release
  <2>5. CASE Begin \/ Cancel \/ List \/ EnsureVersionChecked \/ ResetValid \/ LoopEnds \/ Wait
             \/ Abort \/ Answer
    BY <2>1, <2>5
    DEF Begin, Cancel, List, EnsureVersionChecked, ResetValid, LoopEnds, Wait, Abort, Answer
  <2>6. ASSUME NEW c \in Containers, Admit(c) \/ Retry(c)
        PROVE  Workers' - tokens' <= Workers - tokens
    BY <2>1, <2>6 DEF Admit, Retry
  <2> QED
    BY <2>2, <2>3, <2>4, <2>5, <2>6 DEF Next, Main
<1> QED
  BY <1>1, PoolInvariant, PTL DEF Spec, WorkersAreLimited

-----------------------------------------------------------------------------
\* A container that is no longer to be read stays so until the next call.
LEMMA PendingShrinks ==
  ASSUME PoolInv, TypeOK', Next, ~ Begin
  PROVE  /\ Pending' \subseteq Pending
         /\ \A c \in Active : Leave(c) /\ UNCHANGED call => c \notin Pending'
<1> USE DEF Pending, Queued, Noted, pool, At
<1>0. TypeOK /\ call \in Call /\ call' \in Call
  BY DEF PoolInv, TypeOK
<1>p. Pending' \subseteq Containers
  BY <1>0 DEF TypeOK, Call, Active
<1>w. UNCHANGED worker => Active' = Active
  BY DEF Active
<1>1. ASSUME List PROVE Pending' \subseteq Pending
  BY <1>1, <1>p DEF List
<1>2. ASSUME Cancel PROVE Pending' \subseteq Pending
  BY <1>0, <1>2, <1>w DEF Cancel, Call
<1>3. ASSUME EnsureVersionChecked \/ LoopEnds PROVE Pending' \subseteq Pending
  <2>1. \E s \in Stage \ {"queue", "list"} : GoTo(s)
    BY <1>3 DEF EnsureVersionChecked, LoopEnds, Stage
  <2>2. /\ call'.stage \notin {"queue", "list"} /\ call'.todo = call.todo
        /\ call'.failed = call.failed /\ call'.round = call.round
    BY <1>0, <2>1, CallMoves
  <2> QED
    BY <1>3, <1>w, <2>2 DEF EnsureVersionChecked, LoopEnds
<1>4. ASSUME ResetValid \/ Abort \/ Answer PROVE Pending' \subseteq Pending
  BY <1>0, <1>4, <1>w, CallMoves DEF ResetValid, Abort, Answer, Stage
<1>5. ASSUME NEW c \in Containers, Admit(c) \/ Retry(c) PROVE Pending' \subseteq Pending
  <2>1. /\ call'.stage = "queue" /\ call'.todo = call.todo \ {c} /\ call'.next = c
        /\ call'.failed = call.failed /\ call'.round = call.round
    BY <1>0, <1>5 DEF Admit, Retry, Call
  <2> QED
    BY <1>5, <1>w, <2>1 DEF Admit, Retry
<1>6. ASSUME Queue PROVE Pending' \subseteq Pending
  <2>1. /\ call'.stage \in {"loop", "abort"} /\ call'.todo = call.todo
        /\ call'.failed = call.failed /\ call'.round = call.round
    BY <1>0, <1>6 DEF Queue, Call
  <2>2. Active' \subseteq Active \cup {call.next}
    BY <1>0, <1>6 DEF Queue, Active, TypeOK
  <2> QED
    BY <1>6, <2>1, <2>2 DEF Queue
<1>7. ASSUME Wait PROVE Pending' \subseteq Pending
  <2>1. CASE Return
    BY <1>0, <1>7, <1>w, <2>1, CallMoves DEF Wait
  <2>2. CASE call.round = 1 /\ call' = [call EXCEPT !.stage = "loop", !.round = 2, !.todo = call.failed]
    <3>1. call'.stage = "loop" /\ call'.round = 2 /\ call'.todo = call.failed
      BY <1>0, <2>2 DEF Call
    <3> QED
      BY <1>7, <1>w, <2>2, <3>1 DEF Wait
  <2>3. CASE GoTo("answer")
    BY <1>0, <1>7, <1>w, <2>3, CallMoves DEF Wait, Stage
  <2> QED
    BY <1>7, <2>1, <2>2, <2>3 DEF Wait
<1>8. ASSUME NEW c \in Containers, Request(c) \/ Update(c) PROVE Pending' \subseteq Pending
  <2>1. c \in Active
    BY <1>8 DEF Request, Update, Active
  <2>2. CASE UNCHANGED call
    <3>1. Active' \subseteq Active
      BY <1>0, <1>8, <2>1, ActiveCount DEF Request, Update, Leave
    <3> QED
      BY <2>2, <3>1
  <2>3. CASE Leave(c) /\ call.round = 1 /\ call' = [call EXCEPT !.failed = @ \cup {c}]
    <3>1. Active' = Active \ {c}
      BY <1>0, <2>1, <2>3, ActiveCount DEF Leave
    <3>2. /\ call'.stage = call.stage /\ call'.todo = call.todo /\ call'.next = call.next
          /\ call'.round = call.round /\ call'.failed = call.failed \cup {c}
      BY <1>0, <2>3 DEF Call
    <3> QED
      BY <2>1, <2>3, <3>1, <3>2
  <2> QED
    BY <1>8, <2>2, <2>3 DEF Request, Update, Fail
<1>9. ASSUME Release PROVE Pending' \subseteq Pending
  BY <1>9, <1>w DEF Release
<1>10. ASSUME NEW c \in Active, Leave(c), UNCHANGED call PROVE c \notin Pending'
  <2>1. Active' = Active \ {c}
    BY <1>0, <1>10, ActiveCount DEF Leave
  <2>2. call.stage # "list" /\ c \notin call.todo /\ c \notin Queued /\ c \notin Noted
    BY <1>10 DEF PoolInv, NoWorkerOutlivesCall, PlacesAreDisjoint
  <2> QED
    BY <1>10, <2>1, <2>2
<1> QED
  BY <1>1, <1>2, <1>3, <1>4, <1>5, <1>6, <1>7, <1>8, <1>9, <1>10 DEF Next, Main

(***************************************************************************)
(* Steps that read no bytes: within a call they keep the baselines, except *)
(* that a container may lose its time, and its stats, or have them zeroed. *)
(***************************************************************************)
LEMMA NothingRead ==
  ASSUME RatesInv, TypeOK',
         UNCHANGED <<current, previous, answered>>,
         call'.n = call.n, call'.interval = call.interval,
         At("idle") => At("idle")',
         Pending' \subseteq Pending,
         \A c \in Containers : stats'[c] \in {stats[c], None, Zero},
         \A i \in Intervals, c \in Containers : readTime'[i][c] \in {readTime[i][c], 0}
  PROVE  RatesFacts'
<1> USE DEF RatesInv, RatesFacts, ReadingsAgree, ReadingsInOrder, Time, Bytes, NewBytes
<1>0. call.n \in Nat /\ call'.n = call.n
  BY MaxCallsAssumption DEF PoolInv, TypeOK, Call, Calls
<1>n. ASSUME NEW c \in Containers, ~ At("idle")' PROVE ~ At("idle") /\ 0 < call.n
  <2>1. call.interval \in Intervals /\ previous[call.interval][c] \in Nat
    BY MaxCallsAssumption DEF PoolInv, TypeOK, Call, Readings, Calls
  <2> QED
    BY <1>0, <1>n, <2>1
<1>1. ASSUME NEW i \in Intervals, NEW c \in Containers
      PROVE  (ReadingsAgree(i, c) /\ ReadingsInOrder(i, c))'
  <2>1. ReadingsAgree(i, c) /\ ReadingsInOrder(i, c)
    OBVIOUS
  <2> QED
    BY <1>0, <1>n, <2>1
<1>2. CallsInOrder' /\ RatesAreExact'
  <2>1. \A c \in Containers : stats'[c] # None => stats'[c] \in {stats[c], Zero}
    OBVIOUS
  <2>2. Zero.read = 0 /\ Zero.bytesFrom = 0 /\ Zero.timeFrom = 0
    BY DEF Zero
  <2>3. CallsInOrder'
    BY <1>0, <1>n, <2>1, <2>2 DEF CallsInOrder, At
  <2>4. RatesAreExact'
    BY <2>1, <2>2 DEF RatesAreExact
  <2> QED
    BY <2>3, <2>4
<1> QED
  BY <1>1, <1>2

\* A new call comes after all readings.
LEMMA BeginKeepsRates == ASSUME RatesInv, TypeOK', Begin PROVE RatesFacts'
<1> USE DEF RatesInv, RatesFacts, ReadingsAgree, ReadingsInOrder, Time, Bytes, NewBytes
<1>1. PICK j \in Intervals :
        call' = [call EXCEPT !.stage = "list", !.n = @ + 1, !.interval = j]
  BY DEF Begin
<1>2. call.n \in Nat /\ call'.n = call.n + 1 /\ At("idle")
  BY <1>1, MaxCallsAssumption DEF PoolInv, TypeOK, Call, Calls, Begin
<1>3. UNCHANGED <<stats, current, previous, readTime, answered>>
  BY DEF Begin, readings
<1>4. \A i \in Intervals, c \in Containers :
        readTime[i][c] \in Nat /\ current[i][c] \in Nat /\ previous[i][c] \in Nat
  BY MaxCallsAssumption DEF PoolInv, TypeOK, Readings, Calls
<1>5. (\A i \in Intervals, c \in Containers : ReadingsAgree(i, c) /\ ReadingsInOrder(i, c))'
  BY <1>2, <1>3, <1>4
<1>6. \A n \in answered : n \in Nat
  BY MaxCallsAssumption DEF PoolInv, TypeOK, Calls
<1>7. \A c \in Containers : stats[c] # None => stats[c].timeFrom \in Nat
  BY MaxCallsAssumption DEF PoolInv, TypeOK, Stats, Calls
<1>8. CallsInOrder'
  BY <1>2, <1>3, <1>6, <1>7 DEF CallsInOrder
<1> QED
  BY <1>3, <1>5, <1>8 DEF RatesAreExact

(***************************************************************************)
(* An answer makes the bytes of this call, which were read at the times of *)
(* this call, the baselines of the next.                                   *)
(***************************************************************************)
LEMMA AnswerKeepsRates == ASSUME RatesInv, TypeOK', Answer PROVE RatesFacts'
<1> USE DEF RatesInv, RatesFacts, ReadingsAgree, ReadingsInOrder, Time, Bytes, NewBytes
<1>0. TypeOK /\ call.n \in Nat /\ call.interval \in Intervals /\ ~ At("idle")
  BY MaxCallsAssumption DEF PoolInv, TypeOK, Call, Calls, Answer, At
<1>1. call'.n = call.n /\ At("idle")'
  BY <1>0, CallMoves DEF Answer, At
<1>2. \A i \in Intervals, c \in Containers :
        /\ readTime[i][c] \in Nat /\ current[i][c] \in Nat /\ previous[i][c] \in Nat
        /\ readTime'[i][c] = readTime[i][c]
  BY MaxCallsAssumption DEF PoolInv, TypeOK, Readings, Calls, Answer
<1>3. ASSUME NEW c \in Containers, NEW i \in Intervals \ {call.interval}
      PROVE  (ReadingsAgree(i, c) /\ ReadingsInOrder(i, c))'
  <2>1. previous'[i][c] = previous[i][c] /\ current'[i][c] = current[i][c]
    BY <1>0 DEF Answer, TypeOK
  <2>2. readTime[i][c] < call.n
    BY <1>0
  <2> QED
    BY <1>0, <1>1, <1>2, <2>1, <2>2 DEF Answer
<1>4. ASSUME NEW c \in Containers
      PROVE  (ReadingsAgree(call.interval, c) /\ ReadingsInOrder(call.interval, c))'
  <2>1. previous'[call.interval][c] = current[call.interval][c] /\ current'[call.interval][c] = 0
    BY <1>0 DEF Answer, TypeOK, NoReadings
  <2>2. call'.interval = call.interval
    BY <1>0, CallMoves DEF Answer
  <2> QED
    BY <1>0, <1>1, <1>2, <2>1, <2>2
<1>5. CallsInOrder' /\ RatesAreExact'
  <2>1. \A c \in Containers : stats'[c] # None => stats'[c] = stats[c]
    BY <1>0 DEF Answer, TypeOK
  <2>2. \A c \in Containers : stats[c] # None => stats[c].timeFrom \in Nat
    BY <1>0, MaxCallsAssumption DEF TypeOK, Stats, Calls
  <2> QED
    BY <1>0, <1>1, <2>1, <2>2 DEF Answer, CallsInOrder, RatesAreExact
<1>6. call'.interval = call.interval
  BY <1>0, CallMoves DEF Answer
<1> QED
  BY <1>3, <1>4, <1>5, <1>6

\* A reading that succeeds counts from the time of its bytes, unless a call was cancelled.
LEMMA ReadingKeepsRates ==
  ASSUME RatesInv, TypeOK', NEW c \in Active, Leave(c), UNCHANGED <<call, previous, answered>>,
         Pending' \subseteq Pending, c \notin Pending',
         stats' = [stats EXCEPT ![c] = Reading(c)],
         current' = [current EXCEPT ![call.interval][c] = call.n],
         readTime' = [readTime EXCEPT ![call.interval][c] = call.n]
  PROVE  RatesFacts'
<1> USE DEF RatesInv, RatesFacts, ReadingsAgree, ReadingsInOrder, Time, Bytes, NewBytes
<1>0. TypeOK /\ call.n \in Nat /\ call.interval \in Intervals /\ ~ At("idle") /\ c \in Containers
  BY MaxCallsAssumption DEF PoolInv, NoWorkerOutlivesCall, TypeOK, Call, Calls, At, Active
<1>1. \A i \in Intervals, d \in Containers :
        readTime[i][d] \in Nat /\ current[i][d] \in Nat /\ previous[i][d] \in Nat
  BY MaxCallsAssumption DEF PoolInv, TypeOK, Readings, Calls
<1>2. c \in Pending
  BY DEF PoolInv, NoWorkerOutlivesCall, Pending
<1>3. ASSUME NEW i \in Intervals, NEW d \in Containers, i # call.interval \/ d # c
      PROVE  (ReadingsAgree(i, d) /\ ReadingsInOrder(i, d))'
  <2>1. current'[i][d] = current[i][d] /\ readTime'[i][d] = readTime[i][d]
    BY <1>0, <1>3 DEF TypeOK, Readings
  <2> QED
    BY <1>0, <1>1, <2>1 DEF At
<1>4. (ReadingsAgree(call.interval, c) /\ ReadingsInOrder(call.interval, c))'
  <2>1. current'[call.interval][c] = call.n /\ readTime'[call.interval][c] = call.n
    BY <1>0 DEF TypeOK, Readings
  <2> QED
    BY <1>0, <1>1, <2>1 DEF CallsInOrder, At
<1>5. CallsInOrder' /\ RatesAreExact'
  <2>1. \A d \in Containers \ {c} : stats'[d] = stats[d]
    BY <1>0 DEF TypeOK
  <2>2. stats'[c] = Reading(c)
    BY <1>0 DEF TypeOK
  <2>3. /\ Reading(c).timeFrom < call.n
        /\ \/ Reading(c).bytesFrom = Reading(c).timeFrom
           \/ Reading(c).bytesFrom < Reading(c).timeFrom /\ Reading(c).timeFrom \notin answered
    BY <1>0, <1>1, <1>2 DEF Reading
  <2>4. Reading(c).timeFrom \in Nat
    BY <1>0, <1>1 DEF Reading
  <2> QED
    BY <1>0, <2>1, <2>2, <2>3, <2>4 DEF CallsInOrder, RatesAreExact, At
<1> HIDE DEF ReadingsAgree, ReadingsInOrder
<1>6. ASSUME NEW i \in Intervals, NEW d \in Containers
      PROVE  (ReadingsAgree(i, d) /\ ReadingsInOrder(i, d))'
  BY <1>3, <1>4
<1> QED
  BY <1>5, <1>6

(***************************************************************************)
(* Every network rate is bytes since a reading over the time since the     *)
(* same reading, or the time is that of a call that was cancelled.         *)
(***************************************************************************)
THEOREM RatesExact == Spec => []RatesAreExact
<1>1. Init => RatesFacts
  BY DEF Init, RatesFacts, ReadingsAgree, ReadingsInOrder, Time, Bytes, NewBytes, CallsInOrder,
         RatesAreExact, NoReadings, At
<1>2. RatesInv /\ TypeOK' /\ [Next]_vars => RatesFacts'
  <2> SUFFICES ASSUME RatesInv, TypeOK', [Next]_vars PROVE RatesFacts'
    OBVIOUS
  <2> USE DEF readings, pool
  <2>0. PoolInv /\ TypeOK
    BY DEF RatesInv, PoolInv
  <2>1. CASE Begin
    BY <2>1, BeginKeepsRates
  <2>2. CASE Answer
    BY <2>2, AnswerKeepsRates
  <2>3. CASE UNCHANGED vars
    BY <2>3 DEF vars, RatesInv, RatesFacts, ReadingsAgree, ReadingsInOrder, Time, Bytes, NewBytes,
         CallsInOrder, RatesAreExact, Pending, Queued, Active, Noted, At
  <2>4. ASSUME Next, ~ Begin, ~ Answer PROVE RatesFacts'
    <3>1. Pending' \subseteq Pending
      BY <2>0, <2>4, PendingShrinks
    <3>2. ASSUME UNCHANGED <<stats, current, previous, readTime, answered>>,
                 call'.n = call.n, call'.interval = call.interval, At("idle") => At("idle")'
          PROVE  RatesFacts'
      BY <3>1, <3>2, NothingRead
    <3>3. CASE Cancel \/ Release
      <4>1. call'.n = call.n /\ call'.interval = call.interval /\ call'.stage = call.stage
        BY <2>0, <3>3 DEF Cancel, Release, TypeOK, Call
      <4> QED
        BY <3>2, <3>3, <4>1 DEF Cancel, Release, At
    <3>4. CASE List \/ EnsureVersionChecked \/ ResetValid \/ LoopEnds \/ Queue \/ Wait \/ Abort
      <4>1. call'.n = call.n /\ call'.interval = call.interval
        <5>1. Return \/ (\E s \in Stage : GoTo(s)) =>
                call'.n = call.n /\ call'.interval = call.interval
          BY <2>0, CallMoves
        <5>2. CASE ResetValid \/ EnsureVersionChecked \/ LoopEnds \/ Abort
          BY <5>1, <5>2 DEF ResetValid, EnsureVersionChecked, LoopEnds, Abort, Stage
        <5>3. CASE List
          BY <2>0, <5>1, <5>3 DEF List, TypeOK, Call
        <5>4. CASE Queue
          BY <2>0, <5>4 DEF Queue, TypeOK, Call
        <5>5. CASE Wait
          BY <2>0, <5>1, <5>5 DEF Wait, TypeOK, Call, Stage
        <5> QED
          BY <3>4, <5>2, <5>3, <5>4, <5>5
      <4>2. ~ At("idle")
        BY <3>4 DEF List, EnsureVersionChecked, ResetValid, LoopEnds, Queue, Wait, Abort, At
      <4>3. UNCHANGED <<stats, current, previous, readTime, answered>>
        BY <3>4 DEF List, EnsureVersionChecked, ResetValid, LoopEnds, Queue, Wait, Abort
      <4> QED
        BY <3>2, <4>1, <4>2, <4>3
    <3>5. ASSUME NEW c \in Containers, Admit(c) \/ Retry(c) PROVE RatesFacts'
      <4>1. call'.n = call.n /\ call'.interval = call.interval /\ ~ At("idle")
        BY <2>0, <3>5 DEF Admit, Retry, TypeOK, Call, At
      <4>2. UNCHANGED <<current, previous, answered>>
        BY <3>5 DEF Admit, Retry
      <4>3. \A d \in Containers : stats'[d] \in {stats[d], None, Zero}
        BY <2>0, <3>5 DEF Admit, Retry, TypeOK
      <4>4. \A i \in Intervals, d \in Containers : readTime'[i][d] \in {readTime[i][d], 0}
        BY <2>0, <3>5 DEF Admit, Retry, TypeOK, Readings
      <4> QED
        BY <3>1, <4>1, <4>2, <4>3, <4>4, NothingRead
    <3>6. ASSUME NEW c \in Containers, Request(c) \/ Update(c) PROVE RatesFacts'
      <4>0. c \in Active /\ ~ At("idle")
        BY <2>0, <3>6 DEF Request, Update, Active, PoolInv, NoWorkerOutlivesCall, At
      <4>1. CASE Leave(c) /\ UNCHANGED call
                 /\ stats' = [stats EXCEPT ![c] = Reading(c)]
                 /\ current' = [current EXCEPT ![call.interval][c] = call.n]
                 /\ readTime' = [readTime EXCEPT ![call.interval][c] = call.n]
        <5>1. c \notin Pending'
          BY <2>0, <2>4, <4>0, <4>1, PendingShrinks
        <5>2. UNCHANGED <<previous, answered>>
          BY <3>6 DEF Request, Update
        <5> QED
          BY <3>1, <4>0, <4>1, <5>1, <5>2, ReadingKeepsRates
      <4>2. CASE /\ UNCHANGED <<current, readTime>>
                 /\ UNCHANGED stats \/ Fail(c, stats) \/ Fail(c, [stats EXCEPT ![c] = Zero])
        <5>1. call'.n = call.n /\ call'.interval = call.interval
          BY <2>0, <3>6 DEF Request, Update, Fail, TypeOK, Call
        <5>2. UNCHANGED <<previous, answered>>
          BY <3>6 DEF Request, Update
        <5>3. \A d \in Containers : stats'[d] \in {stats[d], None, Zero}
          BY <2>0, <4>2 DEF Fail, TypeOK
        <5> QED
          BY <3>1, <4>0, <4>2, <5>1, <5>2, <5>3, NothingRead
      <4> QED
        BY <3>6, <4>1, <4>2 DEF Request, Update
    <3> QED
      BY <2>4, <3>3, <3>4, <3>5, <3>6 DEF Next, Main
  <2> QED
    BY <2>1, <2>2, <2>3, <2>4
<1> QED
  BY <1>1, <1>2, PoolInvariant, TypeCorrect, PTL DEF Spec, RatesInv, RatesFacts


-----------------------------------------------------------------------------
(* Answers are fresh.                                                       *)

\* The entry of c is of this call, or holds zeros, or there is none.
Fresh(c) == stats[c] # None => stats[c].read \in {0, call.n}

(***************************************************************************)
(* Until the call is given up, the entry of a container that it has        *)
(* admitted is fresh, except in the first round, before its worker has     *)
(* ended: a failure of that round removes the entry, so that a failure of  *)
(* the second one has nothing old to leave behind.                         *)
(***************************************************************************)
FreshInv ==
  call.stage \in {"loop", "queue", "wait", "answer"} =>
    \A c \in valid : Fresh(c) \/ (call.round = 1 /\ c \in Queued \cup Active)

\* The end of the worker of c leaves c with a fresh entry, or with none.
LEMMA WorkerLeavesFresh ==
  ASSUME PoolInv, FreshInv, NEW c \in Containers, worker[c] # "off", Leave(c),
         NEW s \in Stats \cup {None}, s # None => s.read \in {0, call.n},
         \/ stats' = [stats EXCEPT ![c] = s] /\ UNCHANGED call
         \/ call.round = 1 /\ stats' = [stats EXCEPT ![c] = None]
             /\ call' = [call EXCEPT !.failed = @ \cup {c}]
         \/ call.round # 1 /\ UNCHANGED <<stats, call>>,
         UNCHANGED valid
  PROVE  FreshInv'
<1> USE DEF PoolInv, TypeOK, FreshInv
<1> SUFFICES ASSUME call'.stage \in {"loop", "queue", "wait", "answer"}, NEW d \in valid
             PROVE  Fresh(d)' \/ (call'.round = 1 /\ d \in Queued' \cup Active')
  OBVIOUS
<1>1. /\ call'.stage = call.stage /\ call'.round = call.round /\ call'.n = call.n
      /\ call'.next = call.next
  BY DEF Call
<1>2. Queued' = Queued
  BY <1>1 DEF Queued
<1>3. Fresh(d) \/ (call.round = 1 /\ d \in Queued \cup Active)
  BY <1>1
<1>4. CASE d = c
  <2>1. stats' = [stats EXCEPT ![c] = s] \/ stats' = [stats EXCEPT ![c] = None] => Fresh(d)'
    BY <1>1, <1>4 DEF Fresh
  <2>2. call.round # 1 /\ UNCHANGED <<stats, call>> => Fresh(d)'
    BY <1>1, <1>3 DEF Fresh
  <2> QED
    BY <2>1, <2>2
<1>5. CASE d # c
  <2>1. stats'[d] = stats[d] /\ (d \in Active => d \in Active')
    BY <1>5 DEF Leave, Active
  <2> QED
    BY <1>1, <1>2, <1>3, <2>1 DEF Fresh
<1> QED
  BY <1>4, <1>5

\* FreshInv is kept by every step.
LEMMA FreshStep == ASSUME PoolInv, FreshInv, [Next]_vars PROVE FreshInv'
<1> USE DEF engine, pool, readings
<1>0. call \in Call /\ TypeOK
  BY DEF PoolInv, TypeOK
<1>1. ASSUME call'.stage \notin {"loop", "queue", "wait", "answer"} PROVE FreshInv'
  BY <1>1 DEF FreshInv
<1>2. CASE Begin \/ List \/ EnsureVersionChecked \/ Abort \/ Answer
  <2>1. call'.stage \in {"idle", "list", "version", "reset"}
    BY <1>0, <1>2, CallMoves DEF Begin, List, EnsureVersionChecked, Abort, Answer, Call, Stage
  <2> QED
    BY <1>1, <2>1
<1>3. CASE ResetValid
  <2>1. valid' = {} \/ call'.stage = "idle"
    BY <1>0, <1>3, CallMoves DEF ResetValid
  <2> QED
    BY <2>1 DEF FreshInv
<1>4. CASE Cancel \/ Release \/ UNCHANGED vars
  <2>1. /\ call'.stage = call.stage /\ call'.round = call.round /\ call'.n = call.n
        /\ call'.next = call.next
        /\ UNCHANGED <<valid, stats, worker>>
    BY <1>0, <1>4 DEF Cancel, Release, vars, Call
  <2> QED
    BY <2>1 DEF FreshInv, Fresh, Queued, Active
<1>5. ASSUME NEW c \in Containers, Admit(c) PROVE FreshInv'
  <2>1. /\ call.stage = "loop" /\ call.round = 1
        /\ call'.stage = "queue" /\ call'.round = 1 /\ call'.n = call.n /\ call'.next = c
        /\ valid' = valid \cup {c} /\ worker' = worker
    BY <1>0, <1>5 DEF Admit, At, Call
  <2>2. \A d \in Containers : d # c => stats'[d] = stats[d]
    BY <1>0, <1>5 DEF Admit, TypeOK
  <2>3. Queued' = {c} /\ Active' = Active /\ Queued = {}
    BY <2>1 DEF Queued, Active
  <2> QED
    BY <1>0, <2>1, <2>2, <2>3 DEF FreshInv, Fresh, TypeOK
<1>6. ASSUME NEW c \in Containers, Retry(c) PROVE FreshInv'
  <2>1. /\ call.stage = "loop" /\ call.round = 2
        /\ call'.stage = "queue" /\ call'.n = call.n /\ UNCHANGED <<valid, stats>>
    BY <1>0, <1>6 DEF Retry, At, Call
  <2> QED
    BY <2>1 DEF FreshInv, Fresh
<1>7. CASE LoopEnds
  <2>1. /\ call.stage = "loop" /\ call'.stage \in {"wait", "abort"}
        /\ call'.round = call.round /\ call'.n = call.n /\ UNCHANGED <<valid, stats, worker>>
    BY <1>0, <1>7, CallMoves DEF LoopEnds, At, Stage
  <2> QED
    BY <2>1 DEF FreshInv, Fresh, Queued, Active
<1>8. CASE Queue
  <2>1. CASE call' = [call EXCEPT !.stage = "abort", !.next = None]
    BY <1>0, <1>1, <2>1 DEF Call
  <2>2. CASE /\ worker' = [worker EXCEPT ![call.next] = "request"]
             /\ call' = [call EXCEPT !.stage = "loop", !.next = None]
    <3>1. /\ call.stage = "queue" /\ call'.stage = "loop"
          /\ call'.round = call.round /\ call'.n = call.n /\ UNCHANGED <<valid, stats>>
      BY <1>0, <1>8, <2>2 DEF Queue, At, Call
    <3>2. Queued = {call.next} /\ call.next \in Containers
      BY <1>0, <3>1 DEF Queued, TypeOK
    <3>3. Queued \cup Active \subseteq Active'
      BY <1>0, <2>2, <3>2 DEF Active, TypeOK
    <3> QED
      BY <3>1, <3>3 DEF FreshInv, Fresh
  <2> QED
    BY <1>8, <2>1, <2>2 DEF Queue
<1>9. CASE Wait
  <2>1. /\ call.stage = "wait" /\ Active = {} /\ call'.n = call.n /\ UNCHANGED <<valid, stats>>
    <3>1. Return \/ GoTo("answer") => call'.n = call.n
      BY <1>0, CallMoves DEF Stage
    <3>2. call' = [call EXCEPT !.stage = "loop", !.round = 2, !.todo = call.failed]
            => call'.n = call.n
      BY <1>0 DEF Call
    <3> QED
      BY <1>9, <3>1, <3>2 DEF Wait, At
  <2>2. Queued = {}
    BY <2>1 DEF Queued
  <2> QED
    BY <2>1, <2>2 DEF FreshInv, Fresh
<1>10. ASSUME NEW c \in Containers, Request(c) PROVE FreshInv'
  <2>1. CASE worker' = [worker EXCEPT ![c] = "update"] /\ UNCHANGED <<stats, call>>
    <3>1. Active' = Active /\ UNCHANGED valid
      BY <1>0, <1>10, <2>1 DEF Request, Active, TypeOK
    <3> QED
      BY <2>1, <3>1 DEF FreshInv, Fresh, Queued
  <2>2. CASE Leave(c) /\ Fail(c, stats)
    <3>1. \/ call.round = 1 /\ stats' = [stats EXCEPT ![c] = None]
             /\ call' = [call EXCEPT !.failed = @ \cup {c}]
          \/ call.round # 1 /\ UNCHANGED <<stats, call>>
      BY <2>2 DEF Fail
    <3> QED
      BY <1>10, <2>2, <3>1, WorkerLeavesFresh DEF Request
  <2> QED
    BY <1>10, <2>1, <2>2 DEF Request
<1>11. ASSUME NEW c \in Containers, Update(c) PROVE FreshInv'
  <2>0. worker[c] # "off" /\ Leave(c) /\ UNCHANGED valid
    BY <1>11 DEF Update
  <2>1. Reading(c) \in Stats /\ Reading(c).read = call.n /\ Zero \in Stats /\ Zero.read = 0
    BY <1>0, MaxCallsAssumption DEF Reading, Zero, Stats, Call, TypeOK, Readings, Calls
  <2>2. CASE stats' = [stats EXCEPT ![c] = Reading(c)] /\ UNCHANGED call
    BY <2>0, <2>1, <2>2, WorkerLeavesFresh
  <2>3. CASE Fail(c, [stats EXCEPT ![c] = Zero])
    <3>1. \/ call.round = 1 /\ stats' = [stats EXCEPT ![c] = None]
             /\ call' = [call EXCEPT !.failed = @ \cup {c}]
          \/ stats' = [stats EXCEPT ![c] = Zero] /\ UNCHANGED call
      BY <1>0, <2>3 DEF Fail, TypeOK
    <3> QED
      BY <2>0, <2>1, <3>1, WorkerLeavesFresh
  <2> QED
    BY <1>11, <2>2, <2>3 DEF Update
<1> QED
  BY <1>2, <1>3, <1>4, <1>5, <1>6, <1>7, <1>8, <1>9, <1>10, <1>11 DEF Next, Main

(***************************************************************************)
(* AnswerIsFresh for any containers, intervals, tokens and calls: whatever *)
(* fails or is cancelled, no answer holds a value that an earlier call     *)
(* read.                                                                   *)
(***************************************************************************)
THEOREM AnswersAreFresh == Spec => AnswerIsFresh
<1>1. Init => FreshInv
  BY DEF Init, FreshInv
<1>2. PoolInv /\ FreshInv /\ [Next]_vars => FreshInv'
  BY FreshStep
<1> DEFINE OnlyFresh == Answer => \A c \in Containers : stats'[c] # None => stats'[c].read \in {0, call.n}
<1>3. PoolInv /\ FreshInv /\ [Next]_vars => [OnlyFresh]_vars
  <2> SUFFICES ASSUME PoolInv, FreshInv, Answer, NEW c \in Containers, stats'[c] # None
               PROVE  stats'[c].read \in {0, call.n}
    BY DEF vars
  <2>1. call.stage = "answer"
    BY DEF Answer, At
  <2>2. c \in valid /\ stats'[c] = stats[c]
    BY DEF Answer
  <2>3. Queued \cup Active = {}
    BY <2>1 DEF PoolInv, NoWorkerOutlivesCall, Queued
  <2> QED
    BY <2>1, <2>2, <2>3 DEF FreshInv, Fresh
<1> QED
  BY <1>1, <1>2, <1>3, PoolInvariant, PTL DEF AnswerIsFresh, Spec
=============================================================================
