--------------------------- MODULE IntervalRates ---------------------------
(***************************************************************************)
(* What the rates that a collection reports promise.                       *)
(*                                                                         *)
(* Collections for different cache intervals are interleaved, and each     *)
(* interval measures against marks of its own.  A mark is a reading of a   *)
(* counter: its value and the time it was read.  A rate is the traffic     *)
(* since the mark over the time since the mark, and a mark is measured     *)
(* against at most once, so that no interval counts a byte twice.  Some    *)
(* counters keep their rate from answer to answer: until a new one is      *)
(* measured the old one is repeated, to whatever interval asks.            *)
(***************************************************************************)
EXTENDS Integers

CONSTANTS
  Intervals,  \* cache intervals
  Counters,   \* what is measured
  Kept,       \* the counters whose rates are kept
  None        \* no mark

VARIABLES
  clock,    \* the time
  counter,  \* counter[c]: what the operating system has counted
  mark,     \* mark[i][c]: the reading that interval i measures c against, or None
  shown     \* shown[c]: the rate of c in the answer that is prepared

vars == <<clock, counter, mark, shown>>

Zero == [bytes |-> 0, ms |-> 0]

\* The traffic since the mark m; a counter below its mark has started again at 0.
Since(m, value) == IF value >= m.bytes THEN value - m.bytes ELSE value

\* The rate of c for interval i.
Exact(i, c) == [bytes |-> Since(mark[i][c], counter[c]), ms |-> clock - mark[i][c].at]

\* The reading of c that is taken now.
Now(c) == [bytes |-> counter[c], at |-> clock]

Init ==
  /\ mark = [i \in Intervals |-> [c \in Counters |-> mark[i][c]]]
  /\ \A i \in Intervals, c \in Counters : mark[i][c] \in {None, Now(c)}
  /\ shown = [c \in Counters |-> Zero]

\* Time passes and the counters move.
Elapse == UNCHANGED <<mark, shown>>

\* An answer is given, or given up.
End ==
  /\ shown' = [c \in Counters |-> IF c \in Kept THEN shown[c] ELSE Zero]
  /\ UNCHANGED <<clock, counter, mark>>

\* What may be reported of c: nothing, its rate, or a rate that was kept.
Allowed(i, c) == {Zero, Exact(i, c)} \cup (IF c \in Kept THEN {shown[c]} ELSE {})

\* A counter is reported honestly; the first rate is not promised.
Honest(i, c) == mark[i][c] # None => shown'[c] \in Allowed(i, c)

\* Some counters are measured for interval i; their marks move or are forgotten.  Other
\* intervals lose no mark to a new one: what they have not counted they still will.
Measure(i) ==
  /\ UNCHANGED <<clock, counter>>
  /\ \E measured \in SUBSET Counters :
       /\ \A c \in measured :
            /\ Honest(i, c)
            /\ mark'[i][c] \in {None, Now(c)}
       /\ \A c \in Counters \ measured :
            /\ shown'[c] = shown[c]
            /\ mark'[i][c] \in {None, mark[i][c]}
       /\ \A j \in Intervals \ {i}, c \in Counters :
            \/ mark'[j][c] \in {None, mark[j][c]}
            \/ mark[j][c] = None /\ mark'[j][c] = Now(c)

Next == Elapse \/ End \/ \E i \in Intervals : Measure(i)

Spec == Init /\ [][Next]_vars

=============================================================================
