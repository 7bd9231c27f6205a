---------------------------- MODULE RollupProofs ----------------------------
(***************************************************************************)
(* Proofs about Rollup for every number of plugins and resolutions, every  *)
(* window, minimum and retention, and any behaviour of the clock.          *)
(***************************************************************************)
EXTENDS Rollup, FiniteSetTheorems, TLAPS

USE DEF Level, LongLevel, Time

\* Rows of one longer resolution end at least a window apart.
Spaced(rows, l) ==
  \A r, s \in rows : r # s => r.at + Window[l] <= s.at \/ s.at + Window[l] <= r.at

\* A row averages rows of its own window only.
OwnWindow(rows, l) ==
  \A r \in rows : \A a \in r.from : r.at - Window[l] < a /\ a <= r.at

GoodTables(t) == \A p \in Plugins, l \in LongLevel : Spaced(t[p][l], l) /\ OwnWindow(t[p][l], l)

\* A transaction's copy lacks only the committed long rows it has expired.
Keeps(work, now) ==
  \A p \in Plugins, l \in LongLevel : \A r \in db[p][l] :
    r \in work[p][l] \/ r.at < now - Retention[l]

IInv == /\ TypeOK
        /\ GoodTables(db)
        /\ tx # NoTx => GoodTables(tx.work) /\ Keeps(tx.work, tx.now)

-----------------------------------------------------------------------------
(* Arithmetic of the window chain.                                          *)

LEMMA Multiples ==
  ASSUME NEW w \in Nat \ {0}, NEW j \in Nat, NEW k \in Nat, j < k
  PROVE  /\ j * w \in Nat
         /\ k * w \in Nat
         /\ j * w + w <= k * w
<1>1. k = j + 1 + (k - j - 1) /\ (k - j - 1) \in Nat
  OBVIOUS
<1>2. \A a, b \in Nat : a * b \in Nat
  OBVIOUS
<1>3. (k - j - 1) * w \in Nat
  BY <1>1, <1>2
<1>4. k * w = j * w + w + (k - j - 1) * w
  BY <1>1
<1> QED
  BY <1>2, <1>3, <1>4

\* A chain that retention has overtaken resumes later, never earlier.
LEMMA SkipForward ==
  ASSUME NEW l \in LongLevel, NEW c \in Int, NEW now \in Int
  PROVE  SkipExpired(c, l, now) \in Int /\ c <= SkipExpired(c, l, now)
<1> DEFINE w == Window[l]
           o == OldestUseful(l, now)
<1>1. w \in Nat \ {0} /\ o \in Int
  BY WindowAssumption, RetentionAssumption, LevelsAssumption DEF OldestUseful
<1>2. CASE c <= o
  <2> DEFINE q == (o - c) \div w
  <2>1. q \in Nat
    BY <1>1, <1>2
  <2> HIDE DEF q
  <2>2. (q + 1) * w \in Nat
    BY <2>1, <1>1
  <2>3. SkipExpired(c, l, now) = c + (q + 1) * w
    BY <1>2 DEF SkipExpired, q
  <2> QED
    BY <2>2, <2>3
<1>3. CASE ~(c <= o)
  BY <1>3 DEF SkipExpired
<1> QED
  BY <1>2, <1>3

\* The ends of the windows looked at are whole windows apart, from the first on.
LEMMA CursorsApart ==
  ASSUME NEW l \in LongLevel, NEW c \in Int, NEW now \in Int
  PROVE  /\ \A x \in Cursors(c, l, now) : x \in Int /\ c <= x
         /\ \A x, y \in Cursors(c, l, now) :
              x # y => x + Window[l] <= y \/ y + Window[l] <= x
<1>1. Window[l] \in Nat \ {0}
  BY WindowAssumption
<1> DEFINE w == Window[l]
<1> HIDE DEF w
<1>2. w \in Nat \ {0}
  BY <1>1 DEF w
<1>3. \A x \in Cursors(c, l, now) : \E k \in Nat : x = c + k * w
  BY <1>1 DEF Cursors, w
<1>4. \A k \in Nat : k * w \in Nat
  BY <1>2
<1>5. \A x, y \in Cursors(c, l, now) : x # y => x + w <= y \/ y + w <= x
  <2> SUFFICES ASSUME NEW x \in Cursors(c, l, now), NEW y \in Cursors(c, l, now), x # y
               PROVE  x + w <= y \/ y + w <= x
    OBVIOUS
  <2>1. PICK j \in Nat : x = c + j * w
    BY <1>3
  <2>2. PICK k \in Nat : y = c + k * w
    BY <1>3
  <2>3. CASE j < k
    BY <2>1, <2>2, <2>3, <1>2, Multiples
  <2>4. CASE k < j
    BY <2>1, <2>2, <2>4, <1>2, Multiples
  <2> QED
    BY <2>1, <2>2, <2>3, <2>4
<1> QED
  BY <1>2, <1>3, <1>4, <1>5 DEF w

-----------------------------------------------------------------------------
(* What one rollup step does to a table of one longer resolution.           *)

LEMMA RolledUpRows ==
  ASSUME NEW l \in LongLevel, NEW c \in Int, NEW now \in Int,
         NEW shorter \in SUBSET Row
  PROVE  /\ RolledUp(shorter, l, c, now) \subseteq Row
         /\ Spaced(RolledUp(shorter, l, c, now), l)
         /\ OwnWindow(RolledUp(shorter, l, c, now), l)
         /\ \A n \in RolledUp(shorter, l, c, now) : c <= n.at
<1> DEFINE s == SkipExpired(c, l, now)
           ends == Cursors(s, l, now)
           new == RolledUp(shorter, l, c, now)
<1>1. s \in Int /\ c <= s
  BY SkipForward
<1> HIDE DEF s
<1>2. /\ \A x \in ends : x \in Int /\ s <= x
      /\ \A x, y \in ends : x # y => x + Window[l] <= y \/ y + Window[l] <= x
  BY <1>1, CursorsApart
<1> HIDE DEF ends
<1>3. \A n \in new : \E x \in ends : n = Aggregate(shorter, l, x)
  BY DEF RolledUp, ends, s
<1> HIDE DEF new
<1>4. \A x \in ends : Aggregate(shorter, l, x) \in Row /\ Aggregate(shorter, l, x).at = x
  BY <1>2 DEF Aggregate, InWindow, Row
<1>5. \A x \in ends : \A a \in Aggregate(shorter, l, x).from : x - Window[l] < a /\ a <= x
  BY DEF Aggregate, InWindow
<1>6. new \subseteq Row
  BY <1>3, <1>4
<1>7. Spaced(new, l)
  BY <1>2, <1>3, <1>4 DEF Spaced
<1>8. OwnWindow(new, l)
  BY <1>3, <1>4, <1>5 DEF OwnWindow
<1>9. \A n \in new : c <= n.at
  BY <1>1, <1>2, <1>3, <1>4
<1> QED
  BY <1>6, <1>7, <1>8, <1>9 DEF new

\* The chain continues a whole window after the last row of the table.
LEMMA ChainAfterRows ==
  ASSUME NEW l \in LongLevel, NEW rows \in SUBSET Row, NEW c \in Int, NEW now \in Int,
         ChainStart(c, rows, l, now)
  PROVE  \A r \in rows : r.at + Window[l] <= c
BY WindowAssumption DEF ChainStart, IsLatest, Row

\* Rows after every old row join them without replacing any of them.
LEMMA AppendRows ==
  ASSUME NEW l \in LongLevel, NEW rows \in SUBSET Row, NEW new \in SUBSET Row, NEW c \in Int,
         Spaced(rows, l), OwnWindow(rows, l), Spaced(new, l), OwnWindow(new, l),
         \A r \in rows : r.at + Window[l] <= c,
         \A n \in new : c <= n.at
  PROVE  /\ Upsert(rows, new) \in SUBSET Row
         /\ Upsert(rows, new) = rows \cup new
         /\ Spaced(Upsert(rows, new), l)
         /\ OwnWindow(Upsert(rows, new), l)
<1>1. Window[l] \in Nat \ {0}
  BY WindowAssumption
<1>2. \A r \in rows, n \in new : r.at + Window[l] <= n.at /\ r.at # n.at
  BY <1>1 DEF Row
<1>3. Upsert(rows, new) = rows \cup new
  BY <1>2 DEF Upsert
<1>4. Spaced(rows \cup new, l)
  BY <1>2 DEF Spaced
<1>5. OwnWindow(rows \cup new, l)
  BY DEF OwnWindow
<1> QED
  BY <1>3, <1>4, <1>5

LEMMA RollupKeepsTable ==
  ASSUME NEW l \in LongLevel, NEW h \in [Level -> SUBSET Row], NEW c \in Int, NEW now \in Int,
         Spaced(h[l], l), OwnWindow(h[l], l), ChainStart(c, h[l], l, now)
  PROVE  LET up == Upsert(h[l], RolledUp(h[l - 1], l, c, now))
         IN up \in SUBSET Row /\ Spaced(up, l) /\ OwnWindow(up, l) /\ h[l] \subseteq up
<1>1. h[l] \in SUBSET Row /\ h[l - 1] \in SUBSET Row
  BY LevelsAssumption
<1>2. \A r \in h[l] : r.at + Window[l] <= c
  BY <1>1, ChainAfterRows
<1> DEFINE new == RolledUp(h[l - 1], l, c, now)
<1>3. /\ new \subseteq Row /\ Spaced(new, l) /\ OwnWindow(new, l)
      /\ \A n \in new : c <= n.at
  BY <1>1, RolledUpRows
<1> HIDE DEF new
<1>4. /\ Upsert(h[l], new) \in SUBSET Row
      /\ Upsert(h[l], new) = h[l] \cup new
      /\ Spaced(Upsert(h[l], new), l)
      /\ OwnWindow(Upsert(h[l], new), l)
  BY <1>1, <1>2, <1>3, AppendRows
<1> QED
  BY <1>4 DEF new

-----------------------------------------------------------------------------
(* The actions that write to tables, one lemma each.                        *)

LEMMA LevelFacts ==
  /\ TopLevel \in Nat /\ 1 \in Level /\ 1 \notin LongLevel
  /\ \A l \in LongLevel : l \in Level /\ l - 1 \in Level /\ l \in Int
BY LevelsAssumption

\* Writing a sample leaves every longer resolution alone.
LEMMA SampleKeepsLongRows ==
  ASSUME TypeOK, NEW ps \in SUBSET Plugins, NEW t \in Time
  PROVE  /\ WithSample(ps, t) \in Tables
         /\ \A p \in Plugins, l \in LongLevel : WithSample(ps, t)[p][l] = db[p][l]
<1>1. db \in [Plugins -> [Level -> SUBSET Row]]
  BY DEF TypeOK, Tables
<1>2. Sample(t) \in Row
  BY BoundsAssumption DEF Sample, Row
<1>3. \A p \in Plugins : Upsert(db[p][1], {Sample(t)}) \in SUBSET Row
  BY <1>1, <1>2, LevelFacts DEF Upsert
<1> QED
  BY <1>1, <1>3, LevelFacts DEF WithSample, Tables

LEMMA SampleKeepsInvariant ==
  ASSUME IInv, NEW ps \in SUBSET Plugins, NEW t \in Time, db' = WithSample(ps, t)
  PROVE  /\ db' \in Tables
         /\ GoodTables(db')
         /\ \A p \in Plugins, l \in LongLevel : db'[p][l] = db[p][l]
BY SampleKeepsLongRows DEF IInv, GoodTables

LEMMA TxType ==
  ASSUME TypeOK, tx # NoTx
  PROVE  /\ tx \in OpenTx
         /\ tx.work \in Tables
         /\ tx.now \in Int
         /\ tx.todo # {} => Current \in Plugins
BY BoundsAssumption DEF TypeOK, OpenTx, Current

LEMMA RollupStepCorrect ==
  ASSUME IInv, RollupStep
  PROVE  IInv'
<1>1. /\ tx \in OpenTx /\ tx.work \in Tables /\ tx.now \in Int /\ Current \in Plugins
      /\ tx.step \in LongLevel
  BY TxType, LevelsAssumption DEF IInv, RollupStep, OpenTx
<1> DEFINE p == Current
           h == tx.work[p]
           l == tx.step
<1>2. PICK c \in {r.at + Window[l] : r \in h[l]} \cup {tx.now} :
        /\ ChainStart(c, h[l], l, tx.now)
        /\ tx' = [tx EXCEPT
                    !.step = l + 1,
                    !.work[p][l] = Upsert(@, RolledUp(h[l - 1], l, c, tx.now))]
  BY DEF RollupStep
<1> DEFINE up == Upsert(h[l], RolledUp(h[l - 1], l, c, tx.now))
<1>3. h \in [Level -> SUBSET Row] /\ l \in Level
  BY <1>1, LevelFacts DEF Tables
<1>4. c \in Int
  <2>1. \A r \in h[l] : r \in Row
    BY <1>3
  <2> HIDE DEF h
  <2>2. Window[l] \in Nat \ {0}
    BY <1>1, WindowAssumption
  <2>3. \A r \in h[l] : r.at + Window[l] \in Int
    BY <2>1, <2>2 DEF Row
  <2> QED
    BY <1>1, <1>2, <2>3
<1>5. Spaced(h[l], l) /\ OwnWindow(h[l], l)
  BY <1>1 DEF IInv, GoodTables, RollupStep
<1>6. up \in SUBSET Row /\ Spaced(up, l) /\ OwnWindow(up, l) /\ h[l] \subseteq up
  BY <1>1, <1>2, <1>3, <1>4, <1>5, RollupKeepsTable
<1> HIDE DEF up
<1> DEFINE work == [tx.work EXCEPT ![p] = [tx.work[p] EXCEPT ![l] = up]]
<1>7. tx' = [tx EXCEPT !.step = l + 1, !.work = work]
  BY <1>1, <1>2, <1>3 DEF OpenTx, Tables, up
<1>8. /\ tx'.work = work
      /\ tx' \in OpenTx
      /\ tx'.now = tx.now
  <2>1. work \in Tables
    BY <1>1, <1>3, <1>6 DEF Tables
  <2>2. l + 1 \in 2 .. TopLevel + 1
    BY <1>1, LevelsAssumption
  <2> QED
    <3> HIDE DEF work
    <3> QED
      BY <1>1, <1>7, <2>1, <2>2 DEF OpenTx
<1>9. \A q \in Plugins, m \in LongLevel :
        work[q][m] = IF q = p /\ m = l THEN up ELSE tx.work[q][m]
  BY <1>1, <1>3, LevelFacts DEF Tables
<1> HIDE DEF work
<1>10. GoodTables(work)
  BY <1>6, <1>9 DEF IInv, GoodTables, RollupStep
<1>11. UNCHANGED <<clock, enabled, db, tick, refresh>>
  BY DEF RollupStep
<1>12. Keeps(work, tx.now)
  BY <1>6, <1>9 DEF IInv, Keeps, RollupStep
<1>13. TypeOK'
  BY <1>8, <1>11 DEF IInv, TypeOK
<1> QED
  BY <1>8, <1>10, <1>11, <1>12, <1>13 DEF IInv, GoodTables, Keeps

LEMMA DeleteOldHistoryCorrect ==
  ASSUME IInv, DeleteOldHistory
  PROVE  IInv'
<1>1. /\ tx \in OpenTx /\ tx.work \in Tables /\ tx.now \in Int /\ Current \in Plugins
  BY TxType DEF IInv, DeleteOldHistory
<1> DEFINE p == Current
           kept == Unexpired(tx.work[p], tx.now)
           work == [tx.work EXCEPT ![p] = kept]
<1>2. kept \in [Level -> SUBSET Row]
  BY <1>1 DEF Unexpired, Tables
<1>3. \A l \in LongLevel :
        /\ kept[l] \subseteq tx.work[p][l]
        /\ \A r \in tx.work[p][l] : r \in kept[l] \/ r.at < tx.now - Retention[l]
  <2> SUFFICES ASSUME NEW l \in LongLevel, NEW r \in tx.work[p][l]
               PROVE  r \in kept[l] \/ r.at < tx.now - Retention[l]
    BY LevelFacts DEF Unexpired
  <2>1. l \in Level
    BY LevelFacts
  <2>2. r \in Row /\ Retention[l] \in Nat
    BY <1>1, <2>1, RetentionAssumption DEF Tables
  <2> QED
    BY <1>1, <2>1, <2>2 DEF Unexpired, Row
<1> HIDE DEF kept
<1>4. work \in Tables
  BY <1>1, <1>2 DEF Tables
<1>5. tx' = [tx EXCEPT !.todo = @ \ {p}, !.step = 2, !.work = work]
  BY <1>1 DEF DeleteOldHistory, OpenTx, Tables, kept
<1>6. \A q \in Plugins : work[q] = IF q = p THEN kept ELSE tx.work[q]
  BY <1>1 DEF Tables
<1> HIDE DEF work
<1>7. tx'.work = work /\ tx' \in OpenTx /\ tx'.now = tx.now
  <2>1. 2 \in 2 .. TopLevel + 1
    BY LevelsAssumption
  <2>2. tx.todo \ {p} \in SUBSET Plugins
    BY <1>1 DEF OpenTx
  <2> HIDE DEF p
  <2> QED
    BY <1>1, <1>4, <1>5, <2>1, <2>2 DEF OpenTx
<1>8. GoodTables(work)
  BY <1>3, <1>6 DEF IInv, GoodTables, Spaced, OwnWindow, DeleteOldHistory
<1>9. Keeps(work, tx.now)
  BY <1>3, <1>6 DEF IInv, Keeps, DeleteOldHistory
<1>10. UNCHANGED <<clock, enabled, db, tick, refresh>>
  BY DEF DeleteOldHistory
<1>11. TypeOK'
  BY <1>7, <1>10 DEF IInv, TypeOK
<1> QED
  BY <1>7, <1>8, <1>9, <1>10, <1>11 DEF IInv, GoodTables, Keeps

LEMMA BeginCorrect ==
  ASSUME IInv, BeginMaintenance
  PROVE  IInv'
<1>1. tick.at \in Time /\ clock \in Time /\ db \in Tables /\ enabled \in SUBSET Plugins
  BY DEF IInv, TypeOK
<1>2. PICK owner \in {"collector", "command"}, now \in Time : Begin(owner, now)
  BY <1>1 DEF BeginMaintenance
<1>3. tx' \in OpenTx /\ tx'.work = db /\ tx'.now = now
  BY <1>1, <1>2, LevelsAssumption DEF Begin, OpenTx
<1>4. UNCHANGED <<clock, enabled, db, tick, refresh>>
  BY DEF BeginMaintenance
<1>5. TypeOK'
  BY <1>3, <1>4 DEF IInv, TypeOK
<1> QED
  BY <1>3, <1>4, <1>5 DEF IInv, GoodTables, Keeps

LEMMA CommitCorrect ==
  ASSUME IInv, Commit
  PROVE  IInv'
<1>1. tx.work \in Tables
  BY TxType DEF IInv, Commit
<1>2. db' = tx.work /\ tx' = NoTx /\ UNCHANGED <<clock, enabled, refresh>>
  BY DEF Commit, EndTx
<1>3. tick' \in [stage : {"idle", "gathering", "smart", "maintain"}, at : Time]
  BY DEF IInv, TypeOK, Commit, EndTx
<1>4. TypeOK'
  BY <1>1, <1>2, <1>3 DEF IInv, TypeOK
<1> QED
  BY <1>2, <1>4 DEF IInv, GoodTables, Commit

\* Actions that write one sample and leave no transaction open.
LEMMA WriterCorrect ==
  ASSUME IInv, WriteSnapshot \/ RefreshSmartIfDue \/ RefreshSmartEnd
  PROVE  IInv'
<1>1. UNCHANGED <<clock, enabled, tx>>
  BY DEF WriteSnapshot, RefreshSmartIfDue, RefreshSmartEnd
<1>2. tick' \in [stage : {"idle", "gathering", "smart", "maintain"}, at : Time]
  BY DEF IInv, TypeOK, WriteSnapshot, RefreshSmartIfDue, RefreshSmartEnd
<1>3. refresh' \in [stage : {"idle", "probing"}, at : Time]
  BY BoundsAssumption
  DEF IInv, TypeOK, WriteSnapshot, RefreshSmartIfDue, RefreshSmartEnd, NotRefreshing
<1>4. CASE db' = db
  BY <1>1, <1>2, <1>3, <1>4 DEF IInv, TypeOK, GoodTables, Keeps
<1>5. CASE db' # db
  <2>1. tx = NoTx /\ \E ps \in SUBSET Plugins, t \in Time : db' = WithSample(ps, t)
    <3>1. tick.at \in Time /\ refresh.at \in Time
      BY DEF IInv, TypeOK
    <3>2. enabled \ SmartPlugins \in SUBSET Plugins /\ enabled \cap SmartPlugins \in SUBSET Plugins
      BY DEF IInv, TypeOK
    <3> QED
      BY <1>5, <3>1, <3>2 DEF WriteSnapshot, RefreshSmartIfDue, RefreshSmartEnd
  <2>2. db' \in Tables /\ GoodTables(db')
    BY <2>1, SampleKeepsInvariant
  <2> QED
    BY <1>1, <1>2, <1>3, <2>1, <2>2 DEF IInv, TypeOK, GoodTables
<1> QED
  BY <1>4, <1>5

\* Actions that write no table.
LEMMA OthersCorrect ==
  ASSUME IInv,
         \/ Advance \/ StepBack \/ SetHistoryPlugins \/ Crash \/ TickFires
         \/ TickFails \/ RefreshSmartStart \/ Rollback
  PROVE  IInv'
<1>1. db' = db /\ (tx' = tx \/ tx' = NoTx)
  BY DEF Advance, StepBack, SetHistoryPlugins, Crash, TickFires, TickFails,
         RefreshSmartStart, Rollback, EndTx
<1>2. clock' \in Time
  <2>1. CASE Advance \/ StepBack
    BY <2>1, BoundsAssumption DEF IInv, TypeOK, Advance, StepBack
  <2>2. CASE ~(Advance \/ StepBack)
    BY <2>2 DEF IInv, TypeOK, SetHistoryPlugins, Crash, TickFires, TickFails,
                RefreshSmartStart, Rollback, EndTx
  <2> QED
    BY <2>1, <2>2
<1>3. enabled' \in SUBSET Plugins
  BY DEF IInv, TypeOK, Advance, StepBack, SetHistoryPlugins, Crash, TickFires, TickFails,
         RefreshSmartStart, Rollback, EndTx
<1>4. tick' \in [stage : {"idle", "gathering", "smart", "maintain"}, at : Time]
  BY DEF IInv, TypeOK, Advance, StepBack, SetHistoryPlugins, Crash, TickFires, TickFails,
         RefreshSmartStart, Rollback, EndTx
<1>5. refresh' \in [stage : {"idle", "probing"}, at : Time]
  BY BoundsAssumption DEF IInv, TypeOK, Advance, StepBack, SetHistoryPlugins, Crash,
         TickFires, TickFails, RefreshSmartStart, Rollback, EndTx, NotRefreshing
<1> QED
  BY <1>1, <1>2, <1>3, <1>4, <1>5 DEF IInv, TypeOK, GoodTables, Keeps

-----------------------------------------------------------------------------
(* The theorems.                                                            *)

LEMMA InitCorrect == Init => IInv
<1> SUFFICES ASSUME Init PROVE IInv
  OBVIOUS
<1>1. 0 \in Time
  BY BoundsAssumption
<1>2. db \in Tables /\ \A p \in Plugins, l \in LongLevel : db[p][l] = {}
  BY LevelFacts DEF Init, Tables
<1> QED
  BY <1>1, <1>2 DEF Init, IInv, TypeOK, GoodTables, Spaced, OwnWindow, NotRefreshing

LEMMA Inductive == IInv /\ [Next]_vars => IInv'
<1> SUFFICES ASSUME IInv, [Next]_vars PROVE IInv'
  OBVIOUS
<1>1. CASE RollupStep
  BY <1>1, RollupStepCorrect
<1>2. CASE DeleteOldHistory
  BY <1>2, DeleteOldHistoryCorrect
<1>3. CASE BeginMaintenance
  BY <1>3, BeginCorrect
<1>4. CASE Commit
  BY <1>4, CommitCorrect
<1>5. CASE WriteSnapshot \/ RefreshSmartIfDue \/ RefreshSmartEnd
  BY <1>5, WriterCorrect
<1>6. CASE \/ Advance \/ StepBack \/ SetHistoryPlugins \/ Crash \/ TickFires
           \/ TickFails \/ RefreshSmartStart \/ Rollback
  BY <1>6, OthersCorrect
<1>7. CASE UNCHANGED vars
  BY <1>7 DEF vars, IInv, TypeOK, GoodTables, Keeps
<1> QED
  BY <1>1, <1>2, <1>3, <1>4, <1>5, <1>6, <1>7 DEF Next

LEMMA Invariance == Spec => []IInv
BY InitCorrect, Inductive, PTL DEF Spec

\* Every variable of the store, the collector and the transaction keeps its
\* type, whatever the windows, minima and retentions are.
THEOREM TypeCorrect == Spec => []TypeOK
<1>1. IInv => TypeOK
  BY DEF IInv
<1> QED
  BY <1>1, Invariance, PTL

\* applyRollupStep never averages a shorter row into two longer rows.
THEOREM NoSampleTwice == Spec => []NoDoubleAggregation
<1>1. IInv => NoDoubleAggregation
  <2> SUFFICES ASSUME IInv, NEW t \in TablesInUse, NEW p \in Plugins, NEW l \in LongLevel,
                      NEW r \in t[p][l], NEW s \in t[p][l], r # s
               PROVE  r.from \cap s.from = {}
    BY DEF NoDoubleAggregation
  <2>1. t \in Tables /\ GoodTables(t)
    BY TxType DEF IInv, TypeOK, TablesInUse
  <2>2. r \in Row /\ s \in Row
    BY <2>1, LevelFacts DEF Tables
  <2>3. Window[l] \in Nat \ {0}
    BY WindowAssumption
  <2>4. r.at + Window[l] <= s.at \/ s.at + Window[l] <= r.at
    BY <2>1 DEF GoodTables, Spaced
  <2>5. /\ \A a \in r.from : a \in Int /\ r.at - Window[l] < a /\ a <= r.at
        /\ \A a \in s.from : a \in Int /\ s.at - Window[l] < a /\ a <= s.at
    BY <2>1, <2>2 DEF GoodTables, OwnWindow, Row
  <2> QED
    BY <2>2, <2>3, <2>4, <2>5 DEF Row
<1> QED
  BY <1>1, Invariance, PTL

\* A committed longer row is never rewritten and leaves only by retention.
THEOREM AggregatesFinal == Spec => AggregatesAreFinal
<1> DEFINE Final == \A p \in Plugins, l \in LongLevel : \A r \in db[p][l] :
                      r \in db'[p][l] \/ (tx # NoTx /\ r.at < tx.now - Retention[l])
<1>1. IInv /\ [Next]_vars => Final
  <2> SUFFICES ASSUME IInv, [Next]_vars PROVE Final
    OBVIOUS
  <2>1. CASE Commit
    BY <2>1 DEF Commit, IInv, Keeps
  <2>2. CASE WriteSnapshot \/ RefreshSmartIfDue \/ RefreshSmartEnd
    <3>1. tick.at \in Time /\ refresh.at \in Time
      BY DEF IInv, TypeOK
    <3>2. enabled \ SmartPlugins \in SUBSET Plugins /\ enabled \cap SmartPlugins \in SUBSET Plugins
      BY DEF IInv, TypeOK
    <3>3. db' = db \/ \E ps \in SUBSET Plugins, t \in Time : db' = WithSample(ps, t)
      BY <2>2, <3>1, <3>2 DEF WriteSnapshot, RefreshSmartIfDue, RefreshSmartEnd
    <3> QED
      BY <3>3, SampleKeepsInvariant
  <2>3. CASE ~ (Commit \/ WriteSnapshot \/ RefreshSmartIfDue \/ RefreshSmartEnd)
    <3>1. db' = db
      BY <2>3 DEF Next, vars, Advance, StepBack, SetHistoryPlugins, Crash, TickFires, TickFails,
         RefreshSmartStart, BeginMaintenance, RollupStep, DeleteOldHistory, Rollback
    <3> QED
      BY <3>1
  <2> QED
    BY <2>1, <2>2, <2>3
<1>2. IInv /\ [Next]_vars => [Final]_vars
  BY <1>1
<1> QED
  BY <1>2, Invariance, PTL DEF Spec, AggregatesAreFinal

-----------------------------------------------------------------------------
(* The windows that a rollup step looks at.                                 *)

\* What the quotient of the window arithmetic means.
LEMMA Quotient ==
  ASSUME NEW w \in Nat \ {0}, NEW n \in Int, NEW k \in Int
  PROVE  k <= n \div w <=> k * w <= n
<1> DEFINE q == n \div w
<1>1. q \in Int /\ q * w <= n /\ n < q * w + w
  OBVIOUS
<1> HIDE DEF q
<1>2. \A a, b \in Nat : a * b \in Nat
  OBVIOUS
<1>3. CASE k <= q
  <2>1. q - k \in Nat /\ (q - k) * w \in Nat
    BY <1>1, <1>2, <1>3
  <2>2. q * w = k * w + (q - k) * w
    BY <1>1
  <2>3. k * w \in Int /\ q * w \in Int
    BY <1>1
  <2>4. k * w <= n
    BY <1>1, <2>1, <2>2, <2>3
  <2> QED
    BY <1>3, <2>4 DEF q
<1>4. CASE ~ (k <= q)
  <2>1. k - q - 1 \in Nat /\ (k - q - 1) * w \in Nat
    BY <1>1, <1>2, <1>4
  <2>2. k * w = q * w + w + (k - q - 1) * w
    BY <1>1
  <2>3. k * w \in Int /\ q * w \in Int
    BY <1>1
  <2>4. ~ (k * w <= n)
    BY <1>1, <2>1, <2>2, <2>3
  <2> QED
    BY <1>4, <2>4 DEF q
<1> QED
  BY <1>3, <1>4

\* x is the end of a window of the chain of level l that continues at c.
OnChain(x, c, l) == \E k \in Nat : x = c + k * Window[l]

(***************************************************************************)
(* The windows a rollup step looks at are those of the chain that end      *)
(* after the oldest shorter row that is kept, and not in the future.       *)
(***************************************************************************)
LEMMA ChainEnds ==
  ASSUME NEW l \in LongLevel, NEW c \in Int, NEW now \in Int, NEW x
  PROVE  x \in Cursors(SkipExpired(c, l, now), l, now)
           <=> OnChain(x, c, l) /\ OldestUseful(l, now) < x /\ x <= now
<1> DEFINE w == Window[l]
           o == OldestUseful(l, now)
           s == SkipExpired(c, l, now)
<1>1. w \in Nat \ {0} /\ o \in Int
  BY WindowAssumption, RetentionAssumption, LevelsAssumption DEF OldestUseful
<1>2. \E j \in Nat : /\ s = c + j * w
                     /\ o < s
                     /\ \A k \in Nat : o < c + k * w => j <= k
  <2>1. CASE c <= o
    <3> DEFINE q == (o - c) \div w
    <3>1. q \in Int /\ 0 <= q
      <4>1. o - c \in Int /\ 0 * w <= o - c
        BY <1>1, <2>1
      <4> QED
        BY <1>1, <4>1, Quotient
    <3>2. s = c + (q + 1) * w
      BY <2>1 DEF SkipExpired
    <3>3. \A k \in Int : k <= q <=> k * w <= o - c
      BY <1>1, <2>1, Quotient
    <3> HIDE DEF q, s, w, o
    <3>4. \A k \in Int : k * w \in Int
      BY <1>1
    <3>5. \A k \in Int : q + 1 <= k <=> o < c + k * w
      BY <1>1, <3>1, <3>3, <3>4
    <3> QED
      BY <3>1, <3>2, <3>5
  <2>2. CASE ~ (c <= o)
    <3>1. s = c + 0 * w /\ o < s
      BY <1>1, <2>2 DEF SkipExpired
    <3> QED
      BY <3>1
  <2> QED
    BY <2>1, <2>2
<1>3. PICK j \in Nat : /\ s = c + j * w
                      /\ o < s
                      /\ \A k \in Nat : o < c + k * w => j <= k
  BY <1>2
<1>4. s \in Int
  BY SkipForward
<1>5. \A k \in Int : k <= (now - s) \div w <=> k * w <= now - s
  BY <1>1, <1>4, Quotient
<1>6. x \in Cursors(s, l, now) <=> \E k \in 0 .. ((now - s) \div w) : x = s + k * w
  BY DEF Cursors
<1>7. (now - s) \div w \in Int
  BY <1>1, <1>4
<1> HIDE DEF s, w, o
<1>8. \A k \in Int : k * w \in Int
  BY <1>1
<1>9. ASSUME NEW k \in 0 .. ((now - s) \div w), x = s + k * w
      PROVE  OnChain(x, c, l) /\ o < x /\ x <= now
  <2>1. k \in Nat /\ k * w <= now - s /\ k * w \in Nat
    BY <1>1, <1>5, <1>7
  <2>2. j + k \in Nat /\ x = c + (j + k) * w
    BY <1>1, <1>3, <1>9, <2>1
  <2>3. OnChain(x, c, l)
    BY <2>2 DEF OnChain, w
  <2>4. o < x /\ x <= now
    BY <1>1, <1>3, <1>4, <1>9, <2>1
  <2> QED
    BY <2>3, <2>4
<1>10. ASSUME OnChain(x, c, l), o < x, x <= now
       PROVE  \E k \in 0 .. ((now - s) \div w) : x = s + k * w
  <2>1. PICK m \in Nat : x = c + m * w
    BY <1>10 DEF OnChain, w
  <2>2. j <= m
    BY <1>3, <1>10, <2>1
  <2>3. x = s + (m - j) * w
    BY <1>1, <1>3, <2>1
  <2>4. (m - j) * w <= now - s
    BY <1>4, <1>8, <1>10, <2>3
  <2>5. m - j \in 0 .. ((now - s) \div w)
    BY <1>5, <1>7, <2>2, <2>4
  <2> QED
    BY <2>3, <2>5
<1> QED
  BY <1>6, <1>9, <1>10 DEF s, o

\* The chain that continues after a window of a chain is a later part of that chain.
LEMMA ChainGoesOn ==
  ASSUME NEW l \in LongLevel, NEW c \in Int, NEW x, OnChain(x, c, l),
         NEW y, OnChain(y, x + Window[l], l)
  PROVE  OnChain(y, c, l) /\ x \in Int /\ y \in Int /\ c <= x /\ x < y
<1> DEFINE w == Window[l]
<1>1. w \in Nat \ {0}
  BY WindowAssumption
<1>2. PICK j \in Nat : x = c + j * w
  BY DEF OnChain
<1>3. PICK k \in Nat : y = x + w + k * w
  BY DEF OnChain
<1> HIDE DEF w
<1>4. \A a, b \in Nat : a * b \in Nat
  OBVIOUS
<1>5. j * w \in Nat /\ k * w \in Nat /\ (j + k + 1) * w \in Nat
  BY <1>1, <1>4
<1>6. y = c + (j + k + 1) * w
  BY <1>1, <1>2, <1>3
<1>7. OnChain(y, c, l)
  BY <1>6 DEF OnChain, w
<1> QED
  BY <1>1, <1>2, <1>3, <1>5, <1>7

-----------------------------------------------------------------------------
(* Maintenance catches up.                                                  *)

\* No window that the chain of level l has before it at time now could be rolled up.
Caught(h, l, now) ==
  \A r \in h[l] : IsLatest(r.at, h[l]) =>
    \A x \in Cursors(SkipExpired(r.at + Window[l], l, now), l, now) : ~ Dense(h[l - 1], l, x)

\* The resolutions that the open transaction has rolled up are caught up.
CatchUpInv ==
  tx # NoTx /\ tx.todo # {} =>
    \A l \in LongLevel : l < tx.step => Caught(tx.work[Current], l, tx.now)

(***************************************************************************)
(* One rollup step catches its resolution up: the last row is then that of *)
(* the last dense window, or the one the chain continued from.             *)
(***************************************************************************)
LEMMA StepCatchesUp ==
  ASSUME NEW l \in LongLevel, NEW h \in [Level -> SUBSET Row], NEW c \in Int, NEW now \in Int,
         ChainStart(c, h[l], l, now),
         NEW g, g[l] = Upsert(h[l], RolledUp(h[l - 1], l, c, now)), g[l - 1] = h[l - 1]
  PROVE  Caught(g, l, now)
<1> DEFINE w == Window[l]
           new == RolledUp(h[l - 1], l, c, now)
<1>1. w \in Nat \ {0} /\ h[l] \in SUBSET Row /\ h[l - 1] \in SUBSET Row
  BY WindowAssumption, LevelFacts
<1>2. \A r \in h[l] : r.at + w <= c
  BY <1>1, ChainAfterRows
<1>3. \A n \in new : n \in Row /\ c <= n.at
  BY <1>1, RolledUpRows
<1> DEFINE ends == Cursors(SkipExpired(c, l, now), l, now)
<1>4. /\ \A n \in new : n.at \in ends
      /\ \A x \in ends : Dense(h[l - 1], l, x) => \E n \in new : n.at = x
  <2>1. \A x : Aggregate(h[l - 1], l, x).at = x
    BY DEF Aggregate
  <2> QED
    BY <2>1 DEF RolledUp
<1> HIDE DEF ends
<1>5. \A x : x \in ends <=> OnChain(x, c, l) /\ OldestUseful(l, now) < x /\ x <= now
  BY ChainEnds DEF ends
<1>6. g[l] = h[l] \cup new
  <2>1. g[l] = Upsert(h[l], new)
    OBVIOUS
  <2> HIDE DEF new
  <2>2. \A r \in h[l], n \in new : n.at # r.at
    BY <1>1, <1>2, <1>3 DEF Row
  <2> QED
    BY <2>1, <2>2 DEF Upsert
<1> HIDE DEF new
<1> SUFFICES ASSUME NEW r \in g[l], IsLatest(r.at, g[l]),
                    NEW x \in Cursors(SkipExpired(r.at + w, l, now), l, now),
                    Dense(h[l - 1], l, x)
             PROVE  FALSE
  BY DEF Caught
<1>7. r \in Row /\ r.at \in Int
  BY <1>1, <1>3, <1>6 DEF Row
<1>8. OnChain(x, r.at + w, l) /\ OldestUseful(l, now) < x /\ x <= now
  BY <1>1, <1>7, ChainEnds
<1>9. \A s \in g[l] : s.at <= r.at
  BY DEF IsLatest
<1>10. CASE r \in new
  <2>0. OnChain(r.at, c, l)
    BY <1>4, <1>5, <1>10
  <2>1. OnChain(x, c, l) /\ r.at < x
    BY <1>8, <2>0, ChainGoesOn
  <2>2. PICK n \in new : n.at = x
    BY <1>4, <1>5, <1>8, <2>1
  <2> QED
    BY <1>3, <1>6, <1>7, <1>9, <2>1, <2>2 DEF Row
<1>11. CASE r \notin new
  <2>1. r \in h[l] /\ h[l] # {}
    BY <1>6, <1>11
  <2>2. IsLatest(c - w, h[l])
    BY <2>1 DEF ChainStart
  <2>3. PICK s \in h[l] : s.at = c - w
    BY <2>2 DEF IsLatest
  <2>4. c = r.at + w
    <3>1. r.at <= c - w
      BY <2>1, <2>2 DEF IsLatest
    <3>2. c - w <= r.at
      BY <1>6, <1>9, <2>3
    <3> QED
      BY <1>1, <1>7, <3>1, <3>2
  <2>5. PICK n \in new : n.at = x
    BY <1>4, <1>5, <1>8, <2>4
  <2>6. c <= x /\ x <= r.at /\ x \in Int
    BY <1>3, <1>6, <1>9, <2>5 DEF Row
  <2> QED
    BY <1>1, <1>7, <2>4, <2>6
<1> QED
  BY <1>10, <1>11

\* What a rollup step does to the tables of the transaction.
LEMMA RollupStepEffect ==
  ASSUME IInv, RollupStep
  PROVE  \E c \in Int :
           /\ ChainStart(c, tx.work[Current][tx.step], tx.step, tx.now)
           /\ tx.step \in LongLevel /\ Current \in Plugins
           /\ tx.work \in Tables /\ tx'.work \in Tables
           /\ tx' # NoTx /\ tx'.owner = tx.owner /\ tx'.now = tx.now /\ tx'.todo = tx.todo
           /\ tx'.targets = tx.targets /\ tx'.step = tx.step + 1
           /\ \A q \in Plugins, m \in Level :
                tx'.work[q][m] =
                  IF q = Current /\ m = tx.step
                    THEN Upsert(tx.work[q][m], RolledUp(tx.work[q][m - 1], m, c, tx.now))
                    ELSE tx.work[q][m]
<1>1. /\ tx \in OpenTx /\ tx.work \in Tables /\ tx.now \in Int /\ Current \in Plugins
      /\ tx.step \in LongLevel
  BY TxType, LevelsAssumption DEF IInv, RollupStep, OpenTx
<1> DEFINE p == Current
           h == tx.work[p]
           l == tx.step
<1>2. PICK c \in {r.at + Window[l] : r \in h[l]} \cup {tx.now} :
        /\ ChainStart(c, h[l], l, tx.now)
        /\ tx' = [tx EXCEPT
                    !.step = l + 1,
                    !.work[p][l] = Upsert(@, RolledUp(h[l - 1], l, c, tx.now))]
  BY DEF RollupStep
<1>3. h \in [Level -> SUBSET Row] /\ l \in Level
  BY <1>1, LevelFacts DEF Tables
<1>4. c \in Int
  <2>1. \A r \in h[l] : r \in Row
    BY <1>3
  <2> HIDE DEF h
  <2>2. Window[l] \in Nat \ {0}
    BY <1>1, WindowAssumption
  <2>3. \A r \in h[l] : r.at + Window[l] \in Int
    BY <2>1, <2>2 DEF Row
  <2> QED
    BY <1>1, <1>2, <2>3
<1> DEFINE up == Upsert(h[l], RolledUp(h[l - 1], l, c, tx.now))
           work == [tx.work EXCEPT ![p] = [tx.work[p] EXCEPT ![l] = up]]
<1> HIDE DEF up
<1>5. tx' = [tx EXCEPT !.step = l + 1, !.work = work]
  BY <1>1, <1>2, <1>3 DEF OpenTx, Tables, up
<1>6. \A q \in Plugins, m \in Level :
        work[q][m] = IF q = p /\ m = l THEN up ELSE tx.work[q][m]
  BY <1>1, <1>3 DEF Tables
<1> HIDE DEF work
<1>7. /\ tx'.work = work /\ tx'.owner = tx.owner /\ tx'.now = tx.now /\ tx'.todo = tx.todo
      /\ tx'.targets = tx.targets /\ tx'.step = l + 1
  BY <1>1, <1>5 DEF OpenTx
<1>8. tx' # NoTx
  <2>1. tx'.owner \in {"collector", "command"}
    BY <1>1, <1>7 DEF OpenTx
  <2> QED
    BY <2>1 DEF NoTx
<1>9. tx'.work \in Tables
  <2>1. TypeOK'
    BY RollupStepCorrect DEF IInv
  <2>2. tx' \in OpenTx
    BY <1>8, <2>1 DEF TypeOK
  <2> QED
    BY <2>2 DEF OpenTx
<1>10. \A q \in Plugins, m \in Level :
         tx'.work[q][m] =
           IF q = Current /\ m = tx.step
             THEN Upsert(tx.work[q][m], RolledUp(tx.work[q][m - 1], m, c, tx.now))
             ELSE tx.work[q][m]
  BY <1>6, <1>7 DEF up
<1> QED
  BY <1>1, <1>2, <1>4, <1>7, <1>8, <1>9, <1>10

(***************************************************************************)
(* CaughtUpBeforeDelete for any resolutions, windows, minima, retentions,  *)
(* commands and clocks: a rollup pass leaves no window behind that the     *)
(* deletion could take the rows of.                                        *)
(***************************************************************************)
THEOREM CatchesUp == Spec => []CaughtUpBeforeDelete
<1>1. Init => CatchUpInv
  BY DEF Init, CatchUpInv
<1>2. IInv /\ CatchUpInv /\ [Next]_vars => CatchUpInv'
  <2> SUFFICES ASSUME IInv, CatchUpInv, [Next]_vars PROVE CatchUpInv'
    OBVIOUS
  <2>1. CASE RollupStep
    <3>1. PICK c \in Int :
           /\ ChainStart(c, tx.work[Current][tx.step], tx.step, tx.now)
           /\ tx.step \in LongLevel /\ Current \in Plugins
           /\ tx.work \in Tables /\ tx'.work \in Tables
           /\ tx' # NoTx /\ tx'.owner = tx.owner /\ tx'.now = tx.now /\ tx'.todo = tx.todo
           /\ tx'.targets = tx.targets /\ tx'.step = tx.step + 1
           /\ \A q \in Plugins, m \in Level :
                tx'.work[q][m] =
                  IF q = Current /\ m = tx.step
                    THEN Upsert(tx.work[q][m], RolledUp(tx.work[q][m - 1], m, c, tx.now))
                    ELSE tx.work[q][m]
      BY <2>1, RollupStepEffect
    <3>2. Current' = Current /\ tx # NoTx /\ tx.todo # {} /\ tx.now \in Int
      BY <2>1, <3>1, TxType DEF RollupStep, Current, IInv
    <3> DEFINE h == tx.work[Current]
               g == tx'.work[Current]
    <3>3. h \in [Level -> SUBSET Row]
      BY <3>1 DEF Tables
    <3>4. \A m \in Level : m # tx.step => g[m] = h[m]
      BY <3>1
    <3>5. g[tx.step] = Upsert(h[tx.step], RolledUp(h[tx.step - 1], tx.step, c, tx.now))
      BY <3>1, LevelFacts
    <3> HIDE DEF h, g
    <3>6. tx.step - 1 \in Level /\ tx.step - 1 # tx.step
      BY <3>1, LevelFacts
    <3>7. Caught(g, tx.step, tx.now)
      BY <3>1, <3>2, <3>3, <3>4, <3>5, <3>6, StepCatchesUp DEF h
    <3>8. ASSUME NEW l \in LongLevel, l < tx.step PROVE Caught(g, l, tx.now)
      <4>1. Caught(h, l, tx.now)
        BY <3>2, <3>8 DEF CatchUpInv, h
      <4>2. l # tx.step /\ l - 1 # tx.step /\ l \in Level /\ l - 1 \in Level
        BY <3>1, <3>8, LevelFacts
      <4> QED
        BY <3>4, <4>1, <4>2 DEF Caught
    <3>9. ASSUME NEW l \in LongLevel, l < tx'.step PROVE Caught(g, l, tx.now)
      <4>1. l < tx.step \/ l = tx.step
        BY <3>1, <3>9, LevelFacts
      <4> QED
        BY <3>7, <3>8, <4>1
    <3> QED
      BY <3>1, <3>2, <3>9 DEF CatchUpInv, g
  <2>2. CASE DeleteOldHistory \/ BeginMaintenance
    <3>1. tx' # NoTx => tx'.step = 2
      <4>1. tx # NoTx => tx \in OpenTx
        BY TxType DEF IInv
      <4>2. CASE DeleteOldHistory
        BY <4>1, <4>2 DEF DeleteOldHistory, OpenTx
      <4>3. CASE BeginMaintenance
        BY <4>3 DEF BeginMaintenance, Begin
      <4> QED
        BY <2>2, <4>2, <4>3
    <3> QED
      BY <3>1 DEF CatchUpInv
  <2>3. CASE Commit \/ Rollback \/ Crash
    BY <2>3 DEF Commit, Rollback, Crash, EndTx, CatchUpInv
  <2>4. CASE ~ (RollupStep \/ DeleteOldHistory \/ BeginMaintenance \/ Commit \/ Rollback \/ Crash)
    <3>1. tx' = tx
      BY <2>4 DEF Next, vars, Advance, StepBack, SetHistoryPlugins, TickFires, TickFails,
                  WriteSnapshot, RefreshSmartIfDue, RefreshSmartStart, RefreshSmartEnd
    <3> QED
      BY <3>1 DEF CatchUpInv, Current
  <2> QED
    BY <2>1, <2>2, <2>3, <2>4
<1>3. CatchUpInv => CaughtUpBeforeDelete
  <2> SUFFICES ASSUME CatchUpInv, tx # NoTx, tx.todo # {}, tx.step = TopLevel + 1,
                      NEW l \in LongLevel
               PROVE  Caught(tx.work[Current], l, tx.now)
    BY DEF CaughtUpBeforeDelete, Caught
  <2>1. l < tx.step
    BY LevelsAssumption
  <2> QED
    BY <2>1 DEF CatchUpInv
<1> QED
  BY <1>1, <1>2, <1>3, Invariance, PTL DEF Spec

-----------------------------------------------------------------------------
(* The tables stay finite.                                                  *)

\* A rollup step looks at finitely many windows and inserts a row for each at most.
LEMMA FinitelyRolledUp ==
  ASSUME NEW l \in LongLevel, NEW c \in Int, NEW now \in Int, NEW shorter
  PROVE  IsFiniteSet(RolledUp(shorter, l, c, now))
<1> DEFINE s == SkipExpired(c, l, now)
           n == (now - s) \div Window[l]
           ends == Cursors(s, l, now)
<1>1. s \in Int
  BY SkipForward
<1> HIDE DEF s
<1>2. n \in Int
  BY <1>1, WindowAssumption
<1> HIDE DEF n
<1>3. IsFiniteSet(0 .. n)
  BY <1>2, FS_Interval
<1>4. IsFiniteSet(ends)
  <2> DEFINE f == [k \in 0 .. n |-> s + k * Window[l]]
  <2>1. f \in Surjection(0 .. n, ends)
    BY DEF Surjection, Cursors, n
  <2> QED
    BY <1>3, <2>1, FS_Surjection
<1> DEFINE dense == {y \in ends : Dense(shorter, l, y)}
           g == [x \in dense |-> Aggregate(shorter, l, x)]
<1>5. IsFiniteSet(dense)
  BY <1>4, FS_Subset
<1>6. RolledUp(shorter, l, c, now) = {Aggregate(shorter, l, x) : x \in dense}
  BY DEF RolledUp, s
<1> HIDE DEF dense
<1>7. g \in Surjection(dense, RolledUp(shorter, l, c, now))
  BY <1>6 DEF Surjection
<1> QED
  BY <1>5, <1>7, FS_Surjection

\* Inserting finitely many rows.
LEMMA FinitelyMany ==
  ASSUME NEW rows, NEW new, IsFiniteSet(rows), IsFiniteSet(new)
  PROVE  IsFiniteSet(Upsert(rows, new))
<1>1. IsFiniteSet({r \in rows : \A n \in new : n.at # r.at})
  BY FS_Subset
<1> QED
  BY <1>1, FS_Union DEF Upsert

FiniteTables(t) == \A p \in Plugins, l \in Level : IsFiniteSet(t[p][l])

FiniteInv == FiniteTables(db) /\ (tx # NoTx => FiniteTables(tx.work))

\* Writing samples keeps the tables finite.
LEMMA FiniteSamples ==
  ASSUME TypeOK, FiniteTables(db), NEW ps \in SUBSET Plugins, NEW t
  PROVE  FiniteTables(WithSample(ps, t))
<1> SUFFICES ASSUME NEW p \in Plugins, NEW l \in Level
             PROVE  IsFiniteSet(WithSample(ps, t)[p][l])
  BY DEF FiniteTables
<1>1. IsFiniteSet(Upsert(db[p][1], {Sample(t)}))
  BY FS_Singleton, FinitelyMany, LevelFacts DEF FiniteTables
<1>2. WithSample(ps, t)[p][l] \in {db[p][l], Upsert(db[p][1], {Sample(t)})}
  BY LevelFacts DEF WithSample, TypeOK, Tables
<1> QED
  BY <1>1, <1>2 DEF FiniteTables

\* No table ever holds infinitely many rows.
LEMMA Finiteness == Spec => []FiniteInv
<1>1. Init => FiniteInv
  <2> SUFFICES ASSUME Init PROVE FiniteInv
    OBVIOUS
  <2>1. \A p \in Plugins, l \in Level : db[p][l] = {}
    BY DEF Init
  <2> QED
    BY <2>1, FS_EmptySet DEF Init, FiniteInv, FiniteTables
<1>2. IInv /\ FiniteInv /\ [Next]_vars => FiniteInv'
  <2> SUFFICES ASSUME IInv, FiniteInv, [Next]_vars PROVE FiniteInv'
    OBVIOUS
  <2>1. CASE RollupStep
    <3>1. PICK c \in Int :
           /\ tx.step \in LongLevel /\ Current \in Plugins
           /\ \A q \in Plugins, m \in Level :
                tx'.work[q][m] =
                  IF q = Current /\ m = tx.step
                    THEN Upsert(tx.work[q][m], RolledUp(tx.work[q][m - 1], m, c, tx.now))
                    ELSE tx.work[q][m]
      BY <2>1, RollupStepEffect
    <3>2. tx # NoTx /\ db' = db /\ tx.now \in Int
      BY <2>1, TxType DEF RollupStep, IInv
    <3>3. ASSUME NEW q \in Plugins, NEW m \in Level PROVE IsFiniteSet(tx'.work[q][m])
      <4>1. IsFiniteSet(tx.work[q][m])
        BY <3>2 DEF FiniteInv, FiniteTables
      <4>2. m = tx.step => IsFiniteSet(RolledUp(tx.work[q][m - 1], m, c, tx.now))
        BY <3>1, <3>2, FinitelyRolledUp
      <4>3. m = tx.step =>
              IsFiniteSet(Upsert(tx.work[q][m], RolledUp(tx.work[q][m - 1], m, c, tx.now)))
        BY <4>1, <4>2, FinitelyMany
      <4> QED
        BY <3>1, <4>1, <4>3
    <3> QED
      BY <3>2, <3>3 DEF FiniteInv, FiniteTables
  <2>2. CASE DeleteOldHistory
    <3>1. /\ tx # NoTx /\ tx \in OpenTx /\ tx.work \in Tables /\ Current \in Plugins /\ db' = db
          /\ tx' = [tx EXCEPT !.todo = @ \ {Current}, !.step = 2,
                              !.work[Current] = Unexpired(@, tx.now)]
      BY <2>2, TxType DEF DeleteOldHistory, IInv
    <3>2. tx'.work = [tx.work EXCEPT ![Current] = Unexpired(@, tx.now)]
      BY <3>1 DEF OpenTx
    <3>3. ASSUME NEW q \in Plugins, NEW m \in Level PROVE IsFiniteSet(tx'.work[q][m])
      <4>1. tx'.work[q][m] \subseteq tx.work[q][m]
        BY <3>1, <3>2 DEF Unexpired, Tables
      <4> QED
        BY <3>1, <4>1, FS_Subset DEF FiniteInv, FiniteTables
    <3> QED
      BY <3>1, <3>3 DEF FiniteInv, FiniteTables
  <2>3. CASE BeginMaintenance
    <3>1. tx'.work = db /\ db' = db
      BY <2>3 DEF BeginMaintenance, Begin
    <3> QED
      BY <3>1 DEF FiniteInv, FiniteTables
  <2>4. CASE Commit \/ Rollback \/ Crash
    BY <2>4 DEF Commit, Rollback, Crash, EndTx, FiniteInv, FiniteTables
  <2>5. CASE WriteSnapshot \/ RefreshSmartIfDue \/ RefreshSmartEnd
    <3>1. TypeOK /\ FiniteTables(db) /\ tx' = tx
      BY <2>5 DEF WriteSnapshot, RefreshSmartIfDue, RefreshSmartEnd, IInv, FiniteInv
    <3>2. enabled \ SmartPlugins \in SUBSET Plugins /\ enabled \cap SmartPlugins \in SUBSET Plugins
      BY <3>1 DEF TypeOK
    <3>3. db' = db \/ \E ps \in SUBSET Plugins : \E t : db' = WithSample(ps, t)
      BY <2>5, <3>2 DEF WriteSnapshot, RefreshSmartIfDue, RefreshSmartEnd
    <3>4. FiniteTables(db')
      BY <3>1, <3>3, FiniteSamples
    <3> QED
      BY <3>1, <3>4 DEF FiniteInv, FiniteTables
  <2>6. CASE ~ (\/ RollupStep \/ DeleteOldHistory \/ BeginMaintenance \/ Commit \/ Rollback
                \/ Crash \/ WriteSnapshot \/ RefreshSmartIfDue \/ RefreshSmartEnd)
    <3>1. tx' = tx /\ db' = db
      BY <2>6 DEF Next, vars, Advance, StepBack, SetHistoryPlugins, TickFires, TickFails,
                  RefreshSmartStart
    <3> QED
      BY <3>1 DEF FiniteInv, FiniteTables
  <2> QED
    BY <2>1, <2>2, <2>3, <2>4, <2>5, <2>6
<1> QED
  BY <1>1, <1>2, Invariance, PTL DEF Spec

-----------------------------------------------------------------------------
(* Rows average all of their window.                                        *)

\* The rows until time m.
UpTo(rows, m) == {r \in rows : r.at <= m}

\* The rows of level l average all rows of their windows.
Whole(t, l) ==
  \A r \in t[l], s \in t[l - 1] : r.at - Window[l] < s.at /\ s.at <= r.at => s.at \in r.from

(***************************************************************************)
(* The tables t of a plugin are as maintenance for time m left them: what  *)
(* could be rolled up until m has been, with all the rows there were.      *)
(***************************************************************************)
Settled(t, m) ==
  \A l \in LongLevel : (\A r \in t[l] : r.at <= m) /\ Whole(t, l) /\ Caught(t, l, m)

(***************************************************************************)
(* The tables t are those of d, settled for time m, after the levels below *)
(* k have been rolled up for time now.                                     *)
(***************************************************************************)
PartlyDone(t, d, k, m, now) ==
  /\ \A l \in Level : UpTo(t[l], m) = UpTo(d[l], m)
  /\ \A l \in LongLevel : l >= k => t[l] = d[l]
  /\ \A l \in LongLevel : l < k => /\ \A r \in t[l] : r.at <= now
                                  /\ Whole(t, l)
                                  /\ Caught(t, l, now)

\* What is dense depends on the rows of the window only.
LEMMA DenseUpTo ==
  ASSUME NEW m \in Int, NEW x \in Int, x <= m, NEW l \in LongLevel,
         NEW a \in SUBSET Row, NEW b \in SUBSET Row, UpTo(a, m) = UpTo(b, m)
  PROVE  Dense(a, l, x) <=> Dense(b, l, x)
<1>1. InWindow(a, l, x) = InWindow(b, l, x)
  BY WindowAssumption DEF InWindow, UpTo, Row
<1> QED
  BY <1>1 DEF Dense

\* Rows after time m leave tables that were settled for m settled for it.
LEMMA NewerSamples ==
  ASSUME NEW t \in [Level -> SUBSET Row], NEW d \in [Level -> SUBSET Row], NEW m \in Int,
         Settled(d, m), UpTo(t[1], m) = UpTo(d[1], m), \A l \in LongLevel : t[l] = d[l]
  PROVE  Settled(t, m)
<1> SUFFICES ASSUME NEW l \in LongLevel
             PROVE  (\A r \in t[l] : r.at <= m) /\ Whole(t, l) /\ Caught(t, l, m)
  BY DEF Settled
<1>1. /\ l - 1 \in Level /\ l \in Level /\ t[l] = d[l] /\ UpTo(t[l - 1], m) = UpTo(d[l - 1], m)
      /\ t[l] \in SUBSET Row /\ t[l - 1] \in SUBSET Row /\ d[l - 1] \in SUBSET Row
      /\ Window[l] \in Nat \ {0}
  <2>1. l - 1 = 1 \/ l - 1 \in LongLevel
    BY LevelFacts
  <2> QED
    BY <2>1, LevelFacts, WindowAssumption
<1>2. (\A r \in d[l] : r.at <= m) /\ Whole(d, l) /\ Caught(d, l, m)
  BY DEF Settled
<1>3. Whole(t, l)
  <2> SUFFICES ASSUME NEW r \in t[l], NEW s \in t[l - 1], r.at - Window[l] < s.at, s.at <= r.at
               PROVE  s.at \in r.from
    BY DEF Whole
  <2>1. r.at \in Int /\ s.at \in Int /\ r.at <= m
    BY <1>1, <1>2 DEF Row
  <2>2. s \in UpTo(t[l - 1], m)
    BY <2>1 DEF UpTo
  <2>3. s \in d[l - 1]
    BY <1>1, <2>2 DEF UpTo
  <2> QED
    BY <1>1, <1>2, <2>3 DEF Whole
<1>4. Caught(t, l, m)
  <2> SUFFICES ASSUME NEW r \in t[l], IsLatest(r.at, t[l]),
                      NEW x \in Cursors(SkipExpired(r.at + Window[l], l, m), l, m)
               PROVE  ~ Dense(t[l - 1], l, x)
    BY DEF Caught
  <2>1. r.at \in Int /\ r.at + Window[l] \in Int
    BY <1>1 DEF Row
  <2>2. x <= m /\ OnChain(x, r.at + Window[l], l)
    BY <2>1, ChainEnds
  <2>3. x \in Int
    BY <1>1, <2>1, <2>2 DEF OnChain
  <2>4. ~ Dense(d[l - 1], l, x)
    BY <1>1, <1>2 DEF Caught
  <2> QED
    BY <1>1, <2>2, <2>3, <2>4, DenseUpTo
<1> QED
  BY <1>1, <1>2, <1>3, <1>4

(***************************************************************************)
(* A rollup for time now inserts no row for a window that ended before the *)
(* tables were settled last, since such a window was not dense and gets no *)
(* rows any more.                                                          *)
(***************************************************************************)
LEMMA NewRowsAreLater ==
  ASSUME NEW t \in [Level -> SUBSET Row], NEW d \in [Level -> SUBSET Row],
         NEW m \in Int, NEW now \in Int, m < now, NEW l \in LongLevel, NEW c \in Int,
         Caught(d, l, m), t[l] = d[l], UpTo(t[l - 1], m) = UpTo(d[l - 1], m),
         ChainStart(c, t[l], l, now),
         NEW n \in RolledUp(t[l - 1], l, c, now)
  PROVE  m < n.at /\ n.at <= now /\ n \in Row
<1> DEFINE w == Window[l]
<1>1. PICK x : /\ x \in Cursors(SkipExpired(c, l, now), l, now)
               /\ Dense(t[l - 1], l, x)
               /\ n = Aggregate(t[l - 1], l, x)
  BY DEF RolledUp
<1>2. n.at = x
  BY <1>1 DEF Aggregate
<1>3. OnChain(x, c, l) /\ OldestUseful(l, now) < x /\ x <= now
  BY <1>1, ChainEnds
<1>4. w \in Nat \ {0} /\ Retention[l - 1] \in Nat /\ l - 1 \in Level /\ l \in Level
  BY WindowAssumption, RetentionAssumption, LevelFacts
<1>5. n \in Row
  BY <1>4, RolledUpRows
<1>6. ASSUME ~ (m < x) PROVE FALSE
  <2>1. x \in Int /\ x <= m
    BY <1>2, <1>5, <1>6 DEF Row
  <2>2. c <= x
    <3>1. \A a, b \in Nat : a * b \in Nat
      OBVIOUS
    <3> QED
      BY <1>3, <1>4, <3>1 DEF OnChain
  <2>3. t[l] # {}
    BY <2>1, <2>2 DEF ChainStart
  <2>4. IsLatest(c - w, t[l])
    BY <2>3 DEF ChainStart
  <2>5. PICK r \in t[l] : r.at = c - w
    BY <2>4 DEF IsLatest
  <2>6. c = r.at + w /\ IsLatest(r.at, d[l])
    BY <1>4, <2>4, <2>5 DEF Row
  <2>7. OldestUseful(l, m) < x
    BY <1>3, <1>4, <2>1 DEF OldestUseful
  <2>8. x \in Cursors(SkipExpired(c, l, m), l, m)
    BY <1>3, <2>1, <2>7, ChainEnds
  <2>9. ~ Dense(d[l - 1], l, x)
    BY <2>5, <2>6, <2>8 DEF Caught
  <2> QED
    BY <1>1, <1>4, <2>1, <2>9, DenseUpTo
<1> QED
  BY <1>2, <1>3, <1>5, <1>6

\* One rollup step takes the tables of a plugin one level further.
LEMMA OneLevelFurther ==
  ASSUME NEW t \in [Level -> SUBSET Row], NEW d \in [Level -> SUBSET Row],
         NEW g \in [Level -> SUBSET Row],
         NEW m \in Int, NEW now \in Int, m < now, NEW k \in LongLevel, NEW c \in Int,
         Settled(d, m), PartlyDone(t, d, k, m, now), ChainStart(c, t[k], k, now),
         g[k] = Upsert(t[k], RolledUp(t[k - 1], k, c, now)),
         \A l \in Level : l # k => g[l] = t[l]
  PROVE  PartlyDone(g, d, k + 1, m, now)
<1> DEFINE new == RolledUp(t[k - 1], k, c, now)
<1>1. /\ k \in Level /\ k - 1 \in Level /\ k \in Int /\ k - 1 # k
      /\ t[k] \in SUBSET Row /\ t[k - 1] \in SUBSET Row
  BY LevelFacts
<1>2. /\ t[k] = d[k] /\ UpTo(t[k - 1], m) = UpTo(d[k - 1], m)
      /\ (\A r \in d[k] : r.at <= m) /\ Whole(d, k) /\ Caught(d, k, m)
  BY <1>1 DEF PartlyDone, Settled
<1>3. \A n \in new : m < n.at /\ n.at <= now /\ n \in Row
  BY <1>2, NewRowsAreLater
<1>4. \A n \in new : n = Aggregate(t[k - 1], k, n.at)
  BY DEF RolledUp, Aggregate
<1>5. g[k] = Upsert(t[k], new)
  OBVIOUS
<1> HIDE DEF new
<1>6. g[k] = t[k] \cup new
  <2>1. \A r \in t[k], n \in new : n.at # r.at
    BY <1>1, <1>2, <1>3 DEF Row
  <2> QED
    BY <1>5, <2>1 DEF Upsert
<1>7. ASSUME NEW l \in Level PROVE UpTo(g[l], m) = UpTo(d[l], m)
  <2>1. l # k => UpTo(g[l], m) = UpTo(d[l], m)
    BY DEF PartlyDone
  <2>2. UpTo(g[k], m) = UpTo(d[k], m)
    BY <1>2, <1>3, <1>6 DEF UpTo, Row
  <2> QED
    BY <2>1, <2>2
<1>8. ASSUME NEW l \in LongLevel, l >= k + 1 PROVE g[l] = d[l]
  BY <1>1, <1>8, LevelFacts DEF PartlyDone
<1>9. ASSUME NEW l \in LongLevel, l < k
      PROVE  (\A r \in g[l] : r.at <= now) /\ Whole(g, l) /\ Caught(g, l, now)
  <2>1. l # k /\ l - 1 # k /\ l \in Level /\ l - 1 \in Level
    BY <1>1, <1>9, LevelFacts
  <2>2. g[l] = t[l] /\ g[l - 1] = t[l - 1]
    BY <2>1
  <2> QED
    BY <1>9, <2>2 DEF PartlyDone, Whole, Caught
<1>10. (\A r \in g[k] : r.at <= now) /\ Whole(g, k) /\ Caught(g, k, now)
  <2>1. \A r \in g[k] : r.at <= now
    <3>1. \A r \in t[k] : r.at <= now
      BY <1>1, <1>2 DEF Row
    <3> QED
      BY <1>3, <1>6, <3>1
  <2>2. g[k - 1] = t[k - 1]
    BY <1>1
  <2>3. Whole(g, k)
    <3> SUFFICES ASSUME NEW r \in g[k], NEW s \in t[k - 1], r.at - Window[k] < s.at, s.at <= r.at
                 PROVE  s.at \in r.from
      BY <2>2 DEF Whole
    <3>1. CASE r \in new
      BY <1>4, <3>1 DEF Aggregate, InWindow
    <3>2. CASE r \notin new
      <4>1. r \in d[k] /\ r.at \in Int /\ s.at \in Int /\ r.at <= m
        BY <1>1, <1>2, <1>6, <3>2 DEF Row
      <4>2. s \in UpTo(t[k - 1], m)
        BY <4>1 DEF UpTo
      <4>3. s \in d[k - 1]
        BY <1>2, <4>2 DEF UpTo
      <4> QED
        BY <1>2, <4>1, <4>3 DEF Whole
    <3> QED
      BY <3>1, <3>2
  <2>4. Caught(g, k, now)
    BY <2>2, StepCatchesUp
  <2> QED
    BY <2>1, <2>3, <2>4
<1>11. ASSUME NEW l \in LongLevel, l < k + 1
       PROVE  (\A r \in g[l] : r.at <= now) /\ Whole(g, l) /\ Caught(g, l, now)
  <2>1. l < k \/ l = k
    BY <1>1, <1>11, LevelFacts
  <2> QED
    BY <1>9, <1>10, <2>1
<1> QED
  BY <1>7, <1>8, <1>11 DEF PartlyDone

\* Fewer rows make no window dense.
LEMMA DenseShrinks ==
  ASSUME NEW l \in LongLevel, NEW x, NEW b, IsFiniteSet(b), NEW a \in SUBSET b, Dense(a, l, x)
  PROVE  Dense(b, l, x)
<1> DEFINE ra == InWindow(a, l, x)
           rb == InWindow(b, l, x)
<1>1. ra \subseteq rb /\ rb \subseteq b
  BY DEF InWindow
<1> HIDE DEF ra, rb
<1>2. IsFiniteSet(rb)
  BY <1>1, FS_Subset
<1>3. IsFiniteSet(ra) /\ Cardinality(ra) <= Cardinality(rb)
  BY <1>1, <1>2, FS_Subset
<1>4. Cardinality(ra) \in Nat /\ Cardinality(rb) \in Nat /\ MinRows[l] \in Nat
  BY <1>2, <1>3, FS_CardinalityType, MinRowsAssumption
<1>5. MinRows[l] <= Cardinality(ra)
  BY DEF Dense, ra
<1>6. MinRows[l] <= Cardinality(rb)
  BY <1>3, <1>4, <1>5
<1> QED
  BY <1>6 DEF Dense, rb

\* The deletion settles a plugin whose levels are all done.
LEMMA DeletionSettles ==
  ASSUME NEW t \in [Level -> SUBSET Row], NEW d, NEW m, NEW now \in Int,
         PartlyDone(t, d, TopLevel + 1, m, now),
         \A l \in Level : IsFiniteSet(t[l])
  PROVE  Settled(Unexpired(t, now), now)
<1> DEFINE g == Unexpired(t, now)
<1> SUFFICES ASSUME NEW l \in LongLevel
             PROVE  (\A r \in g[l] : r.at <= now) /\ Whole(g, l) /\ Caught(g, l, now)
  BY DEF Settled
<1>1. /\ l \in Level /\ l - 1 \in Level /\ l < TopLevel + 1
      /\ t[l] \in SUBSET Row /\ Retention[l] \in Nat
  BY LevelFacts, RetentionAssumption
<1>2. (\A r \in t[l] : r.at <= now) /\ Whole(t, l) /\ Caught(t, l, now)
  BY <1>1 DEF PartlyDone
<1>3. /\ g[l] = {r \in t[l] : r.at >= now - Retention[l]}
      /\ g[l - 1] \subseteq t[l - 1]
  BY <1>1 DEF Unexpired
<1> HIDE DEF g
<1>4. \A r \in g[l] : r.at <= now
  BY <1>2, <1>3
<1>5. Whole(g, l)
  BY <1>2, <1>3 DEF Whole
<1>6. Caught(g, l, now)
  <2> SUFFICES ASSUME NEW r \in g[l], IsLatest(r.at, g[l]),
                      NEW x \in Cursors(SkipExpired(r.at + Window[l], l, now), l, now),
                      Dense(g[l - 1], l, x)
               PROVE  FALSE
    BY DEF Caught
  <2>1. r \in t[l] /\ r.at >= now - Retention[l] /\ \A s \in g[l] : s.at <= r.at
    BY <1>3 DEF IsLatest
  <2>2. ASSUME NEW s \in t[l] PROVE s.at <= r.at
    <3>1. s.at \in Int /\ r.at \in Int
      BY <1>1, <2>1 DEF Row
    <3>2. CASE s \in g[l]
      BY <2>1, <3>2
    <3>3. CASE s \notin g[l]
      BY <1>1, <1>3, <2>1, <3>1, <3>3
    <3> QED
      BY <3>2, <3>3
  <2>3. IsLatest(r.at, t[l])
    BY <2>1, <2>2 DEF IsLatest
  <2>4. ~ Dense(t[l - 1], l, x)
    BY <1>2, <2>1, <2>3 DEF Caught
  <2> QED
    BY <1>1, <1>3, <2>4, DenseShrinks
<1> QED
  BY <1>4, <1>5, <1>6

\* Only the collector maintains the tables, for the time of its tick.
CollectorAlone ==
  /\ tick.at <= clock
  /\ refresh.stage = "idle"
  /\ tx # NoTx => /\ tx.owner = "collector" /\ tick.stage = "maintain"
                  /\ tx.now = tick.at /\ tx.todo \subseteq enabled

\* How far the transaction is with the plugin p that it has to do.
StepOf(p) == IF p = Current THEN tx.step ELSE 2

(***************************************************************************)
(* m is the time of the maintenance that was committed last: it lies       *)
(* before a tick under way, the committed tables are settled for it, and   *)
(* those of the transaction on the way to being settled for its own time.  *)
(***************************************************************************)
CompleteAt(m) ==
  /\ m <= tick.at
  /\ tick.stage # "idle" => m < tick.at
  /\ \A p \in Plugins : Settled(db[p], m)
  /\ \A p \in Plugins \ enabled, l \in Level :
       db[p][l] = {} /\ (tx # NoTx => tx.work[p][l] = {})
  /\ tx # NoTx => \A p \in Plugins :
       IF p \in tx.todo THEN PartlyDone(tx.work[p], db[p], StepOf(p), m, tx.now)
                        ELSE Settled(tx.work[p], tx.now)

CompleteInv == CollectorAlone /\ \E m \in Int : CompleteAt(m)

\* Empty tables are settled for any time.
LEMMA EmptySettled ==
  ASSUME NEW t, \A l \in Level : t[l] = {}, NEW m PROVE Settled(t, m)
BY LevelFacts DEF Settled, Whole, Caught

\* Samples of the tick leave the committed tables settled for an earlier time.
LEMMA SampleSettled ==
  ASSUME TypeOK, NEW m \in Int, m < tick.at, NEW ps \in SUBSET Plugins,
         NEW p \in Plugins, Settled(db[p], m)
  PROVE  Settled(WithSample(ps, tick.at)[p], m)
<1> DEFINE t == WithSample(ps, tick.at)[p]
           d == db[p]
<1>1. /\ t \in [Level -> SUBSET Row] /\ d \in [Level -> SUBSET Row] /\ tick.at \in Time
      /\ \A l \in LongLevel : t[l] = d[l]
  <2>1. tick.at \in Time /\ db \in Tables
    BY DEF TypeOK
  <2>2. /\ WithSample(ps, tick.at) \in Tables
        /\ \A q \in Plugins, l \in LongLevel : WithSample(ps, tick.at)[q][l] = db[q][l]
    BY <2>1, SampleKeepsLongRows
  <2> QED
    BY <2>1, <2>2 DEF Tables
<1>2. t[1] = d[1] \/ t[1] = Upsert(d[1], {Sample(tick.at)})
  BY <1>1, LevelFacts DEF WithSample
<1>3. tick.at \in Int /\ Sample(tick.at).at = tick.at /\ d[1] \in SUBSET Row
  BY <1>1, LevelFacts, BoundsAssumption DEF Sample
<1> HIDE DEF t, d
<1>4. UpTo(t[1], m) = UpTo(d[1], m)
  <2>1. CASE t[1] = Upsert(d[1], {Sample(tick.at)})
    <3>1. t[1] = {Sample(tick.at)} \cup {r \in d[1] : r.at # tick.at}
      BY <1>3, <2>1 DEF Upsert
    <3> QED
      BY <1>3, <3>1 DEF UpTo, Row
  <2> QED
    BY <1>2, <2>1
<1>5. Settled(d, m)
  BY DEF d
<1> QED
  BY <1>1, <1>4, <1>5, NewerSamples DEF t

\* The tables of a plugin are equal when all their levels are.
LEMMA SameLevels ==
  ASSUME NEW v \in Tables, NEW w \in Tables, NEW q \in Plugins,
         \A l \in Level : w[q][l] = v[q][l]
  PROVE  w[q] = v[q]
<1>1. v[q] \in [Level -> SUBSET Row] /\ w[q] \in [Level -> SUBSET Row]
  BY DEF Tables
<1>2. v[q] = [l \in Level |-> v[q][l]] /\ w[q] = [l \in Level |-> w[q][l]]
  BY <1>1
<1>3. [l \in Level |-> w[q][l]] = [l \in Level |-> v[q][l]]
  OBVIOUS
<1> QED
  BY <1>2, <1>3

\* A rollup step takes the transaction further.
LEMMA RollupStepComplete ==
  ASSUME IInv, CompleteInv, RollupStep
  PROVE  CompleteInv'
<1>1. PICK m \in Int : CompleteAt(m)
  BY DEF CompleteInv
<1>2. PICK c \in Int :
        /\ ChainStart(c, tx.work[Current][tx.step], tx.step, tx.now)
        /\ tx.step \in LongLevel /\ Current \in Plugins
        /\ tx.work \in Tables /\ tx'.work \in Tables
        /\ tx' # NoTx /\ tx'.owner = tx.owner /\ tx'.now = tx.now /\ tx'.todo = tx.todo
        /\ tx'.targets = tx.targets /\ tx'.step = tx.step + 1
        /\ \A q \in Plugins, l \in Level :
             tx'.work[q][l] =
               IF q = Current /\ l = tx.step
                 THEN Upsert(tx.work[q][l], RolledUp(tx.work[q][l - 1], l, c, tx.now))
                 ELSE tx.work[q][l]
  BY RollupStepEffect
<1>3. /\ tx # NoTx /\ tx.todo # {} /\ UNCHANGED <<clock, enabled, db, tick, refresh>>
      /\ tx.now \in Int /\ Current \in tx.todo /\ db \in Tables
  BY TxType DEF RollupStep, Current, IInv, TypeOK
<1>4. Current' = Current
  BY <1>2 DEF Current
<1>5. /\ m <= tick.at /\ m < tick.at /\ tx.now = tick.at
      /\ \A p \in Plugins : Settled(db[p], m)
  BY <1>1, <1>3 DEF CompleteAt, CompleteInv, CollectorAlone
<1>6. \A q \in Plugins : q # Current => tx'.work[q] = tx.work[q]
  <2> SUFFICES ASSUME NEW q \in Plugins, q # Current PROVE tx'.work[q] = tx.work[q]
    OBVIOUS
  <2>1. \A l \in Level : tx'.work[q][l] = tx.work[q][l]
    BY <1>2
  <2> QED
    BY <1>2, <2>1, SameLevels
<1>7. PartlyDone(tx'.work[Current], db[Current], tx.step + 1, m, tx.now)
  <2> DEFINE t == tx.work[Current]
             d == db[Current]
             g == tx'.work[Current]
  <2>1. t \in [Level -> SUBSET Row] /\ d \in [Level -> SUBSET Row] /\ g \in [Level -> SUBSET Row]
    BY <1>2, <1>3 DEF Tables
  <2>2. PartlyDone(t, d, tx.step, m, tx.now) /\ Settled(d, m)
    BY <1>1, <1>2, <1>3 DEF CompleteAt, StepOf
  <2>3. g[tx.step] = Upsert(t[tx.step], RolledUp(t[tx.step - 1], tx.step, c, tx.now))
    BY <1>2, LevelFacts
  <2>4. \A l \in Level : l # tx.step => g[l] = t[l]
    BY <1>2
  <2>5. ChainStart(c, t[tx.step], tx.step, tx.now) /\ tx.step \in LongLevel /\ m < tx.now
    BY <1>2, <1>5
  <2> HIDE DEF t, d, g
  <2>6. PartlyDone(g, d, tx.step + 1, m, tx.now)
    BY <1>3, <2>1, <2>2, <2>3, <2>4, <2>5, OneLevelFurther
  <2> QED
    BY <2>6 DEF g, d
<1>8. ASSUME NEW p \in Plugins
      PROVE  IF p \in tx'.todo THEN PartlyDone(tx'.work[p], db[p], StepOf(p)', m, tx'.now)
                               ELSE Settled(tx'.work[p], tx'.now)
  <2>1. CASE p = Current
    <3>1. StepOf(p)' = tx.step + 1
      BY <1>2, <1>4, <2>1 DEF StepOf
    <3> QED
      BY <1>2, <1>3, <1>7, <2>1, <3>1
  <2>2. CASE p # Current
    <3>1. StepOf(p)' = StepOf(p)
      BY <1>4, <2>2 DEF StepOf
    <3>2. IF p \in tx.todo THEN PartlyDone(tx.work[p], db[p], StepOf(p), m, tx.now)
                           ELSE Settled(tx.work[p], tx.now)
      BY <1>1, <1>3 DEF CompleteAt
    <3> QED
      BY <1>2, <1>6, <2>2, <3>1, <3>2
  <2> QED
    BY <2>1, <2>2
<1>9. ASSUME NEW p \in Plugins \ enabled, NEW l \in Level PROVE db[p][l] = {} /\ tx'.work[p][l] = {}
  <2>1. p # Current
    BY <1>3 DEF CompleteInv, CollectorAlone
  <2> QED
    BY <1>1, <1>3, <1>6, <2>1 DEF CompleteAt
<1>10. CompleteAt(m)'
  BY <1>1, <1>3, <1>5, <1>8, <1>9 DEF CompleteAt
<1>11. CollectorAlone'
  BY <1>2, <1>3 DEF CompleteInv, CollectorAlone
<1> QED
  BY <1>10, <1>11 DEF CompleteInv

\* The deletion settles the current plugin, and the next one is still as committed.
LEMMA DeleteComplete ==
  ASSUME IInv, FiniteInv, CompleteInv, DeleteOldHistory
  PROVE  CompleteInv'
<1>1. PICK m \in Int : CompleteAt(m)
  BY DEF CompleteInv
<1>2. /\ tx # NoTx /\ tx.todo # {} /\ tx.step = TopLevel + 1
      /\ UNCHANGED <<clock, enabled, db, tick, refresh>>
      /\ tx.now \in Int /\ Current \in tx.todo /\ Current \in Plugins
      /\ tx \in OpenTx /\ tx.work \in Tables
      /\ tx' = [tx EXCEPT !.todo = @ \ {Current}, !.step = 2,
                          !.work[Current] = Unexpired(@, tx.now)]
  BY TxType DEF DeleteOldHistory, Current, IInv
<1>3. /\ tx'.todo = tx.todo \ {Current} /\ tx'.step = 2 /\ tx'.now = tx.now /\ tx'.owner = tx.owner
      /\ tx'.work = [tx.work EXCEPT ![Current] = Unexpired(@, tx.now)]
  BY <1>2 DEF OpenTx
<1>4. /\ tx'.work[Current] = Unexpired(tx.work[Current], tx.now)
      /\ \A q \in Plugins : q # Current => tx'.work[q] = tx.work[q]
  BY <1>2, <1>3 DEF Tables
<1>5. tx' # NoTx
  BY <1>2, <1>3 DEF OpenTx, NoTx
<1>6. \A p \in Plugins : IF p \in tx.todo THEN PartlyDone(tx.work[p], db[p], StepOf(p), m, tx.now)
                                          ELSE Settled(tx.work[p], tx.now)
  BY <1>1, <1>2 DEF CompleteAt
<1>7. Settled(tx'.work[Current], tx.now)
  <2> DEFINE t == tx.work[Current]
  <2>1. PartlyDone(t, db[Current], TopLevel + 1, m, tx.now)
    BY <1>2, <1>6 DEF StepOf
  <2>2. t \in [Level -> SUBSET Row]
    BY <1>2 DEF Tables
  <2>3. \A l \in Level : IsFiniteSet(t[l])
    BY <1>2 DEF FiniteInv, FiniteTables
  <2> HIDE DEF t
  <2>4. Settled(Unexpired(t, tx.now), tx.now)
    BY <1>2, <2>1, <2>2, <2>3, DeletionSettles
  <2> QED
    BY <1>4, <2>4 DEF t
<1>8. ASSUME NEW p \in Plugins
      PROVE  IF p \in tx'.todo THEN PartlyDone(tx'.work[p], db[p], StepOf(p)', m, tx'.now)
                               ELSE Settled(tx'.work[p], tx'.now)
  <2>1. CASE p = Current
    BY <1>3, <1>7, <2>1
  <2>2. CASE p # Current
    <3>1. StepOf(p)' = 2 /\ StepOf(p) = 2
      BY <1>3, <2>2 DEF StepOf
    <3> QED
      BY <1>3, <1>4, <1>6, <2>2, <3>1
  <2> QED
    BY <2>1, <2>2
<1>9. ASSUME NEW p \in Plugins \ enabled, NEW l \in Level PROVE db[p][l] = {} /\ tx'.work[p][l] = {}
  <2>1. p # Current
    BY <1>2 DEF CompleteInv, CollectorAlone
  <2> QED
    BY <1>1, <1>2, <1>4, <2>1 DEF CompleteAt
<1>10. CompleteAt(m)'
  BY <1>1, <1>2, <1>8, <1>9 DEF CompleteAt
<1>11. CollectorAlone'
  BY <1>2, <1>3 DEF CompleteInv, CollectorAlone
<1> QED
  BY <1>10, <1>11 DEF CompleteInv

\* A transaction begins with the committed tables, and leaves them settled for its time.
LEMMA BeginAndEndComplete ==
  ASSUME IInv, CompleteInv, Commands = {}, BeginMaintenance \/ Commit \/ Rollback
  PROVE  CompleteInv'
<1>1. PICK m \in Int : CompleteAt(m)
  BY DEF CompleteInv
<1>2. tick.at \in Int /\ tick \in [stage : {"idle", "gathering", "smart", "maintain"}, at : Time]
  BY BoundsAssumption DEF IInv, TypeOK
<1>3. CASE BeginMaintenance
  <2>1. /\ tick.stage = "maintain" /\ tx' = [owner |-> "collector", now |-> tick.at,
                 targets |-> enabled, todo |-> enabled, step |-> 2, work |-> db]
        /\ UNCHANGED <<clock, enabled, db, tick, refresh>>
    BY <1>3 DEF BeginMaintenance, Begin
  <2>2. CollectorAlone'
    BY <2>1 DEF CompleteInv, CollectorAlone
  <2>3. ASSUME NEW p \in Plugins
        PROVE  IF p \in enabled THEN PartlyDone(db[p], db[p], 2, m, tick.at)
                                ELSE Settled(db[p], tick.at)
    <3>1. CASE p \in enabled
      BY <3>1 DEF PartlyDone
    <3>2. CASE p \notin enabled
      BY <1>1, <3>2, EmptySettled DEF CompleteAt
    <3> QED
      BY <3>1, <3>2
  <2>4. \A p : StepOf(p)' = 2
    BY <2>1 DEF StepOf
  <2>5. CompleteAt(m)'
    BY <1>1, <2>1, <2>3, <2>4 DEF CompleteAt
  <2> QED
    BY <2>2, <2>5 DEF CompleteInv
<1>4. CASE Commit
  <2>1. /\ tx # NoTx /\ tx.todo = {} /\ db' = tx.work /\ tx' = NoTx
        /\ UNCHANGED <<clock, enabled, refresh>>
        /\ tx.owner = "collector" /\ tick' = [tick EXCEPT !.stage = "idle"]
    BY <1>4 DEF Commit, EndTx, CompleteInv, CollectorAlone
  <2>2. tick'.stage = "idle" /\ tick'.at = tick.at /\ tx.now = tick.at
    BY <1>2, <2>1 DEF CompleteInv, CollectorAlone
  <2>3. CollectorAlone'
    BY <2>1, <2>2 DEF CompleteInv, CollectorAlone
  <2>4. \A p \in Plugins : Settled(db'[p], tx.now)
    BY <1>1, <2>1 DEF CompleteAt
  <2>5. \A p \in Plugins \ enabled, l \in Level : db'[p][l] = {}
    BY <1>1, <2>1 DEF CompleteAt
  <2>6. CompleteAt(tick.at)'
    BY <1>2, <2>1, <2>2, <2>4, <2>5 DEF CompleteAt
  <2>7. CompleteAt(tick.at)' => \E n \in Int : CompleteAt(n)'
    BY <1>2, <2>1, <2>2, <2>4, <2>5 DEF CompleteAt
  <2> QED
    BY <2>3, <2>6, <2>7 DEF CompleteInv
<1>5. CASE Rollback
  <2>1. /\ tx' = NoTx /\ UNCHANGED <<clock, enabled, refresh, db>> /\ tick' \in {tick, [tick EXCEPT !.stage = "idle"]}
    BY <1>5 DEF Rollback, EndTx
  <2>2. tick'.at = tick.at /\ (tick'.stage # "idle" => tick.stage # "idle")
    BY <1>2, <2>1
  <2>3. CollectorAlone'
    BY <2>1, <2>2 DEF CompleteInv, CollectorAlone
  <2>4. CompleteAt(m)'
    BY <1>1, <2>1, <2>2 DEF CompleteAt
  <2> QED
    BY <2>3, <2>4 DEF CompleteInv
<1> QED
  BY <1>3, <1>4, <1>5

\* The samples of a tick are later than everything that has been settled.
LEMMA WriterComplete ==
  ASSUME IInv, CompleteInv, WriteSnapshot \/ RefreshSmartIfDue
  PROVE  CompleteInv'
<1>1. PICK m \in Int : CompleteAt(m)
  BY DEF CompleteInv
<1>2. /\ TypeOK /\ db \in Tables /\ tick \in [stage : {"idle", "gathering", "smart", "maintain"}, at : Time]
      /\ enabled \ SmartPlugins \in SUBSET enabled /\ enabled \cap SmartPlugins \in SUBSET enabled
      /\ enabled \in SUBSET Plugins
  BY DEF IInv, TypeOK
<1>3. /\ tick.stage \in {"gathering", "smart"} /\ tick'.at = tick.at /\ m < tick.at
      /\ UNCHANGED <<clock, enabled, refresh, tx>>
  BY <1>1, <1>2 DEF CompleteAt, WriteSnapshot, RefreshSmartIfDue
<1>4. tx = NoTx
  BY <1>3 DEF CompleteInv, CollectorAlone
<1>5. db' = db \/ \E ps \in SUBSET enabled : db' = WithSample(ps, tick.at)
  BY <1>2 DEF WriteSnapshot, RefreshSmartIfDue
<1>6. \A p \in Plugins : Settled(db[p], m)
  BY <1>1 DEF CompleteAt
<1>7. \A p \in Plugins : Settled(db'[p], m)
  <2>1. ASSUME NEW ps \in SUBSET enabled, db' = WithSample(ps, tick.at), NEW p \in Plugins
        PROVE  Settled(db'[p], m)
    BY <1>2, <1>3, <1>6, <2>1, SampleSettled
  <2> QED
    BY <1>5, <1>6, <2>1
<1>8. \A p \in Plugins \ enabled : db'[p] = db[p]
  BY <1>2, <1>5 DEF WithSample
<1>9. \A p \in Plugins \ enabled, l \in Level : db'[p][l] = {}
  BY <1>1, <1>8 DEF CompleteAt
<1>10. CollectorAlone'
  BY <1>3, <1>4 DEF CompleteInv, CollectorAlone
<1>11. CompleteAt(m)'
  BY <1>1, <1>3, <1>4, <1>7, <1>9 DEF CompleteAt
<1> QED
  BY <1>10, <1>11 DEF CompleteInv

\* Time, ticks and crashes leave the committed tables alone.
LEMMA OthersComplete ==
  ASSUME IInv, CompleteInv, Advance \/ Crash \/ TickFires \/ TickFails
  PROVE  CompleteInv'
<1>1. PICK m \in Int : CompleteAt(m)
  BY DEF CompleteInv
<1>2. /\ tick \in [stage : {"idle", "gathering", "smart", "maintain"}, at : Time]
      /\ clock \in Int /\ tick.at \in Int /\ MaxAdvance \in Nat
  BY BoundsAssumption DEF IInv, TypeOK
<1>3. CASE Advance
  <2>1. clock <= clock' /\ UNCHANGED <<enabled, db, tick, refresh, tx>> /\ clock' \in Int
    BY <1>2, <1>3 DEF Advance
  <2>2. tick.at <= clock'
    BY <1>2, <2>1 DEF CompleteInv, CollectorAlone
  <2>3. CollectorAlone'
    BY <2>1, <2>2 DEF CompleteInv, CollectorAlone
  <2>4. \A p : StepOf(p)' = StepOf(p)
    BY <2>1 DEF StepOf, Current
  <2>5. CompleteAt(m)'
    BY <1>1, <2>1, <2>4 DEF CompleteAt
  <2> QED
    BY <2>3, <2>5 DEF CompleteInv
<1>4. CASE Crash
  <2>1. /\ tx' = NoTx /\ refresh' = NotRefreshing /\ UNCHANGED <<clock, enabled, db>>
        /\ tick'.at = tick.at /\ tick'.stage = "idle"
    BY <1>2, <1>4 DEF Crash
  <2>2. CollectorAlone'
    BY <2>1 DEF CompleteInv, CollectorAlone, NotRefreshing
  <2>3. CompleteAt(m)'
    BY <1>1, <2>1 DEF CompleteAt
  <2> QED
    BY <2>2, <2>3 DEF CompleteInv
<1>5. CASE TickFires
  <2>1. /\ tick.stage = "idle" /\ clock # tick.at /\ tick' = [stage |-> "gathering", at |-> clock]
        /\ UNCHANGED <<clock, enabled, db, refresh, tx>>
    BY <1>5 DEF TickFires
  <2>2. tx = NoTx
    BY <2>1 DEF CompleteInv, CollectorAlone
  <2>3. m < clock
    BY <1>1, <1>2, <2>1 DEF CompleteInv, CollectorAlone, CompleteAt
  <2>4. CollectorAlone'
    BY <1>2, <2>1, <2>2 DEF CompleteInv, CollectorAlone
  <2>5. CompleteAt(m)'
    BY <1>1, <1>2, <2>1, <2>2, <2>3 DEF CompleteAt
  <2> QED
    BY <2>4, <2>5 DEF CompleteInv
<1>6. CASE TickFails
  <2>1. /\ tick.stage \in {"gathering", "smart"} /\ tick'.stage = "idle" /\ tick'.at = tick.at
        /\ UNCHANGED <<clock, enabled, db, refresh, tx>>
    BY <1>2, <1>6 DEF TickFails
  <2>2. tx = NoTx
    BY <2>1 DEF CompleteInv, CollectorAlone
  <2>3. CollectorAlone'
    BY <2>1, <2>2 DEF CompleteInv, CollectorAlone
  <2>4. CompleteAt(m)'
    BY <1>1, <2>1, <2>2 DEF CompleteAt
  <2> QED
    BY <2>3, <2>4 DEF CompleteInv
<1> QED
  BY <1>3, <1>4, <1>5, <1>6

\* As long as only the collector maintains the history and the clock is never
\* stepped back, a row of a longer resolution averages all rows of its window
\* that are in the table, for every layout of the windows, minima and
\* retentions, every delay and outage, and every crash and failed tick.
THEOREM CollectorAggregatesWhole ==
  ASSUME Commands = {}, MaxStepBack = 0
  PROVE  Spec => []CompleteAggregates
<1>1. Init => CompleteInv
  <2> SUFFICES ASSUME Init PROVE CompleteInv
    OBVIOUS
  <2>1. CollectorAlone
    BY DEF Init, CollectorAlone, NotRefreshing
  <2>2. \A p \in Plugins, l \in Level : db[p][l] = {}
    BY DEF Init
  <2>3. \A p \in Plugins : Settled(db[p], 0)
    BY <2>2, EmptySettled
  <2>4. tick.at = 0 /\ tick.stage = "idle" /\ tx = NoTx
    BY DEF Init
  <2>5. CompleteAt(0)
    BY <2>2, <2>3, <2>4 DEF CompleteAt
  <2> QED
    BY <2>1, <2>5 DEF CompleteInv
<1>2. IInv /\ FiniteInv /\ CompleteInv /\ [Next]_vars => CompleteInv'
  <2> SUFFICES ASSUME IInv, FiniteInv, CompleteInv, [Next]_vars PROVE CompleteInv'
    OBVIOUS
  <2>1. CASE RollupStep
    BY <2>1, RollupStepComplete
  <2>2. CASE DeleteOldHistory
    BY <2>2, DeleteComplete
  <2>3. CASE BeginMaintenance \/ Commit \/ Rollback
    BY <2>3, BeginAndEndComplete
  <2>4. CASE WriteSnapshot \/ RefreshSmartIfDue
    BY <2>4, WriterComplete
  <2>5. CASE Advance \/ Crash \/ TickFires \/ TickFails
    BY <2>5, OthersComplete
  <2>6. CASE StepBack
    <3>1. clock \in Int
      BY BoundsAssumption DEF IInv, TypeOK
    <3>2. clock - MaxStepBack .. clock - 1 = {}
      BY <3>1
    <3> QED
      BY <2>6, <3>2 DEF StepBack
  <2>7. CASE SetHistoryPlugins \/ RefreshSmartStart \/ RefreshSmartEnd
    BY <2>7 DEF SetHistoryPlugins, RefreshSmartStart, RefreshSmartEnd, CompleteInv, CollectorAlone
  <2>8. CASE UNCHANGED vars
    <3>1. UNCHANGED <<clock, enabled, db, tick, refresh, tx>>
      BY <2>8 DEF vars
    <3>2. \A p : StepOf(p)' = StepOf(p)
      BY <3>1 DEF StepOf, Current
    <3>3. CollectorAlone'
      BY <3>1 DEF CompleteInv, CollectorAlone
    <3>4. PICK m \in Int : CompleteAt(m)
      BY DEF CompleteInv
    <3>5. CompleteAt(m)'
      BY <3>1, <3>2, <3>4 DEF CompleteAt
    <3> QED
      BY <3>3, <3>5 DEF CompleteInv
  <2> QED
    BY <2>1, <2>2, <2>3, <2>4, <2>5, <2>6, <2>7, <2>8 DEF Next
<1>3. CompleteInv => CompleteAggregates
  BY DEF CompleteInv, CompleteAt, Settled, Whole, CompleteAggregates
<1> QED
  BY <1>1, <1>2, <1>3, Invariance, Finiteness, PTL DEF Spec

-----------------------------------------------------------------------------
(* The maintenance that History promises.                                   *)

USE DEF Promise!Level, Promise!LongLevel, Promise!Time

LEMMA SameDense ==
  ASSUME NEW shorter, NEW l, NEW t
  PROVE  /\ Promise!InWindow(shorter, l, t) = InWindow(shorter, l, t)
         /\ Promise!Dense(shorter, l, t) <=> Dense(shorter, l, t)
<1>1. Promise!InWindow(shorter, l, t) = InWindow(shorter, l, t)
  BY DEF Promise!InWindow, InWindow
<1>2. \A S : Promise!Cardinality(S) = Cardinality(S)
  BY DEF Promise!Cardinality, Cardinality
<1> QED
  BY <1>1, <1>2 DEF Promise!Dense, Dense

\* Every row that a rollup step inserts averages the whole of a useful window.
LEMMA NewRowsAreWhole ==
  ASSUME NEW l \in LongLevel, NEW c \in Int, NEW now \in Int, NEW shorter
  PROVE  \A n \in RolledUp(shorter, l, c, now) :
           /\ OldestUseful(l, now) < n.at /\ n.at <= now
           /\ Promise!WholeAverage(n, shorter, l)
<1> DEFINE ends == Cursors(SkipExpired(c, l, now), l, now)
<1> SUFFICES ASSUME NEW x \in ends, Dense(shorter, l, x)
             PROVE  /\ OldestUseful(l, now) < x /\ x <= now
                    /\ Promise!WholeAverage(Aggregate(shorter, l, x), shorter, l)
  BY DEF RolledUp, Aggregate
<1>1. OldestUseful(l, now) < x /\ x <= now
  BY ChainEnds
<1>2. /\ Aggregate(shorter, l, x).at = x
      /\ Aggregate(shorter, l, x).from = {s.at : s \in InWindow(shorter, l, x)}
  BY DEF Aggregate
<1>3. Promise!WholeAverage(Aggregate(shorter, l, x), shorter, l)
  BY <1>2, SameDense DEF Promise!WholeAverage
<1> QED
  BY <1>1, <1>3

\* One rollup step leaves nothing of its resolution to average.
LEMMA StepLeavesNothing ==
  ASSUME NEW l \in LongLevel, NEW h \in [Level -> SUBSET Row], NEW c \in Int, NEW now \in Int,
         ChainStart(c, h[l], l, now),
         NEW g, g[l] = Upsert(h[l], RolledUp(h[l - 1], l, c, now)), g[l - 1] = h[l - 1]
  PROVE  Promise!CaughtUp(g[l], g[l - 1], l, now)
<1> DEFINE w == Window[l]
           old == now - Retention[l - 1]
           short == g[l - 1]
<1>1. Caught(g, l, now)
  BY StepCatchesUp
<1>2. g[l] = h[l] \cup RolledUp(short, l, c, now) /\ g[l] \subseteq Row
  <2>1. h[l] \in SUBSET Row /\ h[l - 1] \in SUBSET Row
    BY LevelFacts
  <2>2. /\ \A r \in h[l] : r.at + w <= c
        /\ \A n \in RolledUp(short, l, c, now) : n \in Row /\ c <= n.at
    BY <2>1, ChainAfterRows, RolledUpRows
  <2>3. w \in Nat \ {0}
    BY WindowAssumption
  <2>4. g[l] = Upsert(h[l], RolledUp(short, l, c, now))
    OBVIOUS
  <2> DEFINE new == RolledUp(short, l, c, now)
  <2> HIDE DEF new, w, short
  <2>5. \A r \in h[l], n \in new : n.at # r.at
    BY <2>1, <2>2, <2>3 DEF Row, new
  <2>6. Upsert(h[l], new) = h[l] \cup new
    BY <2>5 DEF Upsert
  <2> QED
    BY <2>1, <2>2, <2>4, <2>6 DEF new
<1>3. OldestUseful(l, now) = old /\ w \in Nat \ {0}
  BY WindowAssumption DEF OldestUseful
<1> HIDE DEF w, old, short
<1>4. ASSUME g[l] = {}, old < now PROVE ~ Dense(short, l, now)
  <2>1. c = now /\ RolledUp(short, l, c, now) = {}
    BY <1>2, <1>4 DEF ChainStart
  <2>2. OnChain(now, now, l)
    <3>1. 0 \in Nat /\ now = now + 0 * w
      BY <1>3
    <3> QED
      BY <3>1 DEF OnChain, w
  <2>3. now \in Cursors(SkipExpired(now, l, now), l, now)
    BY <1>3, <1>4, <2>2, ChainEnds
  <2> QED
    BY <2>1, <2>3 DEF RolledUp
<1>5. ASSUME NEW r \in g[l], \A s \in g[l] : s.at <= r.at,
             NEW k \in 1 .. now - r.at,
             old < r.at + k * w, r.at + k * w <= now
      PROVE  ~ Dense(short, l, r.at + k * w)
  <2> DEFINE x == r.at + k * w
  <2>1. IsLatest(r.at, g[l]) /\ r.at \in Int /\ k \in Nat /\ k - 1 \in Nat
    BY <1>2, <1>5 DEF IsLatest, Row
  <2>2. x = r.at + w + (k - 1) * w
    BY <1>3, <2>1
  <2>3. OnChain(x, r.at + w, l)
    BY <2>1, <2>2 DEF OnChain, w
  <2>4. old < x /\ x <= now /\ r.at + w \in Int
    BY <1>3, <1>5, <2>1
  <2> HIDE DEF x
  <2>5. x \in Cursors(SkipExpired(r.at + w, l, now), l, now)
    BY <1>3, <2>3, <2>4, ChainEnds
  <2>6. ~ Dense(short, l, x)
    BY <1>1, <2>1, <2>5 DEF Caught, w, short
  <2> QED
    BY <2>6 DEF x
<1>6. 0 < Retention[l - 1] => old < now
  BY LevelFacts, RetentionAssumption DEF old
<1> QED
  BY <1>4, <1>5, <1>6, SameDense DEF Promise!CaughtUp, w, old, short

(***************************************************************************)
(* The tables w are those of d after the resolutions below k have been     *)
(* rolled up for time now: whole averages have joined them, and nothing of *)
(* these resolutions is left to average.                                   *)
(***************************************************************************)
Begun(d, w, k, now) ==
  /\ w[1] = d[1]
  /\ \A l \in LongLevel : l >= k => w[l] = d[l]
  /\ \A l \in LongLevel : l < k =>
       /\ d[l] \subseteq w[l]
       /\ \A r \in w[l] \ d[l] : /\ OldestUseful(l, now) < r.at /\ r.at <= now
                                 /\ Promise!WholeAverage(r, w[l - 1], l)
       /\ Promise!CaughtUp(w[l], w[l - 1], l, now)

\* A rollup step takes the tables one resolution further.
LEMMA StepGoesOn ==
  ASSUME NEW k \in LongLevel, NEW c \in Int, NEW now \in Int, NEW d,
         NEW w \in [Level -> SUBSET Row], NEW v, Begun(d, w, k, now),
         ChainStart(c, w[k], k, now),
         \A m \in Level :
           v[m] = IF m = k THEN Upsert(w[m], RolledUp(w[m - 1], m, c, now)) ELSE w[m]
  PROVE  Begun(d, v, k + 1, now)
<1> DEFINE new == RolledUp(w[k - 1], k, c, now)
<1>1. /\ k \in Level /\ k - 1 \in Level /\ k # 1 /\ k - 1 # k /\ k \in Int
      /\ v[k] = Upsert(w[k], new) /\ v[k - 1] = w[k - 1]
  BY LevelFacts
<1>2. Promise!CaughtUp(v[k], v[k - 1], k, now)
  BY <1>1, StepLeavesNothing
<1>3. \A n \in new : /\ OldestUseful(k, now) < n.at /\ n.at <= now
                     /\ Promise!WholeAverage(n, v[k - 1], k)
  BY <1>1, NewRowsAreWhole
<1>4. w[k] \subseteq v[k] /\ v[k] \subseteq w[k] \cup new
  <2>1. w[k] \in SUBSET Row /\ w[k - 1] \in SUBSET Row /\ Window[k] \in Nat \ {0}
    BY <1>1, WindowAssumption
  <2>2. /\ \A r \in w[k] : r.at + Window[k] <= c
        /\ \A n \in new : n \in Row /\ c <= n.at
    BY <2>1, ChainAfterRows, RolledUpRows
  <2> HIDE DEF new
  <2>3. \A r \in w[k], n \in new : n.at # r.at
    BY <2>1, <2>2 DEF Row
  <2> QED
    BY <1>1, <2>3 DEF Upsert
<1>5. w[k] = d[k]
  BY <1>1 DEF Begun
<1> HIDE DEF new
<1>6. ASSUME NEW l \in LongLevel, l < k
      PROVE  v[l] = w[l] /\ v[l - 1] = w[l - 1]
  <2>1. l \in Level /\ l - 1 \in Level /\ l # k /\ l - 1 # k
    BY <1>1, <1>6, LevelFacts
  <2> QED
    BY <2>1
<1>7. ASSUME NEW l \in LongLevel, l < k + 1
      PROVE  /\ d[l] \subseteq v[l]
             /\ \A r \in v[l] \ d[l] : /\ OldestUseful(l, now) < r.at /\ r.at <= now
                                       /\ Promise!WholeAverage(r, v[l - 1], l)
             /\ Promise!CaughtUp(v[l], v[l - 1], l, now)
  <2>1. CASE l = k
    BY <1>2, <1>3, <1>4, <1>5, <2>1
  <2>2. CASE l < k
    BY <1>6, <2>2 DEF Begun
  <2> QED
    BY <1>1, <1>7, <2>1, <2>2
<1>8. ASSUME NEW l \in LongLevel, l >= k + 1 PROVE v[l] = d[l]
  <2>1. l \in Level /\ l # k /\ l >= k
    BY <1>1, <1>8, LevelFacts
  <2> QED
    BY <2>1 DEF Begun
<1>9. v[1] = d[1]
  BY <1>1, LevelFacts DEF Begun
<1> QED
  BY <1>7, <1>8, <1>9 DEF Begun

\* The final deletion completes what History calls the maintenance of a plugin.
LEMMA DeletionCompletes ==
  ASSUME Promise!RetentionGrows, NEW now \in Int,
         NEW d \in [Level -> SUBSET Row], NEW w \in [Level -> SUBSET Row],
         Begun(d, w, TopLevel + 1, now), \A l \in LongLevel : Spaced(w[l], l)
  PROVE  Promise!Maintained(d, Unexpired(w, now), now)
<1> DEFINE new == Unexpired(w, now)
           full == [l \in Level |-> d[l] \cup new[l]]
<1>1. new = [l \in Level |-> {r \in w[l] : r.at >= now - Retention[l]}]
  BY DEF Unexpired
<1>2. \A l \in LongLevel : l < TopLevel + 1
  BY LevelsAssumption
<1>3. ASSUME NEW l \in LongLevel, NEW r \in w[l] \ d[l]
      PROVE  /\ r.at <= now /\ r.at >= now - Retention[l]
             /\ Promise!WholeAverage(r, w[l - 1], l)
  <2>1. OldestUseful(l, now) < r.at /\ r.at <= now /\ Promise!WholeAverage(r, w[l - 1], l)
    BY <1>2, <1>3 DEF Begun
  <2>2. Retention[l - 1] <= Retention[l] /\ Retention[l] \in Nat /\ Retention[l - 1] \in Nat
    BY LevelFacts, RetentionAssumption DEF Promise!RetentionGrows
  <2>3. r \in Row
    BY LevelFacts
  <2> QED
    BY <2>1, <2>2, <2>3 DEF OldestUseful, Row
<1> HIDE DEF new
<1>4. ASSUME NEW l \in Level PROVE d[l] \cup new[l] = w[l]
  <2>1. new[l] = {r \in w[l] : r.at >= now - Retention[l]}
    BY <1>1
  <2>2. CASE l = 1
    BY <2>1, <2>2 DEF Begun
  <2>3. CASE l # 1
    <3>1. l \in LongLevel
      BY <2>3, LevelsAssumption
    <3>2. d[l] \subseteq w[l]
      BY <1>2, <3>1 DEF Begun
    <3> QED
      BY <1>3, <2>1, <3>1, <3>2
  <2> QED
    BY <2>2, <2>3
<1>5. full = w
  BY <1>4
<1>6. \A l \in LongLevel :
        /\ \A r \in new[l] \ d[l] : r.at <= now /\ Promise!WholeAverage(r, w[l - 1], l)
        /\ Promise!Apart(w[l], l)
        /\ Promise!CaughtUp(w[l], w[l - 1], l, now)
  <2> SUFFICES ASSUME NEW l \in LongLevel
               PROVE  /\ \A r \in new[l] \ d[l] : r.at <= now /\ Promise!WholeAverage(r, w[l - 1], l)
                      /\ Promise!Apart(w[l], l)
                      /\ Promise!CaughtUp(w[l], w[l - 1], l, now)
    OBVIOUS
  <2>1. new[l] \subseteq w[l]
    BY <1>1, LevelFacts
  <2>2. Promise!Apart(w[l], l)
    BY DEF Promise!Apart, Spaced
  <2>3. Promise!CaughtUp(w[l], w[l - 1], l, now)
    BY <1>2 DEF Begun
  <2> QED
    BY <1>3, <2>1, <2>2, <2>3
<1>7. w[1] = d[1]
  BY DEF Begun
<1> HIDE DEF full
<1>8. /\ new = [l \in Level |-> {r \in full[l] : r.at >= now - Retention[l]}]
      /\ full[1] = d[1]
      /\ \A l \in LongLevel :
           /\ \A r \in new[l] \ d[l] : r.at <= now /\ Promise!WholeAverage(r, full[l - 1], l)
           /\ Promise!Apart(full[l], l)
           /\ Promise!CaughtUp(full[l], full[l - 1], l, now)
  BY <1>1, <1>5, <1>6, <1>7
<1> QED
  BY <1>8 DEF Promise!Maintained, full, new

(***************************************************************************)
(* The committed rows of the shortest resolution are samples, and the      *)
(* tables of an open transaction are, plugin by plugin, begun, maintained  *)
(* or as they were when it began.                                          *)
(***************************************************************************)
HistoryInv ==
  /\ \A p \in Plugins : \A r \in db[p][1] : r.from = {}
  /\ tx # NoTx =>
       \A p \in Plugins :
         IF p \in tx.todo
           THEN Begun(db[p], tx.work[p], StepOf(p), tx.now)
           ELSE tx.work[p] = db[p] \/ Promise!Maintained(db[p], tx.work[p], tx.now)

LEMMA RollupStepHistory ==
  ASSUME IInv, HistoryInv, RollupStep
  PROVE  HistoryInv'
<1>1. PICK c \in Int :
           /\ ChainStart(c, tx.work[Current][tx.step], tx.step, tx.now)
           /\ tx.step \in LongLevel /\ Current \in Plugins
           /\ tx.work \in Tables /\ tx'.work \in Tables
           /\ tx' # NoTx /\ tx'.now = tx.now /\ tx'.todo = tx.todo
           /\ tx'.step = tx.step + 1
           /\ \A q \in Plugins, m \in Level :
                tx'.work[q][m] =
                  IF q = Current /\ m = tx.step
                    THEN Upsert(tx.work[q][m], RolledUp(tx.work[q][m - 1], m, c, tx.now))
                    ELSE tx.work[q][m]
  BY RollupStepEffect
<1>2. /\ tx # NoTx /\ tx.todo # {} /\ db' = db /\ Current' = Current /\ tx.now \in Int
      /\ Current \in tx.todo
  BY <1>1, TxType DEF RollupStep, IInv, Current
<1>3. ASSUME NEW p \in Plugins
      PROVE  IF p \in tx'.todo
               THEN Begun(db[p], tx'.work[p], StepOf(p)', tx'.now)
               ELSE tx'.work[p] = db[p] \/ Promise!Maintained(db[p], tx'.work[p], tx'.now)
  <2>1. CASE p = Current
    <3>1. StepOf(p) = tx.step /\ StepOf(p)' = tx.step + 1
      BY <1>1, <1>2, <2>1 DEF StepOf
    <3>2. Begun(db[p], tx.work[p], tx.step, tx.now)
      BY <1>2, <2>1, <3>1 DEF HistoryInv
    <3>3. tx.work[p] \in [Level -> SUBSET Row]
      BY <1>1 DEF Tables
    <3>4. \A m \in Level :
            tx'.work[p][m] =
              IF m = tx.step
                THEN Upsert(tx.work[p][m], RolledUp(tx.work[p][m - 1], m, c, tx.now))
                ELSE tx.work[p][m]
      BY <1>1, <2>1
    <3>5. ChainStart(c, tx.work[p][tx.step], tx.step, tx.now)
      BY <1>1, <2>1
    <3>6. tx.step \in LongLevel /\ tx.now \in Int
      BY <1>1, <1>2
    <3>7. Begun(db[p], tx'.work[p], tx.step + 1, tx.now)
      BY <3>2, <3>3, <3>4, <3>5, <3>6, StepGoesOn
    <3> QED
      BY <1>1, <1>2, <2>1, <3>1, <3>7
  <2>2. CASE p # Current
    <3>1. StepOf(p)' = StepOf(p)
      BY <1>2, <2>2 DEF StepOf
    <3>2. tx'.work[p] = tx.work[p]
      <4>1. \A m \in Level : tx'.work[p][m] = tx.work[p][m]
        BY <1>1, <2>2
      <4> QED
        BY <1>1, <4>1, SameLevels
    <3> QED
      BY <1>1, <1>2, <3>1, <3>2 DEF HistoryInv
  <2> QED
    BY <2>1, <2>2
<1> QED
  BY <1>2, <1>3 DEF HistoryInv

LEMMA DeleteHistory ==
  ASSUME IInv, HistoryInv, DeleteOldHistory, Promise!RetentionGrows
  PROVE  HistoryInv'
<1>1. /\ tx # NoTx /\ tx \in OpenTx /\ tx.now \in Int /\ tx.work \in Tables /\ Current \in Plugins
      /\ Current \in tx.todo /\ db \in Tables /\ db' = db /\ tx.step = TopLevel + 1
      /\ tx' = [tx EXCEPT !.todo = @ \ {Current}, !.step = 2,
                          !.work[Current] = Unexpired(@, tx.now)]
  BY TxType DEF DeleteOldHistory, IInv, TypeOK, Current
<1>2. /\ tx'.todo = tx.todo \ {Current} /\ tx'.step = 2 /\ tx'.now = tx.now
      /\ tx'.work = [tx.work EXCEPT ![Current] = Unexpired(@, tx.now)]
  BY <1>1 DEF OpenTx
<1>3. ASSUME NEW p \in Plugins
      PROVE  IF p \in tx'.todo
               THEN Begun(db[p], tx'.work[p], StepOf(p)', tx'.now)
               ELSE tx'.work[p] = db[p] \/ Promise!Maintained(db[p], tx'.work[p], tx'.now)
  <2>1. CASE p = Current
    <3>1. Begun(db[p], tx.work[p], TopLevel + 1, tx.now)
      BY <1>1, <2>1 DEF HistoryInv, StepOf
    <3>2. \A l \in LongLevel : Spaced(tx.work[p][l], l)
      BY <1>1 DEF IInv, GoodTables
    <3>3. db[p] \in [Level -> SUBSET Row] /\ tx.work[p] \in [Level -> SUBSET Row]
      BY <1>1 DEF Tables
    <3>4. Promise!Maintained(db[p], Unexpired(tx.work[p], tx.now), tx.now)
      BY <1>1, <3>1, <3>2, <3>3, DeletionCompletes
    <3>5. tx'.work[p] = Unexpired(tx.work[p], tx.now) /\ p \notin tx'.todo
      BY <1>1, <1>2, <2>1 DEF Tables
    <3> QED
      BY <1>2, <3>4, <3>5
  <2>2. CASE p # Current
    <3>1. StepOf(p) = 2 /\ StepOf(p)' = 2
      BY <1>2, <2>2 DEF StepOf
    <3>2. tx'.work[p] = tx.work[p] /\ (p \in tx'.todo <=> p \in tx.todo)
      BY <1>1, <1>2, <2>2 DEF Tables
    <3> QED
      BY <1>1, <1>2, <3>1, <3>2 DEF HistoryInv
  <2> QED
    BY <2>1, <2>2
<1> QED
  BY <1>1, <1>3 DEF HistoryInv

LEMMA BeginAndEndHistory ==
  ASSUME IInv, HistoryInv, BeginMaintenance \/ Commit \/ Rollback \/ Crash
  PROVE  HistoryInv'
<1>1. CASE BeginMaintenance
  <2>1. /\ tx'.work = db /\ tx'.step = 2 /\ db' = db
    BY <1>1 DEF BeginMaintenance, Begin
  <2>2. \A p : StepOf(p)' = 2
    BY <2>1 DEF StepOf
  <2>3. \A p \in Plugins : Begun(db[p], db[p], 2, tx'.now)
    BY DEF Begun
  <2> QED
    BY <2>1, <2>2, <2>3 DEF HistoryInv
<1>2. CASE Commit
  <2>1. tx # NoTx /\ tx.todo = {} /\ db' = tx.work /\ tx' = NoTx
    BY <1>2 DEF Commit, EndTx
  <2>2. \A p \in Plugins : \A r \in tx.work[p][1] : r.from = {}
    <3> SUFFICES ASSUME NEW p \in Plugins PROVE tx.work[p][1] \subseteq db[p][1]
      BY DEF HistoryInv
    <3>1. CASE tx.work[p] = db[p]
      BY <3>1
    <3>2. CASE Promise!Maintained(db[p], tx.work[p], tx.now)
      BY <3>2, LevelFacts DEF Promise!Maintained
    <3> QED
      BY <2>1, <3>1, <3>2 DEF HistoryInv
  <2> QED
    BY <2>1, <2>2 DEF HistoryInv
<1>3. CASE Rollback \/ Crash
  BY <1>3 DEF Rollback, Crash, EndTx, HistoryInv
<1> QED
  BY <1>1, <1>2, <1>3

\* Actions that write samples, if anything.
LEMMA WritersWriteSamples ==
  ASSUME IInv, WriteSnapshot \/ RefreshSmartIfDue \/ RefreshSmartEnd
  PROVE  /\ tx' = tx
         /\ \/ db' = db
            \/ tx = NoTx /\ \E ps \in SUBSET Plugins, t \in Time : db' = WithSample(ps, t)
<1>1. tick.at \in Time /\ refresh.at \in Time
  BY DEF IInv, TypeOK
<1>2. enabled \ SmartPlugins \in SUBSET Plugins /\ enabled \cap SmartPlugins \in SUBSET Plugins
  BY DEF IInv, TypeOK
<1> QED
  BY <1>1, <1>2 DEF WriteSnapshot, RefreshSmartIfDue, RefreshSmartEnd

\* Writing samples is what History calls recording them.
LEMMA SamplesAreRecorded ==
  ASSUME IInv, HistoryInv, NEW ps \in SUBSET Plugins, NEW t \in Time, db' = WithSample(ps, t)
  PROVE  /\ Promise!Record(ps, t)
         /\ \A p \in Plugins : \A r \in db'[p][1] : r.from = {}
<1>1. db \in [Plugins -> [Level -> SUBSET Row]]
  BY DEF IInv, TypeOK, Tables
<1>2. ASSUME NEW p \in Plugins
      PROVE  Upsert(db[p][1], {Sample(t)}) = db[p][1] \cup {Sample(t)}
  <2>1. \A r \in db[p][1] : r \in Row /\ r.from = {}
    BY <1>1, LevelFacts DEF HistoryInv
  <2>2. \A r \in Row : r.from = {} /\ r.at = t => r = Sample(t)
    BY DEF Row, Sample
  <2>3. Sample(t).at = t
    BY DEF Sample
  <2> HIDE DEF Sample
  <2> QED
    BY <2>1, <2>2, <2>3 DEF Upsert
<1>3. db' = [p \in Plugins |-> IF p \in ps THEN [db[p] EXCEPT ![1] = @ \cup {Sample(t)}]
                                           ELSE db[p]]
  BY <1>1, <1>2, LevelFacts DEF WithSample
<1>4. Promise!Record(ps, t)
  BY <1>3 DEF Promise!Record, Sample
<1>5. Sample(t).from = {}
  BY DEF Sample
<1> HIDE DEF Sample
<1>6. ASSUME NEW p \in Plugins PROVE db'[p][1] \subseteq db[p][1] \cup {Sample(t)}
  BY <1>1, <1>3, LevelFacts
<1> QED
  BY <1>4, <1>5, <1>6 DEF HistoryInv

LEMMA HistoryInductive ==
  ASSUME IInv, HistoryInv, [Next]_vars, Promise!RetentionGrows
  PROVE  HistoryInv'
<1>1. CASE RollupStep
  BY <1>1, RollupStepHistory
<1>2. CASE DeleteOldHistory
  BY <1>2, DeleteHistory
<1>3. CASE BeginMaintenance \/ Commit \/ Rollback \/ Crash
  BY <1>3, BeginAndEndHistory
<1>4. CASE WriteSnapshot \/ RefreshSmartIfDue \/ RefreshSmartEnd
  <2>1. /\ tx' = tx
        /\ \/ db' = db
           \/ tx = NoTx /\ \E ps \in SUBSET Plugins, t \in Time : db' = WithSample(ps, t)
    BY <1>4, WritersWriteSamples
  <2>2. CASE db' = db
    <3>1. \A p : StepOf(p)' = StepOf(p)
      BY <2>1 DEF StepOf, Current
    <3> QED
      BY <2>1, <2>2, <3>1 DEF HistoryInv
  <2>3. CASE db' # db
    BY <2>1, <2>3, SamplesAreRecorded DEF HistoryInv
  <2> QED
    BY <2>2, <2>3
<1>5. CASE ~ (\/ RollupStep \/ DeleteOldHistory \/ BeginMaintenance \/ Commit \/ Rollback
              \/ Crash \/ WriteSnapshot \/ RefreshSmartIfDue \/ RefreshSmartEnd)
  <2>1. tx' = tx /\ db' = db
    BY <1>5 DEF Next, vars, Advance, StepBack, SetHistoryPlugins, TickFires, TickFails,
                RefreshSmartStart
  <2>2. \A p : StepOf(p)' = StepOf(p)
    BY <2>1 DEF StepOf, Current
  <2> QED
    BY <2>1, <2>2 DEF HistoryInv
<1> QED
  BY <1>1, <1>2, <1>3, <1>4, <1>5

\* Every step records samples, maintains or leaves the history alone.
LEMMA HistoryStep ==
  ASSUME IInv, HistoryInv, [Next]_vars
  PROVE  [Promise!Next]_db
<1>1. CASE Commit
  <2>1. tx # NoTx /\ tx.todo = {} /\ db' = tx.work
    BY <1>1 DEF Commit
  <2>2. tx.now \in Time /\ tx.work \in Tables
    BY <2>1, TxType DEF IInv, OpenTx
  <2>3. db' = [p \in Plugins |-> db'[p]]
    BY <2>1, <2>2 DEF Tables
  <2>4. \A p \in Plugins : db'[p] = db[p] \/ Promise!Maintained(db[p], db'[p], tx.now)
    BY <2>1 DEF HistoryInv
  <2>5. Promise!Maintain(tx.now)
    BY <2>3, <2>4 DEF Promise!Maintain
  <2> QED
    BY <2>2, <2>5 DEF Promise!Next
<1>2. CASE WriteSnapshot \/ RefreshSmartIfDue \/ RefreshSmartEnd
  BY <1>2, WritersWriteSamples, SamplesAreRecorded DEF Promise!Next
<1>3. CASE ~ (Commit \/ WriteSnapshot \/ RefreshSmartIfDue \/ RefreshSmartEnd)
  BY <1>3 DEF Next, vars, Advance, StepBack, SetHistoryPlugins, Crash, TickFires, TickFails,
              RefreshSmartStart, BeginMaintenance, RollupStep, DeleteOldHistory, Rollback
<1> QED
  BY <1>1, <1>2, <1>3

(***************************************************************************)
(* The history that RunMaintenance, the writers of samples, failures and   *)
(* crashes leave in the database is one of atomic maintenances, each of    *)
(* which averages every full window once and whole and deletes only what   *)
(* has expired, for every table of resolutions that keeps none for a       *)
(* shorter time than the one it averages (historyRetention).               *)
(***************************************************************************)
THEOREM HistoryImplemented ==
  ASSUME Promise!RetentionGrows
  PROVE  Spec => HistoryIsKept
<1>1. Init => HistoryInv /\ Promise!Init
  <2> SUFFICES ASSUME Init PROVE HistoryInv /\ Promise!Init
    OBVIOUS
  <2>1. \A p \in Plugins : db[p][1] = {}
    BY LevelFacts DEF Init
  <2> QED
    BY <2>1 DEF Init, HistoryInv, Promise!Init
<1>2. IInv /\ HistoryInv /\ [Next]_vars => HistoryInv'
  BY HistoryInductive
<1>3. IInv /\ HistoryInv /\ [Next]_vars => [Promise!Next]_db
  BY HistoryStep
<1> QED
  BY <1>1, <1>2, <1>3, Invariance, PTL DEF Spec, HistoryIsKept, Promise!Spec

=============================================================================
