------------------------------ MODULE History ------------------------------
(***************************************************************************)
(* What the history tables of the metrics store promise to those who read  *)
(* them: samples are recorded, and now and then one atomic maintenance     *)
(* brings the tables of some plugins up to a time.  It averages every      *)
(* window that is full enough, once and whole, and takes nothing away but  *)
(* rows that are too old.  Half a maintenance is never seen, whatever      *)
(* fails or dies, and what is not maintained stays.                        *)
(***************************************************************************)
EXTENDS Integers, FiniteSets

CONSTANTS
  Plugins,     \* plugins that own a history table
  TopLevel,    \* the longest resolution
  Window,      \* Window[l]: length of the window a row of level l covers
  MinRows,     \* MinRows[l]: fewest shorter rows a row of level l may average
  Retention,   \* Retention[l]: age at which a row of level l expires
  MaxTime      \* bound on the clock

Level == 1 .. TopLevel
LongLevel == 2 .. TopLevel
Time == 0 .. MaxTime

\* No resolution is kept for a shorter time than the one it averages.
RetentionGrows == \A l \in LongLevel : Retention[l - 1] <= Retention[l]

VARIABLE history   \* history[p][l]: the rows of a plugin and a resolution

Init == history = [p \in Plugins |-> [l \in Level |-> {}]]

\* A sample of time t is recorded for each plugin in ps.
Record(ps, t) ==
  history' = [p \in Plugins |->
    IF p \in ps THEN [history[p] EXCEPT ![1] = @ \cup {[at |-> t, from |-> {}]}]
                ELSE history[p]]

-----------------------------------------------------------------------------
(* Maintenance.                                                             *)

InWindow(shorter, l, t) == {s \in shorter : t - Window[l] < s.at /\ s.at <= t}
Dense(shorter, l, t) == Cardinality(InWindow(shorter, l, t)) >= MinRows[l]

\* The row r averages all rows of a window that is full enough.
WholeAverage(r, shorter, l) ==
  r.from = {s.at : s \in InWindow(shorter, l, r.at)} /\ Dense(shorter, l, r.at)

\* The windows of the rows do not overlap.
Apart(rows, l) ==
  \A r, s \in rows : r # s => r.at + Window[l] <= s.at \/ s.at + Window[l] <= r.at

\* Nothing is left to average: no window that ends whole windows after the last row, or now
\* if there is none, is full enough, unless it ended when its samples were to expire.
CaughtUp(rows, shorter, l, now) ==
  /\ rows = {} /\ 0 < Retention[l - 1] => ~ Dense(shorter, l, now)
  /\ \A r \in rows : (\A s \in rows : s.at <= r.at) =>
       \A k \in 1 .. now - r.at :
         LET t == r.at + k * Window[l]
         IN now - Retention[l - 1] < t /\ t <= now => ~ Dense(shorter, l, t)

\* The tables of a plugin before and after maintenance for the time now.
Maintained(old, new, now) ==
  LET full == [l \in Level |-> old[l] \cup new[l]]
  IN /\ new = [l \in Level |-> {r \in full[l] : r.at >= now - Retention[l]}]
     /\ full[1] = old[1]
     /\ \A l \in LongLevel :
          /\ \A r \in new[l] \ old[l] : r.at <= now /\ WholeAverage(r, full[l - 1], l)
          /\ Apart(full[l], l)
          /\ CaughtUp(full[l], full[l - 1], l, now)

Maintain(now) ==
  /\ history' = [p \in Plugins |-> history'[p]]
  /\ \A p \in Plugins : history'[p] = history[p] \/ Maintained(history[p], history'[p], now)

Next ==
  \/ \E ps \in SUBSET Plugins, t \in Time : Record(ps, t)
  \/ \E now \in Time : Maintain(now)

Spec == Init /\ [][Next]_history

=============================================================================
