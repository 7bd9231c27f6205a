------------------------------ MODULE MCRollup ------------------------------
(***************************************************************************)
(* Small instances of Rollup.  Three resolutions stand for the five of the *)
(* program, with windows of 3 and 6 samples, or two with windows of 2: one *)
(* sample of a window may be missing, as 1 of 10 may be in the program.    *)
(* Retention grows with the resolution, as historyRetention does.          *)
(***************************************************************************)
EXTENDS Rollup

MCWindow == [l \in {2, 3} |-> IF l = 2 THEN 3 ELSE 6]
MCMinRows == [l \in {2, 3} |-> 2]
MCRetention == [l \in {1, 2, 3} |-> CASE l = 1 -> 4 [] l = 2 -> 8 [] l = 3 -> 16]

\* Two resolutions and dense windows, so that few instants suffice to chain them.
MCWindow2 == [l \in {2} |-> 2]
MCMinRows2 == [l \in {2} |-> 1]
MCRetention2 == [l \in {1, 2} |-> IF l = 1 THEN 2 ELSE 3]
=============================================================================
