--------------------------- MODULE MCLiveCurrent ---------------------------
(***************************************************************************)
(* Small instances of LiveCurrent.  A key is named for the plugin it       *)
(* stands for; two requests are enough for one to store between two steps  *)
(* of the other.                                                           *)
(***************************************************************************)
EXTENDS LiveCurrent, TLC

CONSTANTS r1, r2
RequestSymmetry == Permutations({r1, r2})

MCKind == [k \in Keys |-> CASE k \in {"cpu", "fs"} -> "base"
                            [] k = "system_summary" -> "summary"
                            [] k = "containers" -> "containers"
                            [] k \in {"processes", "programs"} -> "process"
                            [] k = "connections" -> "plain"
                            [] k = "smart" -> "smart"]

\* fs and smart are never cached; a reload may disable the cache of the others.
PartlyCachedTTLs == {[k \in Keys |-> IF k \in {"fs", "smart"} THEN 0 ELSE t] : t \in {0, 1}}

\* TTLs of 1, which a reload may set to 0.
ReloadedTTLs == {[k \in Keys |-> t] : t \in {0, 1}}
=============================================================================
