--------------------------- MODULE MCDockerStats ---------------------------
(***************************************************************************)
(* Small instances of DockerStats: two containers and one token make one   *)
(* worker wait for the other; three calls for two intervals are enough for *)
(* a reading, an aborted call, and a rate over both.                       *)
(***************************************************************************)
EXTENDS DockerStats, TLC

CONSTANTS c1, c2, i1, i2
DockerSymmetry == Permutations({c1, c2}) \cup Permutations({i1, i2})
=============================================================================
