--------------------------- MODULE MCAgentRuntime ---------------------------
(***************************************************************************)
(* Small instances of AgentRuntime: two configurations tell a stale value  *)
(* from a current one, and two handlers are enough for two commands to     *)
(* interleave with each other and with the event loop.                     *)
(***************************************************************************)
EXTENDS AgentRuntime

CONSTANTS h1, h2, c1, c2
=============================================================================
