---------------------------- MODULE MCStoreFiles ----------------------------
(***************************************************************************)
(* Small instances of StoreFiles: a schema of two statements can stop      *)
(* before, between and after them, and three databases are the first one,  *)
(* its replacement, and the replacement of that one.                       *)
(***************************************************************************)
EXTENDS StoreFiles
=============================================================================
