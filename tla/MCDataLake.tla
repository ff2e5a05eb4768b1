----------------------------- MODULE MCDataLake -----------------------------
(* Small instances of DataLake for TLC. *)
EXTENDS DataLake

CONSTANTS worker, runner, a, b
=============================================================================
