---------------------------- MODULE MCKspGateway ----------------------------
(* Small instances of KspGateway for TLC. *)
EXTENDS KspGateway

CONSTANTS r1, r2, p1
=============================================================================
