----------------------------- MODULE MCOrderPush -----------------------------
(* Instances of OrderPush for TLC. *)
EXTENDS OrderPush, TLC

CONSTANTS o1, o2, l1, l2, l3

\* Two lines of one order, which may be listed and pushed at different times,
\* and one line of another, whose sales channel may be unknown.
MCOrderOf == (l1 :> o1) @@ (l2 :> o1) @@ (l3 :> o2)
=============================================================================
