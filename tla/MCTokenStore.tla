---------------------------- MODULE MCTokenStore ----------------------------
(* Small instances of TokenStore for TLC. *)
EXTENDS TokenStore

CONSTANTS worker, api, t1, t2, t3

\* Two tasks of the worker and one of the API; one each; two of the worker.
TwoAndOne  == [t \in {t1, t2, t3} |-> IF t = t3 THEN api ELSE worker]
OneAndOne  == [t \in {t1, t3} |-> IF t = t3 THEN api ELSE worker]
TwoInOne   == [t \in {t1, t2} |-> worker]
=============================================================================
