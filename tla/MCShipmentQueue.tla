--------------------------- MODULE MCShipmentQueue ---------------------------
(* Small instances of ShipmentQueue for TLC. *)
EXTENDS ShipmentQueue, TLC

CONSTANTS w1, w2, a, b, l1

OneSutton    == [k \in {a} |-> "sutton"]
OneProductiv == [k \in {a} |-> "productiv"]
OneKsp       == [k \in {a} |-> "ksp"]
Mixed        == [k \in {a, b} |-> IF k = a THEN "ksp" ELSE "productiv"]
TwoProductiv == [k \in {a, b} |-> "productiv"]

WorkerSymmetry == Permutations(Workers)
=============================================================================
