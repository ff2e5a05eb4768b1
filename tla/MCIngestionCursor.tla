-------------------------- MODULE MCIngestionCursor --------------------------
(* Small instances of IngestionCursor for TLC. *)
EXTENDS IngestionCursor

CONSTANTS orders, items

\* The records are of one endpoint.
AllOrders == [r \in Records |-> orders]

\* SOS with an endpoint of either kind that its configuration has, and Acenda.
Updated  == [e \in Endpoints |-> "updatedsince"]
Payments == [e \in Endpoints |-> IF e = orders THEN "from" ELSE "updatedsince"]
Catalog  == [e \in Endpoints |-> "$gt"]

SosAndAcenda == {Updated, Payments, Catalog}
OnlyUpdated  == {Updated}
OnlyPayments == {Payments}
OnlyCatalog  == {Catalog}
=============================================================================
