-------------------------- MODULE MCTrackingRequests --------------------------
(* Instances of TrackingRequests for TLC. *)
EXTENDS TrackingRequests, TLC

CONSTANTS w1, w2, c1, c2, s1, bill, box, n1, ship1, noop, noship, noreq, hand

\* A container asked for by its master bill, the same container asked for by
\* its number for another Odoo record, and the shipment of that bill.
MCRefOf      == (c1 :> bill) @@ (c2 :> box) @@ (s1 :> bill)
MCNumberOf   == (c1 :> n1) @@ (c2 :> n1)
MCShipmentOf == (bill :> ship1) @@ (box :> ship1)
MCCarries    == (ship1 :> {n1})
=============================================================================
