---------------------------- MODULE MCDeployment ----------------------------
(* Instances of Deployment. *)
EXTENDS Deployment

MCHeadOf == <<13, 20, 25>>

\* One row for each way in which what rows say meets a revision.
MCOddRows   == {<<Main("sutton", "open_order_report"), "warehouse_batch">>}
MCStrayRows == {<<ShipAdvice("acenda"), Order("acenda")>>}
MCNamed     == {<<SalesOrder[1], "channel">>}
=============================================================================
