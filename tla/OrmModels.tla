----------------------------- MODULE OrmModels -----------------------------
(***************************************************************************)
(* The schema the ORM models declare (database/models): the tables, their  *)
(* foreign keys and, of the columns and rules, the ones that some revision *)
(* changes.  Written from the models alone; only the names of tables are   *)
(* those of SchemaHistory.                                                 *)
(***************************************************************************)
EXTENDS SchemaHistory

Declared(T) == [tables |-> T, refs |-> UNION {{t} \X Parents(t) : t \in T}, columns |-> {}, rules |-> {}]

Model(schema, doc, parts) == Declared({<<schema, doc, p>> : p \in parts})

Single(schema, name) == Model(schema, name, {"headers"})

\* The columns c and the rules n of the main table of a document.
With(m, schema, doc, C, N) ==
  [m EXCEPT !.columns = {Main(schema, doc)} \X C, !.rules = {Main(schema, doc)} \X N]

All(M) == [tables |-> UNION {m.tables : m \in M}, refs |-> UNION {m.refs : m \in M},
           columns |-> UNION {m.columns : m \in M}, rules |-> UNION {m.rules : m \in M}]

----------------------------------------------------------------------------
(* acenda_models.py *)

AcendaOrderModel ==
  [tables  |-> {Order("acenda"), OrderItems("acenda")},
   refs    |-> {<<OrderItems("acenda"), Order("acenda")>>},
   columns |-> {OrderItems("acenda")} \X {"fields", "quantity_canceled"},
   rules   |-> {<<Order("acenda"), "sales_channel_id">>, <<OrderItems("acenda"), "sku">>}]

AcendaDetailModel ==
  LET D == {<<"acenda", "order", "line_discounts">>, <<"acenda", "order", "line_kit_items">>,
            <<"acenda", "order", "returns">>}
  IN [tables  |-> D,
      refs    |-> (D \X {OrderItems("acenda")})
                    \union {<<<<"acenda", "order", "returns">>, Order("acenda")>>},
      columns |-> {}, rules |-> {}]

AcendaAdviceModel ==
  LET A == Main("acenda", "ship_advice")
  IN [Declared({A, AdviceItems("acenda")}) EXCEPT !.refs = {<<AdviceItems("acenda"), A>>}]

FulfillmentModel == Model("acenda", "fulfillment", {"headers", "tracking", "items"})

----------------------------------------------------------------------------
(* sos_models.py *)

Lined == {"headers", "lines", "custom_fields", "header_links", "line_links"}

SalesOrderModel ==
  With(Model("sos", "sales_order", Lined), "sos", "sales_order",
       {"channel_id", "channel_name", "priority_id", "priority_name"}, {"sync_token"})
InvoiceModel ==
  With(Model("sos", "invoice", Lined), "sos", "invoice", {"channel_id", "channel_name"}, {"sync_token"})
SalesReceiptModel  == Model("sos", "sales_receipt", Lined)
EstimateModel      == Model("sos", "estimate", Lined)
ShipmentModel ==
  With(Model("sos", "shipment", Lined), "sos", "shipment",
       {"channel_id", "channel_name", "priority_id", "priority_name"}, {"sync_token"})
ReturnModel        == Model("sos", "return", Lined)
RmaModel           == Model("sos", "rma", Lined)
PurchaseOrderModel == Model("sos", "purchase_order", Lined)
ItemReceiptModel ==
  With(Model("sos", "item_receipt", Lined \union {"other_costs"}), "sos", "item_receipt", {}, {"sync_token"})
ItemModel ==
  With(Model("sos", "item", {"headers", "custom_fields", "uoms"}), "sos", "item", {}, {"sync_token"})

\* Mutant of CustomerModel: the model and the migration disagree on the name of a table.
CustomerModelRenamed == Model("sos", "customer", {"headers", "custom_fields", "addresses"})

CustomerModel      == Model("sos", "customer", {"headers", "custom_fields", "alt_addresses"})
PaymentModel       == Model("sos", "payment", Lined)
AdjustmentModel    == Model("sos", "adjustment", {"headers", "lines", "custom_fields"})
SyncModel          == All({Single("sos", "sales_order_sync"), Single("sos", "shipment_sync")})

----------------------------------------------------------------------------
(* The other model files. *)

AuthModel     == Single("public", "auth_tokens")
LakeFileModel == With(Single("public", "data_lake_files"), "public", "data_lake_files", {}, {"counts"})
LakeCursorModel == Single("public", "data_lake_cursors")
ErrorLogModel == Single("public", "error_log")
WebhookModel  == Single("bh_api", "webhook_events")

PayoutModels == All({Single("public", "processed_payouts"), Single("public", "bbb_payouts")})
WayfairModels == All({Single("public", "wayfair_payments"), Single("public", "wayfair_deductions")})
TargetModels == Model("public", "target_payouts", {"headers", "transfers"})

GuestSupplyModel == Model("order_data", "guest_supply_po", {"headers", "details"})
RithumModels  == All({Single("order_data", "rithum_po"), Single("order_data", "rithum_po_details")})

KspModel == With(Model("warehouse_data", "ksp_ship", {"headers", "details", "detail_items"}),
                 "warehouse_data", "ksp_ship", {"source_name"}, {})
ProductivHeaderModel == Model("warehouse_data", "productiv_ship", {"headers"})
ProductivDetailModel ==
  Model("warehouse_data", "productiv_ship",
        {"items", "packages", "package_contents", "billing_charges", "billing_charge_details"})

InventoryReportModel == Single("sutton", "inv_report")
OrderSubmissionModel == Single("sutton", "order_submission")
EdiLoadModel         == Single("sutton", "edi_load")
OpenOrderModel       == With(Single("sutton", "open_order_report"), "sutton", "open_order_report", {"id"}, {})
SalesReportModel     == Single("sutton", "sales_report")

----------------------------------------------------------------------------

\* Everything models/__init__.py registers with the metadata.
Metadata ==
  All({AuthModel, AcendaOrderModel, AcendaDetailModel, AcendaAdviceModel, FulfillmentModel,
       LakeFileModel, LakeCursorModel, SalesOrderModel, InvoiceModel, SalesReceiptModel, EstimateModel,
       ShipmentModel, ReturnModel, RmaModel, PurchaseOrderModel, ItemReceiptModel, ItemModel,
       CustomerModel, PaymentModel, AdjustmentModel, SyncModel, ErrorLogModel, WebhookModel,
       PayoutModels, WayfairModels, TargetModels, GuestSupplyModel, RithumModels, KspModel,
       ProductivHeaderModel, ProductivDetailModel, InventoryReportModel, OrderSubmissionModel,
       EdiLoadModel, OpenOrderModel, SalesReportModel})
=============================================================================
