--------------------------- MODULE SchemaHistory ---------------------------
(***************************************************************************)
(* The database schema as the alembic revisions build it, and the schema   *)
(* the ORM models declare (database/alembic/versions, database/models).    *)
(*                                                                         *)
(* A table is <<schema, document, part>>; the part "headers" is the main   *)
(* table of its document (items and customers have no suffix of their      *)
(* own).  A database holds the tables, the references between them, the    *)
(* columns and the rules (NOT NULL, or an integer type) that some revision *)
(* changes, the enumeration types, and of its rows what can stop or be     *)
(* lost in a migration: the rules some row would break (odd), references   *)
(* some row would break (orphans) and the columns that hold a value.       *)
(* Column lists, indexes, defaults and primary keys are left out.          *)
(***************************************************************************)
EXTENDS Integers, Sequences, FiniteSets, SequencesExt

Nothing == [schemas |-> {"public"}, tables |-> {}, refs |-> {}, columns |-> {},
            rules |-> {}, types |-> {}, odd |-> {}, orphans |-> {}, values |-> {}]

\* Only columns have values; a rule that a row breaks is <<table, column>>.
IsDatabase(d) ==
  /\ d = [f \in DOMAIN Nothing |-> d[f]]
  /\ d.values \subseteq d.columns
  /\ \A x \in d.odd : x = <<x[1], x[2]>>

\* Schemas that a revision creates and that its downgrade leaves.
LeftBehind == {"sutton", "warehouse_data"}

\* Two databases with the same tables, references, columns and rules; the first may
\* have schemas and types left behind, and has a value wherever the second has one.
Like(d, e) ==
  /\ d.tables = e.tables /\ d.refs = e.refs /\ d.columns = e.columns /\ d.rules = e.rules
  /\ e.schemas \subseteq d.schemas /\ d.schemas \subseteq e.schemas \union LeftBehind
  /\ e.types \subseteq d.types
  /\ e.values \subseteq d.values

----------------------------------------------------------------------------
(* The operations of a revision.                                           *)

CreateSchema(s)       == [do |-> "create schema", schema |-> s]
DropSchema(s)         == [do |-> "drop schema", schema |-> s]
Create(ts, Up(_))     == [do |-> "create", tables |-> ts \o <<>>, refs |-> UNION {{t} \X Up(t) : t \in ToSet(ts)}]
Drop(ts)              == [do |-> "drop", tables |-> ts \o <<>>]
Move(T, s)            == [do |-> "move", tables |-> T, schema |-> s]
AddColumn(t, c)       == [do |-> "add column", table |-> t, column |-> c]
DropColumn(t, c)      == [do |-> "drop column", table |-> t, column |-> c]
CopyColumn(t, c, to)  == [do |-> "copy column", table |-> t, column |-> c, to |-> to]
Require(T, c)         == [do |-> "require", rules |-> T \X {c}]
Relax(T, c)           == [do |-> "relax", rules |-> T \X {c}]
Fill(t, c)            == [do |-> "fill", rule |-> <<t, c>>]
Refer(t, u)           == [do |-> "refer", table |-> t, to |-> u]
Unrefer(t, u)         == [do |-> "unrefer", table |-> t, to |-> u]
CreateType(n)         == [do |-> "create type", type |-> n]
Refuse                == [do |-> "refuse"]

RenameColumn(t, c, to) == <<AddColumn(t, to), CopyColumn(t, c, to), DropColumn(t, c)>>

(* What PostgreSQL demands of an operation.  Tables are created and dropped *)
(* in the order of their sequence: each after the tables it refers to, and *)
(* before the tables that it is referred to by are gone it cannot go.  A   *)
(* rule is refused while a row breaks it, a schema is not dropped while it *)
(* holds a table.                                                          *)
Possible(db, o) ==
  LET Before(k)    == {o.tables[j] : j \in 1..(k - 1)}
      HasColumn(c) == <<o.table, c>> \in db.columns
      HasTables(R) == \A r \in R : r[1] \in db.tables
  IN CASE o.do = "create schema" -> TRUE
       [] o.do = "drop schema" -> \A t \in db.tables : t[1] # o.schema
       [] o.do = "create" -> \A k \in DOMAIN o.tables :
                               /\ o.tables[k] \notin db.tables
                               /\ o.tables[k][1] \in db.schemas
                               /\ \A r \in o.refs : r[1] = o.tables[k] =>
                                    r[2] \in db.tables \/ r[2] \in Before(k)
       [] o.do = "drop" -> \A k \in DOMAIN o.tables :
                             /\ o.tables[k] \in db.tables
                             /\ \A r \in db.refs : r[2] = o.tables[k] => r[1] \in Before(k)
       [] o.do = "move" -> /\ o.tables \subseteq db.tables
                           /\ o.schema \in db.schemas
                           /\ \A t \in o.tables : [t EXCEPT ![1] = o.schema] \notin db.tables
       [] o.do = "add column"  -> o.table \in db.tables /\ ~HasColumn(o.column)
       [] o.do = "drop column" -> HasColumn(o.column)
       [] o.do = "copy column" -> HasColumn(o.column) /\ HasColumn(o.to)
       [] o.do = "require" -> HasTables(o.rules) /\ o.rules \intersect db.odd = {}
       [] o.do = "relax"   -> HasTables(o.rules)
       [] o.do = "fill"    -> HasTables({o.rule})
       [] o.do = "refer"   -> /\ {o.table, o.to} \subseteq db.tables
                              /\ <<o.table, o.to>> \notin db.orphans
       [] o.do = "unrefer" -> <<o.table, o.to>> \in db.refs
       [] o.do = "create type" -> o.type \notin db.types
       [] o.do = "refuse"  -> FALSE

Without(db, T) ==
  LET Kept(S) == {x \in S : x[1] \notin T}
  IN [db EXCEPT !.tables = @ \ T, !.refs = Kept(@), !.columns = Kept(@), !.rules = Kept(@),
                !.odd = Kept(@), !.orphans = Kept(@), !.values = Kept(@)]

Moved(db, T, s) ==
  LET New(u)   == IF u \in T THEN [u EXCEPT ![1] = s] ELSE u
      First(S) == {<<New(x[1]), x[2]>> : x \in S}
      Both(S)  == {<<New(x[1]), New(x[2])>> : x \in S}
  IN [db EXCEPT !.tables = {New(u) : u \in @}, !.refs = Both(@), !.orphans = Both(@),
                !.columns = First(@), !.rules = First(@), !.odd = First(@), !.values = First(@)]

Done(db, o) ==
  CASE o.do = "create schema" -> [db EXCEPT !.schemas = @ \union {o.schema}]
    [] o.do = "drop schema"   -> [db EXCEPT !.schemas = @ \ {o.schema}]
    [] o.do = "create"        -> [db EXCEPT !.tables = @ \union ToSet(o.tables),
                                            !.refs = @ \union o.refs]
    [] o.do = "drop"          -> Without(db, ToSet(o.tables))
    [] o.do = "move"          -> Moved(db, o.tables, o.schema)
    [] o.do = "add column"    -> [db EXCEPT !.columns = @ \union {<<o.table, o.column>>}]
    [] o.do = "drop column"   -> [db EXCEPT !.columns = @ \ {<<o.table, o.column>>},
                                            !.values = @ \ {<<o.table, o.column>>}]
    [] o.do = "copy column"   -> IF <<o.table, o.column>> \in db.values
                                   THEN [db EXCEPT !.values = @ \union {<<o.table, o.to>>}]
                                   ELSE db
    [] o.do = "require"       -> [db EXCEPT !.rules = @ \union o.rules]
    [] o.do = "relax"         -> [db EXCEPT !.rules = @ \ o.rules]
    [] o.do = "fill"          -> [db EXCEPT !.odd = @ \ {o.rule}]
    [] o.do = "refer"         -> [db EXCEPT !.refs = @ \union {<<o.table, o.to>>}]
    [] o.do = "unrefer"       -> [db EXCEPT !.refs = @ \ {<<o.table, o.to>>}]
    [] o.do = "create type"   -> [db EXCEPT !.types = @ \union {o.type}]

(* The operations one after the other, up to the first that is refused:    *)
(* `done' is how many of them went through, and run[k] is where the first  *)
(* k of them lead.                                                         *)
Advance(x, ops, k) ==
  IF x.done = k - 1 /\ Possible(x.db, ops[k])
    THEN [db |-> Done(x.db, ops[k]), done |-> k] ELSE x

(* The only element of a set is computed once, an argument at every use.   *)
Once(S) == CHOOSE x \in S : TRUE

RunFrom(db, ops) ==
  LET run[k \in 0..Len(ops)] ==
        IF k = 0 THEN [db |-> db, done |-> 0]
                 ELSE Once({Advance(x, ops, k) : x \in {run[k - 1]}})
  IN run[Len(ops)]

RunOps(db, ops) == Once({RunFrom(d, o) : d \in {db}, o \in {ops}})

----------------------------------------------------------------------------
(* Documents: the tables of one document, in the order they are created.   *)

Document(schema, doc, parts) == [i \in DOMAIN parts |-> <<schema, doc, parts[i]>>]

\* The table a part hangs on: its document's main table unless it details another part.
ParentPart(p) ==
  CASE p = "line_links"             -> "lines"
    [] p = "billing_charge_details" -> "billing_charges"
    [] p = "package_contents"       -> "packages"
    [] p = "detail_items"           -> "details"
    [] OTHER                        -> "headers"

Parents(t) == IF t[3] = "headers" THEN {} ELSE {<<t[1], t[2], ParentPart(t[3])>>}

\* A revision that creates tables drops them in the reverse order.
Creates(ts) == <<Create(ts, Parents)>>
Drops(ts)   == <<Drop(Reverse(ts))>>

Main(schema, doc) == <<schema, doc, "headers">>

----------------------------------------------------------------------------
(* The revisions, oldest first.                                            *)

AuthTokens == LET ts == Document("public", "auth_tokens", <<"headers">>)
              IN [up |-> Creates(ts), down |-> Drops(ts)]

\* The columns of the source that only revision RelaxSourceFields touches
\* count as one, "source fields".
Order(schema)       == Main(schema, "order")
OrderItems(schema)  == <<schema, "order", "items">>
ShipAdvice(schema)  == Main(schema, "ship_advice")
AdviceItems(schema) == <<schema, "ship_advice", "items">>
OrderTables(schema) ==
  <<Order(schema), OrderItems(schema), ShipAdvice(schema), <<schema, "order", "line_discounts">>,
    <<schema, "order", "line_kit_items">>, <<schema, "order", "returns">>, AdviceItems(schema)>>

AcendaParents(t) ==
  LET s == t[1]
  IN CASE t = OrderItems(s) -> {Order(s)}
       [] t = ShipAdvice(s) -> {Order(s)}
       [] t[3] \in {"line_discounts", "line_kit_items"} -> {OrderItems(s)}
       [] t[3] = "returns"  -> {Order(s), OrderItems(s)}
       [] t = AdviceItems(s) -> {OrderItems(s), ShipAdvice(s)}
       [] OTHER -> {}

AcendaOrders ==
  LET ts == OrderTables("public")
      o  == Order("public")
      i  == OrderItems("public")
  IN [up   |-> <<Create(ts, AcendaParents), Require(ToSet(ts), "source fields"), Require({o}, "fields"),
                Require({o}, "sales_channel_id"), Require({i}, "sku"),
                AddColumn(i, "quantity_cancelled")>>,
      down |-> Drops(ts)]

LakeFiles == LET t == Main("public", "data_lake_files")
             IN [up |-> Creates(<<t>>) \o <<Require({t}, "counts")>>, down |-> Drops(<<t>>)]

\* The columns were NOT NULL from the start; only their default is new, and only it is taken back.
LakeCounts == LET t == Main("public", "data_lake_files")
              IN [up |-> <<Fill(t, "counts"), Require({t}, "counts")>>, down |-> <<>>]

RelaxSourceFields ==
  LET ts == OrderTables("public")
  IN [up   |-> <<Relax(ToSet(ts), "source fields"), Relax({Order("public")}, "sales_channel_id"),
                Relax({OrderItems("public")}, "sku")>>,
      down |-> <<Refuse>>]

ItemFields == LET t == OrderItems("public")
              IN [up |-> <<AddColumn(t, "fields")>>, down |-> <<DropColumn(t, "fields")>>]

DropAdviceReferences ==
  LET h == ShipAdvice("public")
      i == AdviceItems("public")
  IN [up   |-> <<Unrefer(h, Order("public")), Unrefer(i, OrderItems("public"))>>,
      down |-> <<Refer(h, Order("public")), Refer(i, OrderItems("public"))>>]

RenameQuantity ==
  LET t == OrderItems("public")
  IN [up   |-> RenameColumn(t, "quantity_cancelled", "quantity_canceled"),
      down |-> RenameColumn(t, "quantity_canceled", "quantity_cancelled")]

ProviderSchemas == [up   |-> <<CreateSchema("acenda"), CreateSchema("sos")>>,
                    down |-> <<DropSchema("sos"), DropSchema("acenda")>>]

\* Every table, with its constraints, indexes and sequence, loses the prefix and changes schema.
MoveAcenda == [up   |-> <<Move(ToSet(OrderTables("public")), "acenda")>>,
               down |-> <<Move(ToSet(OrderTables("acenda")), "public")>>]

\* Revision 3c9d1e5f7a6b: the first SOS documents.
FiveParts == <<"headers", "lines", "custom_fields", "header_links", "line_links">>
SalesOrder  == Document("sos", "sales_order", FiveParts)
Invoice     == Document("sos", "invoice", FiveParts)
Shipment    == Document("sos", "shipment", FiveParts)
ItemReceipt == Document("sos", "item_receipt", FiveParts \o <<"other_costs">>)
Item        == Document("sos", "item", <<"headers", "custom_fields", "uoms">>)

SosDocuments ==
  LET ts == SalesOrder \o Invoice \o Shipment \o ItemReceipt \o Item
  IN [up   |-> Creates(ts) \o <<AddColumn(SalesOrder[1], "channel"), AddColumn(SalesOrder[1], "priority"),
                                AddColumn(Invoice[1], "channel"),
                                AddColumn(Shipment[1], "channel"), AddColumn(Shipment[1], "priority")>>,
      down |-> Drops(ts)]

\* Revision b2f95d2def23.
Synced    == {Invoice[1], ItemReceipt[1], Item[1], SalesOrder[1], Shipment[1]}
OrderSync == <<Main("sos", "sales_order_sync")>>

AcendaToSosUp ==
  Creates(OrderSync)
  \o <<Relax({Order("acenda")}, "fields"), Require({Order("acenda")}, "sales_channel_id"),
       Require({OrderItems("acenda")}, "sku"), Require(Synced, "sync_token")>>

AcendaToSosDown ==
  <<Relax(Synced, "sync_token"), Relax({OrderItems("acenda")}, "sku"),
    Relax({Order("acenda")}, "sales_channel_id"),
    Fill(Order("acenda"), "fields"), Require({Order("acenda")}, "fields")>>
  \o Drops(OrderSync)

\* Revision a782ff62aca0: the table takes its enumeration along only on the way up.
ErrorLog == LET ts == <<Main("public", "error_log")>>
            IN [up   |-> <<CreateType("error_log_status")>> \o Creates(ts),
                down |-> Drops(ts)]

\* Revision c4e8a1d2f903: a reference becomes an id and a name.
References == <<<<SalesOrder[1], "channel">>, <<SalesOrder[1], "priority">>, <<Invoice[1], "channel">>,
                <<Shipment[1], "channel">>, <<Shipment[1], "priority">>>>
NameOf(c) == IF c = "channel" THEN "channel_name" ELSE "priority_name"
IdOf(c)   == IF c = "channel" THEN "channel_id" ELSE "priority_id"

\* Mutant of Normalize: the old column is dropped before its values are copied.
NormalizeDropped(t, c) == <<AddColumn(t, IdOf(c)), AddColumn(t, NameOf(c)), DropColumn(t, c)>>

Normalize(t, c) ==
  <<AddColumn(t, IdOf(c)), AddColumn(t, NameOf(c)), CopyColumn(t, c, NameOf(c)), DropColumn(t, c)>>

Denormalize(t, c) ==
  <<AddColumn(t, c), CopyColumn(t, NameOf(c), c), DropColumn(t, NameOf(c)), DropColumn(t, IdOf(c))>>

NormalizeReferences ==
  [up   |-> FlattenSeq([k \in DOMAIN References |-> Normalize(References[k][1], References[k][2])]),
   down |-> FlattenSeq([k \in DOMAIN References |-> Denormalize(References[k][1], References[k][2])])]

LinkedFirst == <<"headers", "custom_fields", "header_links", "lines", "line_links">>

PurchaseOrders == LET ts == Document("sos", "purchase_order", LinkedFirst)
                  IN [up |-> Creates(ts), down |-> Drops(ts)]

\* Revision 814b23355530: the other SOS documents.
Return       == Document("sos", "return", LinkedFirst)
Rma          == Document("sos", "rma", LinkedFirst)
SalesReceipt == Document("sos", "sales_receipt", LinkedFirst)
Estimate     == Document("sos", "estimate", LinkedFirst)
Customer     == Document("sos", "customer", <<"headers", "custom_fields", "alt_addresses">>)
Payment      == Document("sos", "payment", LinkedFirst)
Adjustment   == Document("sos", "adjustment", <<"headers", "custom_fields", "lines">>)
Returns == Return \o Rma \o SalesReceipt \o Estimate \o Customer \o Payment \o Adjustment

\* Mutant of ReturnsDown: the alternative addresses of the customers are forgotten.
ReturnsDownShort == Drops(SelectSeq(Returns, LAMBDA t : t[3] # "alt_addresses"))

ReturnsDown == Drops(Returns)

Fulfillments == LET ts == Document("acenda", "fulfillment", <<"headers", "tracking", "items">>)
                IN [up |-> Creates(ts), down |-> Drops(ts)]

\* Revision 683a1677fd58.
Applications ==
  <<Main("public", "bbb_payouts"), Main("bh_api", "webhook_events"), Main("public", "data_lake_cursors"),
    Main("order_data", "guest_supply_po"), Main("order_data", "rithum_po_details"),
    Main("order_data", "rithum_po"), Main("public", "processed_payouts"), Main("public", "target_payouts"),
    Main("public", "wayfair_deductions"), Main("public", "wayfair_payments"),
    <<"order_data", "guest_supply_po", "details">>, <<"public", "target_payouts", "transfers">>>>

ApplicationTables ==
  [up   |-> <<CreateSchema("bh_api"), CreateSchema("order_data")>> \o Creates(Applications),
   down |-> Drops(Applications) \o <<DropSchema("order_data"), DropSchema("bh_api")>>]

KspShipments == Document("warehouse_data", "ksp_ship", <<"headers", "details", "detail_items">>)
KspTables == [up   |-> <<CreateSchema("warehouse_data")>> \o Creates(KspShipments),
              down |-> Drops(KspShipments)]

Productiv == Document("warehouse_data", "productiv_ship",
                      <<"headers", "billing_charges", "items", "packages", "billing_charge_details",
                        "package_contents">>)
ProductivUp   == Creates(Productiv)
ProductivDown == Drops(Productiv)

Sutton == <<Main("sutton", "edi_load"), Main("sutton", "inv_report"), Main("sutton", "open_order_report"),
            Main("sutton", "order_submission"), Main("sutton", "sales_report")>>
SuttonUp   == <<CreateSchema("sutton")>> \o Creates(Sutton)
              \o <<Require({Main("sutton", "open_order_report")}, "warehouse_batch")>>
SuttonDown == Drops(Sutton)

ShipmentSync == Main("sos", "shipment_sync")
ShipmentSyncTable ==
  [up   |-> Creates(<<ShipmentSync>>) \o <<Require({ShipmentSync}, "integer source_id")>>,
   down |-> Drops(<<ShipmentSync>>)]

\* On the way back every text must read as an integer.
SourceIdText == [up   |-> <<Relax({ShipmentSync}, "integer source_id")>>,
                 down |-> <<Require({ShipmentSync}, "integer source_id")>>]

OpenOrderBatch ==
  LET t == Main("sutton", "open_order_report")
  IN [up   |-> <<AddColumn(t, "id"), Relax({t}, "warehouse_batch")>>,
      down |-> <<Require({t}, "warehouse_batch"), DropColumn(t, "id")>>]

KspSourceName == LET t == Main("warehouse_data", "ksp_ship")
                 IN [up |-> <<AddColumn(t, "source_name")>>, down |-> <<DropColumn(t, "source_name")>>]

\* The chain of down_revisions, from the first revision to the head.
History ==
  <<AuthTokens, AcendaOrders, LakeFiles, LakeCounts, RelaxSourceFields, ItemFields,
    DropAdviceReferences, RenameQuantity, ProviderSchemas, MoveAcenda, SosDocuments,
    [up |-> AcendaToSosUp, down |-> AcendaToSosDown], ErrorLog, NormalizeReferences, PurchaseOrders,
    [up |-> Creates(Returns), down |-> ReturnsDown], Fulfillments, ApplicationTables, KspTables,
    [up |-> ProductivUp, down |-> ProductivDown], [up |-> SuttonUp, down |-> SuttonDown],
    ShipmentSyncTable, SourceIdText, OpenOrderBatch, KspSourceName>>

HeadRevision == Len(History)

\* An upgrade from one revision to a later one, up to the first that is refused:
\* `rev' is the last that went through.
Climb(x, o, r) ==
  IF x.rev = r - 1 /\ o.done = Len(History[r].up) THEN [db |-> o.db, rev |-> r] ELSE x

Upgrade(db, from, to) ==
  LET climb[r \in from..to] ==
        IF r = from THEN [db |-> db, rev |-> from]
          ELSE Once({Climb(x, RunOps(x.db, History[r].up), r) : x \in {climb[r - 1]}})
  IN climb[to]

\* The schema of a revision: what an upgrade of an empty database gives.
Schemas ==
  LET schema[n \in 0..HeadRevision] ==
        IF n = 0 THEN <<Nothing>>
        ELSE Once({Append(s, RunOps(s[n], History[n].up).db) : s \in {schema[n - 1]}})
  IN schema[HeadRevision]

SchemaAt(r) == Schemas[r + 1]
=============================================================================
