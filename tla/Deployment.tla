----------------------------- MODULE Deployment -----------------------------
(***************************************************************************)
(* A push to production: the post-receive hook checks the pushed revision  *)
(* out, builds and starts the containers, asks the API whether it is well  *)
(* and goes back to the previous revision when it is not; one of the       *)
(* containers migrates the database while the worker writes rows to it.    *)
(* nas-hooks/post-receive.production, docker/docker-compose.yml and        *)
(* database/alembic/env.py, on the revisions of SchemaHistory.             *)
(*                                                                         *)
(* A migration runs in one transaction: a revision that is refused takes   *)
(* the earlier ones back with it.  A row is written either before the      *)
(* migration locks its table or after it commits, and a revision reads     *)
(* only tables it has locked, so the migration is one step.                *)
(***************************************************************************)
EXTENDS OrmModels

CONSTANTS
  Count,     \* how often the production repository is pushed to
  Newest,    \* the last version of the code; versions are 1..Newest
  HeadOf,    \* the head revision in the code of a version
  Bare,      \* versions without the Synology overlay
  OddRows,   \* rules <<table, column>> the source may send a row against
  StrayRows, \* references <<table, table>> the source may send a row against
  OddLimit,  \* how many of those rows there are at most
  Named      \* columns <<table, column>> the source may send a value for

Versions == 1..Newest
Pushes   == 1..Count

ASSUME DeploymentAssumption ==
  /\ {Count, OddLimit} \subseteq Nat /\ Newest \in Nat \ {0}
  /\ HeadOf \in [Versions -> 1..HeadRevision]
  /\ \A v \in 2..Newest : HeadOf[v - 1] <= HeadOf[v]
  /\ Bare \subseteq Versions
  /\ \A x \in OddRows : x = <<x[1], x[2]>>

VARIABLES
  main,     \* the version `main' of the production repository points to
  tree,     \* the version checked out in the application's directory
  image,    \* the version the image was built from
  api,      \* the version the API's container runs
  worker,   \* the version the worker's container runs
  hook,     \* the hook of each push
  migrate,  \* the version whose migration is under way, 0 when none is
  rev,      \* the revision the database is stamped with
  db        \* the database

code == <<main, tree, image, api, worker, hook>>
vars == <<main, tree, image, api, worker, hook, migrate, rev, db>>

Steps    == {"idle", "checkout", "build", "up", "health", "ended"}
Verdicts == {"none", "deployed", "rolled back", "failed"}

TypeOK ==
  /\ {main, tree, image, api, worker} \subseteq Versions
  /\ hook \in [Pushes -> [at : Steps, old : Versions, new : Versions, back : BOOLEAN,
                          alone : BOOLEAN, verdict : Verdicts]]
  /\ migrate \in 0..Newest
  /\ rev \in 0..HeadRevision

Idle == [at |-> "idle", old |-> 1, new |-> 1, back |-> FALSE, alone |-> TRUE, verdict |-> "none"]

Init ==
  /\ main = 1 /\ tree = 1 /\ image = 1 /\ api = 1 /\ worker = 1
  /\ hook = [p \in Pushes |-> Idle]
  /\ migrate = 0
  /\ rev = HeadOf[1]
  /\ db = SchemaAt(HeadOf[1])

Active(p) == hook[p].at \notin {"idle", "ended"}

Go(p, step) == hook' = [hook EXCEPT ![p].at = step]

End(p, verdict) == hook' = [hook EXCEPT ![p].at = "ended", ![p].verdict = verdict]

----------------------------------------------------------------------------
(* The hook.  git moves `main' first and runs one hook for each push; two   *)
(* of them may run side by side.                                           *)

Receive(p, v) ==
  LET others == {q \in Pushes : Active(q)}
  IN /\ hook[p].at = "idle"
     /\ \A q \in 1..(p - 1) : hook[q].at # "idle"
     /\ v > main
     /\ main' = v
     /\ hook' = [q \in Pushes |->
                   IF q = p THEN [Idle EXCEPT !.at = "checkout", !.old = main, !.new = v,
                                              !.alone = others = {}]
                   ELSE IF q \in others THEN [hook[q] EXCEPT !.alone = FALSE]
                   ELSE hook[q]]
     /\ UNCHANGED <<tree, image, api, worker, migrate, rev, db>>

\* Mutant of Checkout: going back, the hook deploys the directory as it finds it.
CheckoutOnce(p) ==
  LET v == IF hook[p].back THEN tree ELSE hook[p].new
  IN /\ hook[p].at = "checkout"
     /\ tree' = v
     /\ IF ~hook[p].back /\ v \in Bare
          THEN hook' = [hook EXCEPT ![p].back = TRUE]
          ELSE Go(p, "build")
     /\ UNCHANGED <<main, image, api, worker, migrate, rev, db>>

\* Without the overlay in the new revision the hook turns back at once.
Checkout(p) ==
  LET v == IF hook[p].back THEN hook[p].old ELSE hook[p].new
  IN /\ hook[p].at = "checkout"
     /\ tree' = v
     /\ IF ~hook[p].back /\ v \in Bare
          THEN hook' = [hook EXCEPT ![p].back = TRUE]
          ELSE Go(p, "build")
     /\ UNCHANGED <<main, image, api, worker, migrate, rev, db>>

Build(p) ==
  /\ hook[p].at = "build"
  /\ image' = tree
  /\ Go(p, "up")
  /\ UNCHANGED <<main, tree, api, worker, migrate, rev, db>>

\* The script exits on the first command that fails, wherever that is.
Stops(p) ==
  /\ hook[p].at \in {"checkout", "build"}
  /\ End(p, "failed")
  /\ UNCHANGED <<main, tree, image, api, worker, migrate, rev, db>>

Up(p) ==
  /\ hook[p].at = "up"
  /\ api' = image /\ worker' = image
  /\ migrate' = image
  /\ Go(p, "health")
  /\ UNCHANGED <<main, tree, image, rev, db>>

\* Some of the containers were replaced before the command failed.
UpFails(p) ==
  /\ hook[p].at = "up"
  /\ api' \in {api, image} /\ worker' \in {worker, image}
  /\ migrate' \in {migrate, image}
  /\ End(p, "failed")
  /\ UNCHANGED <<main, tree, image, rev, db>>

Healthy(p) ==
  /\ hook[p].at = "health"
  /\ End(p, IF hook[p].back THEN "rolled back" ELSE "deployed")
  /\ UNCHANGED <<main, tree, image, api, worker, migrate, rev, db>>

\* Thirty requests went unanswered: the API does not start, or too slowly.
Unhealthy(p) ==
  /\ hook[p].at = "health"
  /\ IF hook[p].back
       THEN End(p, "rolled back")
       ELSE hook' = [hook EXCEPT ![p].back = TRUE, ![p].at = "checkout"]
  /\ UNCHANGED <<main, tree, image, api, worker, migrate, rev, db>>

HookStep(p) ==
  \/ Checkout(p) \/ Build(p) \/ Stops(p) \/ Up(p) \/ UpFails(p) \/ Healthy(p) \/ Unhealthy(p)

----------------------------------------------------------------------------
(* The database.                                                           *)

Outcome(v) == Upgrade(db, rev, HeadOf[v])

Known(v) == rev <= HeadOf[v]

\* `alembic upgrade head': everything, or nothing.
Migrate ==
  /\ migrate # 0
  /\ Known(migrate)
  /\ \E o \in {Outcome(migrate)} : o.rev = HeadOf[migrate] /\ db' = o.db
  /\ rev' = HeadOf[migrate]
  /\ migrate' = 0
  /\ UNCHANGED code

\* Mutant of MigrationFails: the revisions before the refused one stay.
MigrationFailsHalfway ==
  /\ migrate # 0
  /\ db' = IF Known(migrate) THEN Outcome(migrate).db ELSE db
  /\ migrate' = 0
  /\ UNCHANGED <<main, tree, image, api, worker, hook, rev>>

\* The database is stamped with a revision the code does not know, a revision is
\* refused, or the container dies before it commits; it is not restarted.
MigrationFails ==
  /\ migrate # 0
  /\ migrate' = 0
  /\ UNCHANGED <<main, tree, image, api, worker, hook, rev, db>>

\* `alembic upgrade +1' and `downgrade -1' by an operator.  A bound: only while every
\* push so far was deployed.
ByHand(r, ops) ==
  /\ migrate = 0
  /\ \A p \in Pushes : hook[p].at = "idle" \/ hook[p].verdict = "deployed"
  /\ \E o \in {RunOps(db, ops)} : o.done = Len(ops) /\ db' = o.db
  /\ rev' = r
  /\ UNCHANGED <<code, migrate>>

UpByHand   == rev < HeadOf[tree] /\ ByHand(rev + 1, History[rev + 1].up)
DownByHand == rev > 0 /\ rev <= HeadOf[tree] /\ ByHand(rev - 1, History[rev].down)

\* What the worker's code takes the schema to be.
Believed == SchemaAt(HeadOf[worker])

\* A row against a rule that neither the models of the worker nor the database impose.
WriteOdd(x) ==
  /\ Cardinality(db.odd \union db.orphans) < OddLimit
  /\ x[1] \in db.tables \intersect Believed.tables
  /\ x \notin db.rules \union Believed.rules \union db.odd
  /\ db' = [db EXCEPT !.odd = @ \union {x}]
  /\ UNCHANGED <<code, migrate, rev>>

WriteStray(x) ==
  /\ Cardinality(db.odd \union db.orphans) < OddLimit
  /\ {x[1], x[2]} \subseteq db.tables \intersect Believed.tables
  /\ x \notin db.refs \union Believed.refs \union db.orphans
  /\ db' = [db EXCEPT !.orphans = @ \union {x}]
  /\ UNCHANGED <<code, migrate, rev>>

WriteName(x) ==
  /\ x \in (db.columns \intersect Believed.columns) \ db.values
  /\ db' = [db EXCEPT !.values = @ \union {x}]
  /\ UNCHANGED <<code, migrate, rev>>

Write == \/ \E x \in OddRows : WriteOdd(x)
         \/ \E x \in StrayRows : WriteStray(x)
         \/ \E x \in Named : WriteName(x)

Next ==
  \/ \E p \in Pushes : HookStep(p) \/ \E v \in Versions : Receive(p, v)
  \/ Migrate \/ MigrationFails \/ UpByHand \/ DownByHand
  \/ Write

Spec == Init /\ [][Next]_vars

----------------------------------------------------------------------------
(* What the rows of a database say.                                        *)

\* What a column says that changed its name, under any of its names.
Renamed == {"channel", "channel_name", "priority", "priority_name", "quantity_cancelled",
            "quantity_canceled"}

Meaning(c) == CASE c \in {"channel", "channel_name"}   -> "channel"
                [] c \in {"priority", "priority_name"} -> "priority"
                [] c \in {"quantity_cancelled", "quantity_canceled"} -> "quantity"

Says(x) == <<x[1][2], x[1][3], Meaning(x[2])>>

Said(d) == {Says(x) : x \in {y \in d.values : y[2] \in Renamed}}

\* There is a table for what the columns of the document part say.
HasTable(tables, s) == \E t \in tables : t[2] = s[1] /\ t[3] = s[2]

\* Rules for which a revision completes the rows that break them.
Completed == {<<Order("acenda"), "fields">>, <<Main("public", "data_lake_files"), "counts">>}

(* The revisions fit one another: when no row is in the way each leads to  *)
(* the next and, unless it has no way back, to the one before, and the     *)
(* last of them to what the models declare.  One by one, what a renamed    *)
(* column says goes along, and no table that is there afterwards loses its *)
(* rows.  No variable and no constant is in this: it says of the scripts   *)
(* alone what the proofs about their use need.                             *)
ByRows   == {"require", "refer", "create type"}
UpOps    == {"create schema", "create", "drop", "move", "add column", "drop column",
             "copy column", "relax", "fill", "unrefer", "require", "create type"}
DownOps  == {"drop schema", "create", "drop", "move", "add column", "drop column",
             "copy column", "relax", "fill", "require", "refer"}

Leads(from, ops, to, Kinds) ==
  /\ Len(ops) \in Nat
  /\ \A i \in 1..Len(ops) : ops[i].do \in Kinds
  /\ \E o \in {RunOps(SchemaAt(from), ops)} :
       o.done = Len(ops) /\ Like(o.db, SchemaAt(to))

\* The one value of a database without other rows is carried along.
Carries(from, ops, X) ==
  \A x \in X : \E o \in {RunOps([SchemaAt(from) EXCEPT !.values = {x}], ops)} :
    o.done = Len(ops) /\ Says(x) \in Said(o.db)

RenamedAt(r) == {x \in SchemaAt(r).columns : x[2] \in Renamed}

\* The rows of the tables T stay, and break the rules that they broke.
Spares(ops, T) ==
  \A i \in 1..Len(ops) :
    /\ ops[i].do = "drop" => ToSet(ops[i].tables) \intersect T = {}
    /\ ops[i].do = "move" => ops[i].tables \intersect T = {}
    /\ ops[i].do = "fill" => ops[i].rule \in Completed

\* The tables that a revision or a later one has.
TablesFrom(r) == UNION {SchemaAt(q).tables : q \in r..HeadRevision}

UpFits(r, ops) ==
  /\ Leads(r - 1, ops, r, UpOps)
  /\ Carries(r - 1, ops, RenamedAt(r - 1))
  /\ Spares(ops, TablesFrom(r))

DownFits(r, ops) ==
  /\ Leads(r, ops, r - 1, DownOps)
  /\ Carries(r, ops, {x \in RenamedAt(r) : HasTable(SchemaAt(r - 1).tables, Says(x))})
  /\ Spares(ops, SchemaAt(r - 1).tables)

RevisionsFit ==
  /\ \A r \in 0..HeadRevision : IsDatabase(SchemaAt(r))
  /\ \A r \in 1..HeadRevision :
       /\ UpFits(r, History[r].up)
       /\ History[r].down = <<Refuse>> \/ DownFits(r, History[r].down)
  /\ \A f \in DOMAIN Metadata : SchemaAt(HeadRevision)[f] = Metadata[f]

(* The revisions the repository starts from fit one another, forwards and  *)
(* back, and lead to what the models declare.  RevisionsFit is the same    *)
(* value in every state: the antecedent has TLC compute it once.           *)
FitAtStart == Init => RevisionsFit

(* Whatever upgrades, downgrades and failed migrations came before, the    *)
(* database has the tables, references, columns and rules of the revision  *)
(* it is stamped with; two schemas and an enumeration type may stay behind.*)
SchemaIsRevision == IsDatabase(db) /\ Like(db, SchemaAt(rev))

(* The types, and the schema of the revision.                              *)
Inv == TypeOK /\ SchemaIsRevision

(* A revision can be refused only for a row that breaks the rule it puts   *)
(* back, for the enumeration type an earlier downgrade left, or because it *)
(* has no downgrade: never for a table, a column or a schema that is       *)
(* missing or in the way.                                                  *)
StuckOnlyByRows ==
  LET Stuck(ops) == LET n == RunOps(db, ops).done
                    IN IF n = Len(ops) THEN {} ELSE {ops[n + 1].do}
  IN /\ rev < HeadRevision => Stuck(History[rev + 1].up) \subseteq {"require", "create type"}
     /\ rev > 0 => Stuck(History[rev].down) \subseteq {"require", "refer", "refuse"}

(* No migration loses what the rows say.  Columns change their names,     *)
(* forwards and backwards, and their values go along as long as the table  *)
(* is there; a row that breaks a rule stops the downgrade (open orders     *)
(* without a batch) and is completed only where the revision says so       *)
(* (headers without fields).                                               *)
RowsKept ==
  [][ /\ \A s \in Said(db) : HasTable(db'.tables, s) => s \in Said(db')
      /\ \A x \in db.odd : x[1] \in db'.tables => x \in db'.odd \/ x \in Completed ]_vars

(* At the head revision the database is what the ORM models declare.       *)
ModelsMatchHead ==
  rev = HeadRevision => \A f \in DOMAIN Metadata : db[f] = Metadata[f]

(* The hook of the newest push, when no other hook ran meanwhile, leaves   *)
(* what it reports: the new version in the directory, the image and both   *)
(* containers, or everywhere the version it found.                         *)
ReportIsTrue ==
  \A p \in Pushes :
    LET h == hook[p]
        All4 == {tree, image, api, worker}
    IN (h.at = "ended" /\ h.alone /\ h.new = main) =>
         /\ h.verdict = "deployed"    => All4 = {h.new}
         /\ h.verdict = "rolled back" => All4 = {h.old}

(* docs/deployment.md says the hook "rolls back on failure": a push that   *)
(* failed leaves the version it found.                                     *)
FailureRollsBack ==
  \A p \in Pushes :
    (hook[p].at = "ended" /\ hook[p].alone /\ hook[p].new = main /\ hook[p].verdict = "failed")
      => {tree, api, worker} = {hook[p].old}
=============================================================================
