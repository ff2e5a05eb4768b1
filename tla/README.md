# Verification project for bokser_app

bokser_app is a worker and an API around a PostgreSQL database and a file
"data lake": it downloads data from shops, warehouses and the SOS Inventory
ERP, loads it into tables, and posts orders and shipments back. What can go
wrong is mostly what happens between two systems: a request whose answer is
lost, a process that dies between two commits, two processes on the same row,
a file that is loaded twice or out of order, a migration that stops halfway.
These modules model that, TLC checks them on small instances and TLAPS proves
the most important properties for every size.

Source paths below are relative to the repository.

## Inventory

| Part | State it keeps | Operations | Interacts with | Hard behaviour | Correct when |
|---|---|---|---|---|---|
| Shipment queue and poster: `sos_shipment_sync.py`, `shipment_sync_queue.py` | table `sos.shipment_sync`; per run: candidates, claimed row, `post_started`, `shipment_id` | upsert by importers, direct load, select, claim, build, post, `_finish_attempt` | importers (same rows), SOS (POST), HTTP client | overlapping runs, crash between commits, lost and late answers, a source that changes during an attempt | at most one SOS shipment per row; none hidden behind `pending`/`failed`; what is held stays held |
| Shipment importers: `process_shipment_data.py`, `process_sutton_reporting.py`, `model_tools.py` | shipment tables | merge a record, hash it, upsert the queue row | lake files, queue | two commits (Sutton); hash taken after the merge | a changed payload is noticed, an unchanged one is not |
| HTTP client: `base_client.py`, `client_auth.py` | one request's attempt counter, rate limiter slot | send, retry, recover from 401 | token store, all external APIs | retry of a request that took effect, no deadline | bounded sends per call |
| Token store: `token_cache.py` | in-memory cache per process, table of tokens | get, force_refresh, set, clear | HTTP client, other containers, OAuth providers | two locks, refresh tokens that can be used once, crash between refresh and commit | no refresh token is spent twice; a caller gets a token that was current |
| Data-lake loaders: `data_lake_tools.py`, `process_sos_data.py`, `process_acenda_data.py`, `process_shipment_data.py` | table `data_lake_files`; domain tables | claim, load, complete, reclaim after 30 minutes | ingestion jobs, domain tables | slow loader loses its claim, old file retried after a newer one, starvation | every landed file is loaded, newest data wins |
| Ingestion jobs: `base_get.py`, `get_*_data.py`, `state_store.py` | cursors in memory and in JSON files | fetch pages, write the file, insert the manifest row, advance the cursor | external APIs, lake | three writes without a transaction, swallowed page errors, pages that move, a total that may be of one page, two clocks | the cursor passes no record that is not in the lake, but for known reasons |
| KSP gateway connector: `integrations/ksp_gateway/`, `push_data/odoo/ksp_gateway.py` | SQLite journal (`binding`, `package_event`) | stage, claim, start_post, submit, reconcile, acknowledge, poll, apply | Odoo, KSP gateway | crash around the POST, 429 releases the binding, overlapping ticks, a release that changes | one order per delivery, of what Odoo released; a package is applied once |
| Terminal49 connector: `terminal49_client/` | initiations of containers and shipments, mappings; inbox, snapshots, feed | initiate, submit, follow, link; accept webhook, process inbox, publish | Terminal49, Odoo | worker lock on another connection, two kinds of operation for one reference | a reference is submitted once; a container has one journey |
| Acenda to SOS order push: `push_to_sos.py`, `sos_payload_mapper.py` | `sos.sales_order_sync` per order line | load, map, upsert, post, record | SOS, HTTP client | concurrent posts, retries below, renumbering of duplicates, crash after the rows | an order is posted once and recorded as a whole |
| Database models and migrations: `database/models`, `database/alembic` | the schema and its stamp | upgrade, downgrade | every other part | a revision that is refused, an incomplete downgrade, models that drift, values lost on a rename | the database is its revision; the models are the head |
| Deployment: `nas-hooks/post-receive.production`, `docker/docker-compose.yml` | checkout, image, containers, `main` | check out, build, start, probe, go back | migrations, API, worker | failure between steps, code that is older than the database | the hook reports what runs |
| Worker runtime: `worker/main.py` | scheduler | start jobs (`max_instances=1`, coalesced), stop | all jobs | a job that never ends blocks its successors | - |
| Lake writer, Gmail and Sutton downloads, HTTP API | - | - | - | - | see Not modelled |

`PROJECT.json` lists the same parts with their status, and under `hazards` every
line of this code where something hard to test can go wrong, with the properties
that are about it.

## Plan

Done: `ShipmentQueue`, `TokenStore`, `DataLake`, `IngestionCursor`, `KspGateway`,
`TrackingRequests` and `OrderPush`, `SchemaHistory`, `OrmModels` and `Deployment`, all
with proofs. Every safety and action property of a passing run is a theorem, and so
are the refinements of `AtMostOncePost`; liveness is for TLC.

Next, in this order:

1. Proofs of what is left to say about the modules that have them: how many times an
   order can be at SOS for each answer that was lost (`OrderPush`), and that the
   lock and the database keep refreshes of one provider apart (`TokenStore`).
2. The Terminal49 inbox and feed, and the Gmail and Sutton downloads.

How the modules fit together:

- `AtMostOncePost` is what three connectors promise; `ShipmentQueue`,
  `KspGateway` and `TrackingRequests` each refine it.
- `IngestionCursor` ends where a file has its row; `DataLake` starts there.
- `Deployment` extends `OrmModels`, which extends `SchemaHistory`.
- `ShipmentQueue`, `TokenStore` and `OrderPush` each contain the part of the HTTP
  client they use.

## Modules

### AtMostOncePost (abstract)

A job has an `intent` (the committed local status) and a set of `effects` at the
outside system. `Start` commits the intent, `Create` happens outside at any time
while a job is `posting` or `held`, `Complete` needs an effect, `Fail` needs
that there is none, and there is no way out of `held`.

### ShipmentQueue

| Variable | In the code |
|---|---|
| `source[k]` | the rows of the shipment tables for one (source, source_id) |
| `report[k]`, `unqueued[k]` | Sutton: between `_commit_to_db` and `post_sales_report_to_sos_ship_sync`; `unqueued` is history |
| `row[k]` | the `SosShipmentSync` row; `ripe` is the 15-minute condition |
| `wire`, `shipments` | requests under way to SOS; the shipments it has created |
| `pc[w]`, `candidates`, `claimed`, `template`, `post_started`, `shipment_id` | the locals of one run of `process_shipment_sync` and the await it is at |
| `recovered` | `recovered_after_unauthorized` of `_request` |
| `interrupted` | history: keys whose run stopped or could not save |

One action per database transaction or await: between two of them any other run,
importer or SOS may act. `Claim` is the conditional `UPDATE` with its commit,
`FinishRow` the `SELECT ... FOR UPDATE` of `_finish_attempt` with its commit.
`CompleteFails` covers a failed commit, a lost acknowledgement and the source
that changed meanwhile. `Crash` is possible wherever a run is. SOS handles a
request when it likes (`Answer*` for a caller that still waits, `CreateUnheard`
otherwise).

Abstracted: a shipment is a header and lines, sha256 is injective, the field
mapping of the template is the identity on that data, and `BuildFails` stands
for every reason why a template cannot be built. KSP shipments with the same
`cust_ref` and different PO numbers share one key.

### TokenStore

| Variable | In the code |
|---|---|
| `row` | the `AuthToken` row of one provider |
| `cache[c]`, `refreshLock[c]` | `_tokens` and the provider's `asyncio.Lock` in container `c` (worker, API, direct runner) |
| `dbLock` | the session that has `pg_advisory_xact_lock` |
| `pc[t]`, `phase[t]` | the await a task is at, and its caller: `get_headers`, `handle_unauthorized`, `get_headers` again |
| `token[t]`, `found[t]`, `presented[t]` | the access token in hand (`expected_access_token`), the record read or about to be saved, the refresh token sent |
| `issued`, `spent`, `revoked`, `age` | the provider: grants made, refresh tokens replaced, access tokens refused, the clock against `expires_at` |
| `stray` | refresh requests whose sender no longer listens |
| `again`, `lost`, `saved` | history |

Token *n* is the provider's *n*-th grant, so that "newer" is `>`. One action per
await: `Load`/`Loaded` is the read without a lock in `get` and the assignment to
the cache when it resumes; `TakeRefreshLock`, `LoadLocked`, `LoadedLocked`,
`TakeDbLock`, `AdoptRow`, `Ask*`, `Save` and `CacheSaved` are `force_refresh` and
the refresh under both locks, in the order of the code. `NoAnswer` covers
timeouts, broken connections and answers that cannot be used; `Fails` a failing
statement or commit and a cancelled caller; `SaveUnheard` a commit whose
acknowledgement is lost; `LoseSession` a session that breaks while the task waits
for the provider, so that the database frees the lock under it; `Crash` a
container that stops.

Abstracted: providers do not interact, so there is one; the warm-up on startup is
a request; `set`, `clear` and `clear_memory` have no caller in the code. Authorization code and client credentials are not
single-use in the model. A provider refuses a spent refresh token and may
replace, or keep, the one it honours.

### DataLake

| Variable | In the code |
|---|---|
| `landed`, `lake[f]`, `newest` | the files of one entity, in the order of their `data_lake_files.id`; what they hold |
| `row[f]` | the `DataLakeFile` row: `status`, `last_error`; `stale` is the comparison of `claimed_at` with thirty minutes ago |
| `table[r]` | the committed version of a record in its domain table |
| `pc[l]`, `batch[l]`, `file[l]` | one run of a `load_*_lake_files`: the await it is at, the claimed files still to come, the file it loads |
| `todo[l]`, `current[l]`, `failed[l]`, `skipped[l]` | the loop of `load_sos_records`, `load_acenda_records` or `load_shipment_records` |
| `written[l]` | the writes of the run's transaction |
| `trouble`, `disturbed` | failures so far; history |

`Kind` chooses the loader. `Claim` is `claim_lake_files` with its commit; the SOS
loader has its own, which leaves `PARTIAL` out (`Retryable`). `Open` reads the
file and checks its metadata, `Check` and `Merge` are the read and the write of
one record, with other loaders between them, `MapFails` and `RecordFails` its
`except`. `Complete` writes the outcome in the same transaction as the records;
`CompleteUnheard` is that commit when its acknowledgement is lost, `FileFails`
any other exception, `MarkFailed` the handler, and `Crash` the end of the
process or of the job. Row locks are those of the records written (`Locked`).
The database ends a deadlock of two loaders by failing one statement, which is
one of the causes of `RecordFails`.

Abstracted: a record is a key and a version, `sync_token` or `updated_at`;
warehouse records, which have none, are numbered in the order in which their
webhooks arrive. Whether a file can be read and its records mapped depends on the
file alone (`corrupt`, `bad`) and is the same at every attempt; every other
failure is counted by `trouble`. A failing read of the existing version is taken
together with a failing write. No code reads `attempt_count`, and it is left out.

### IngestionCursor

| Variable | In the code |
|---|---|
| `query[e]` | how the endpoint is asked (`get_sos_endpoint_params`, `get_acenda_endpoint_params`): `updatedsince`, `createdsince` or `from` of SOS, `$gt` of Acenda |
| `version`, `changes`, `hidden`, `now` | the records at the source, those that no query returns (`archived=no`, or deleted), and its clock |
| `stamp[r]` | the time of a record that the query of its endpoint compares: of its last change, of its creation, or the date that a payment is given |
| `clock` | the worker's own, at its last reading |
| `memory[e]`, `disk[e]` | `StateStore._state` and the JSON file it is saved to |
| `lake` | records in files that have a `data_lake_files` row |
| `run_started_at`, `pc[e]`, `since[e]`, `left[e]`, `records[e]` | a run of `sync_endpoints_job`: where it is with each endpoint, its watermark, the pages to come, what it has |
| `exposed` | history: records whose present state a run may pass unseen |

`FirstPage`, `NextPage` and `PageFails` are the fetches; pages are offsets into
the records that match when a page is read, so a record that begins or ceases to
match in between moves the later ones. How many pages there are is taken from what
the first one tells (`Totals`): SOS counts all records that match, and puts
`maxresults` on a page; Acenda may count the first page alone, as `backfill.py:47-48`
says, and chooses the size of its pages itself (`Size`), since only SOS is told one.
A run has the worker's time (`Readings`), which may be off by `MaxSkew` either way.
`Handle` writes the file, `InsertRow` commits its row,
`Advance` changes the cursor in memory and `Save` on disk. `RunFails` is any
exception out of those, which ends the run for all endpoints; `Crash` the end of
the process. What differs between the two sources is in `Passes` (SOS includes its
watermark, Acenda asks with `$gt`) and in `Cursor` (SOS takes the start of the
run, Acenda the latest `updated_at` it saw).

`exposed` lists the reasons for which a record may be passed, each at the action
that makes it happen, and `NothingPassed` says there is no other:

- a page failed and was skipped (`PageFails`; `IC_Skipped.cfg`);
- a page was not asked for, since the source told of fewer than there are, or since
  its pages are shorter than the code takes them to be (`Unasked`; `IC_OnePage.cfg`);
- a record moved off the pages to come, when another began or ceased to match;
- with SOS, the time that its query compares is before the cursor, or before where the
  run is going to put it: a payment has an earlier date (`IC_Payments.cfg`), the
  worker's clock is ahead (`IC_Clock.cfg`), a record is shown again as it was, or
  `createdsince` does not look at changes;
- with Acenda, the record changed while later ones were fetched, or at the instant that
  the cursor, or something fetched, stands at;
- the source hides it: it is archived or deleted;
- a first run looks one day back (`TooOld`).

None of them can be left out: without any one of them in `exposed`, TLC finds
`NothingPassed` violated.

Assumed of the outside: either clock only goes forward; a query shows a change as soon
as its time has come, and pages are sorted by id; SOS keeps to `maxresults` and counts
all that matches. Abstracted: a record is an id and a version; time is the source's
resolution, and the worker's reading is rounded to it.

### KspGateway

| Variable | In the code |
|---|---|
| `binding[d]`, `staged[d]`, `applied[d]` | the journal: the `binding` row of an order code, its `package_event` rows and those with `applied = 1` |
| `odoo[d]`, `ledger[d]` | Odoo's picking (dispatch state, contents, claim token) and the package events it has applied |
| `orders`, `packed[d]`, `stray[d]` | KSP: its orders, the packages it reports, requests without a waiting sender |
| `pc[r]`, `phase[r]`, `after_id[r]`, `queue[r]` | one process' `run_once`: discovery cursor, deliveries to submit, codes to poll |
| `row[r]`, `token[r]`, `answer[r]`, `reports[r]` | the locals of `submit_delivery`, `submit_allocation`, `reconcile` and `poll_shipments` |

One action per journal transaction and per request, in the order of the code:
`Lookup`, `Stage`, `Claim` (and what follows a claim that is refused), `StartPost`,
`SendPost`, the answers, `Accept`, `Reconcile`, `Track`, `Record`, `Acknowledge`,
`MarkAcknowledged`, and for packages `FetchPackages`, `StagePackages`, `Apply`,
`MarkApplied`. The `*Unheard` actions are requests whose answer is lost;
`OtherError` is any other exception, which `run_once` catches; `Crash` the end of
the process. Odoo may release a delivery anew (`Rerelease`) or take a claim back
(`Requeue`), KSP may close an order, or change and withdraw packages.

Abstracted: a payload is a content, the fingerprint is injective; a delivery has
one allocation; `NoToken` is an unset claim. The rate limiter is timing only.

### TrackingRequests

| Variable | In the code |
|---|---|
| `rows[o]` | rows of `initiations` and `shipment_initiations` |
| `mappings` | container journeys bound to Odoo containers |
| `lock` | the session that has the advisory lock |
| `requests`, `tracking[s]`, `refused`, `posts` | Terminal49: tracking requests, what it knows of a shipment, references it cannot track, requests on their way |
| `pc[w]`, `op[w]`, `was[w]`, `found[w]`, `state[w]`, `target[w]` | the worker's run: the operation it has taken, the status it read, the request and the shipment it found |
| `sent[o]`, `marked` | history |

`NextOp` takes an operation that is due, `LegacyRequest`, `ListContainers`, `Search`
and `ListShipments` look for tracking that exists, `Submit` commits `SUBMITTING`
before `Post` sends, `Answered`, `GetRequest`, `ResolveRequest` and `Discover` follow the
request, `LinkContainer` and `Close` link what it found. `Review` is
`ReviewRequired`, `Defer` any other exception. Container and shipment operations
share these actions, which differ where the two files do.

Abstracted: carriers, `next_check_at` (a row may be due at any time) and the
inbox; a shipment operation that is `LINKED` or has its shipment is looked at
again for ever, and its failures are forgotten at every look, which is why
liveness is stated of container operations.

### OrderPush

| Variable | In the code |
|---|---|
| `listed`, `known`, `bad` | Acenda order items, SOS items, and orders whose sales channel nobody knows |
| `sync[l]` | the `SosSalesOrderSync` row of a line |
| `sos`, `stray` | sales orders at SOS; requests whose sender no longer waits |
| `pc`, `open` | where `send_to_sos` is; the lines it has loaded |
| `task[o]` | one `_post_to_sos_and_log`: the number it tries, duplicates so far, the client's attempt, the answer |

`LoadOpen`, `MapOrders` and `UpsertRows` are the sequential part, with the rows
committed before anything is posted. `Send`, `Handle`, `Recorded`, `Renumbered` and
`Failed` are one task of the `gather`; `ConnectionLost` and `ServerError` the retry
loop of the client below it. An exception of one task ends the run, and what the others
have sent may still arrive (`Abandon`, `Late`).

Abstracted: a sales order is its number and its lines; a number is the order with
a count of suffixes, or the clock's minute, which all orders share.

### SchemaHistory, OrmModels and Deployment

`SchemaHistory` has an operator per revision, its `up` and `down` sequences of
operations (`Create`, `Drop`, `Move`, `AddColumn`, `CopyColumn`, `Require`, ...), and
`Possible` and `Done`, which say when PostgreSQL carries an operation out and what it
does. `OrmModels` has an operator per group of ORM classes, written from the classes
and not from the revisions. A table is a schema, a document and a part;
references between tables are kept, and of columns and `NOT NULL` rules
those some revision changes. Column lists, defaults, indexes and keys are left out.
`RunOps` takes the operations of a revision one after the other up to the first that is
refused, `Upgrade` the revisions, both as recursive functions.

| Variable of `Deployment` | In the code |
|---|---|
| `main` | the branch in the production repository |
| `tree`, `image`, `api`, `worker` | the version in `APP_DIR`, in the image and in the two containers |
| `hook[p]` | the hook of the p-th push: where it is, `OLDREV`, `NEWREV`, whether it goes back, what it reported |
| `migrate` | the version the migration container runs, 0 when it does not |
| `rev`, `db` | `alembic_version`; the database |

Steps of the hook are its commands; the script has `set -euo pipefail`, so any of
them may be the last (`Stops`, `UpFails`). `Migrate` is one step because alembic runs an
upgrade in one transaction and a row is written before or after a table is
locked. The worker writes rows meanwhile which no model forbids
(`WriteOdd`, `WriteStray`, `WriteName`).

## Runs

| Run | Instance | Shows |
|---|---|---|
| `sq_main` | 1 KSP and 1 Productiv row, 2 runs, 1 line, 1 value | the inductive invariant, the safety properties and the refinement of `AtMostOncePost` |
| `sq_sutton` | 1 Sutton row, 2 runs, 2 values | a sent row agrees with the tables once every report is queued; a run ends unless it waits for SOS for ever |
| `ts_containers` | 2 containers with 1 task each, 2 grants | all safety properties of the token store, and its inductive invariant |
| `ts_live` | a container with 2 tasks and one with 1, 1 grant | every refresh ends |
| `dl_acenda` | 1 loader, 2 records, 2 files, 2 versions, 2 failures | a file that is done has its records in the table; the table never goes back; the inductive invariant |
| `dl_files` | the worker's warehouse loader and one started by hand, 3 files of which 1 always fails, batches of 2 | a file is held by one run, unless it is slow or a commit was not acknowledged; every file that can be loaded is |
| `ic_cursor` | 2 endpoints, 2 records on pages of 1, one of them hidden at times, 3 instants, clocks that differ by 1 at most, 3 changes, 1 failure; `updatedsince`, `from` and `$gt` | nothing is passed but for the reasons above (part of the inductive invariant); the state file only goes forward; changes land |
| `kg_main` | 1 delivery, 2 ticks, 2 contents, 1 package, 1 failure | the inductive invariant and the refinement of `AtMostOncePost`; the order is of the release that was claimed; a package is applied once; the delivery settles |
| `tr_main` | 2 container operations and 1 shipment operation, of which 2 are asked for, 1 worker, 1 crash or broken connection | the inductive invariant and the refinement; a reference is submitted once; what is settled stays so; container operations settle |
| `op_main` | 2 orders with 2 and 1 lines, 2 attempts, 2 duplicate numbers, 2 failures, 1 crash | rows before posts, orders recorded as a whole, no duplicate without a lost answer, every run ends |
| `op_bad` | the same without failures | violation: see Findings |
| `dp_main` | 2 pushes, versions at revisions 13, 20 and 25, one without the overlay, 1 odd row or reference, 1 value | the database is its revision; only rows stop a migration; the revisions fit one another and the models (`FitAtStart`); rows and renamed values survive; the hook's report is true |

Two configs belong to theorems and pass as well: `DL_Warehouse.cfg` (1 warehouse
loader, 2 records, 3 files of which 1 may always fail, 2 versions, 1 failure) checks
`InOrder` and `OlderOnlyAfterTrouble`: while nothing fails, files are loaded in the
order they landed and no record goes back. `TR_Lock.cfg` (2 workers, 1 crash, no
connection that breaks under its worker) checks `Exclusive`, which the proofs about
the connector assume. `DoneStays`, `LinkedIsExclusive` and `SentIsBacked` are proved;
the latter two are also conjuncts of the `IInv` that `tr_main` and `op_main` check.
`ModelsMatchHead` of `Deployment` follows from what `dp_main` checks (`ModelsAtHead`).

### Bounds

`ShipmentQueue` has no counters to cap, because a row leaves `pending` at most
once. Two runs are enough for every race on a row (a third would find the row
as the second left it); two rows let one run be busy with one while the other
takes the next; two values are the least for which a payload can change.
`sq_main` uses one value and yet sees changed payloads, since a hash with and
without lines differ. Runs are interchangeable, hence the symmetry.

`TokenStore` caps the grants (`MaxTokens`): with 2, a run that starts with token
1 in the table sees it rotated, and one that starts empty sees a first grant and a
rotation; a stale task then differs from a current one in every comparison the
code makes. Liveness needs one grant: what can block is a lock, not the number
of tokens. Two tasks of one container (`ts_live` has them, `ts_containers` does
not) are covered for safety by the proofs.

`DataLake` caps the files (`MaxFiles`), the versions (`MaxVersion`), the failures
(`MaxTrouble`) and the files that can never be loaded (`MaxFaulty`). Two files
and two versions give every order of an older and a newer state of a record, with
the second record for files that are loaded in part; the second failure strikes a
retry. `dl_files` has one record, since its properties are about whole files, and
one file more than a run claims, and so has `DL_Warehouse.cfg`, where the order of two
batches matters. The runs stop once all files are done and the
bounds are used up, which is why deadlock is not checked. `MaxFaulty` is below
`Limit` there: with as many failing files as a run claims, `EveryFileEnds` is
false, because the oldest files are taken first (a hazard in PROJECT.json). It is
false of the Acenda loader as well: a file with overtaken records stays `PARTIAL`
and is claimed for ever. The SOS loader is covered for safety by the proofs.

`IngestionCursor` caps time, changes and failures. Two pages are the least for
which one can move off another; three changes let both records exist and one
of them change again; three instants let a change fall before, at and after a
cursor, which payments dated 0 and 2 (`Dates`) also do. A skew of one instant puts the
worker's clock before, at and after the source's. One record is never hidden (`MayHide`):
it is the one that a page loses when the other goes. No endpoint of the
configuration uses `createdsince`, which is left to the proofs. The second endpoint has
no records and shows what a save or a failure of one endpoint does to the cursor of
another. The same holds with pages of two, and with Acenda's longer than SOS'. Time
ends, but runs go on for ever, and the absence of deadlock is checked.

`KspGateway`: deliveries meet only in the discovery cursor, so one is enough for the
order; two ticks race on it. One failure (`MaxTrouble`) at any point, and
a `Rerelease` beside it, which is not counted. Ticks go on for ever, and the
absence of deadlock is checked.

`TrackingRequests` asks for two of the three operations (`MaxAsked`), so that every pair of
kinds meets on one container and one bill; `ReviewAfter` is 1 instead of 7, which
leaves a failure that is tolerated and one that is not; two POSTs per operation,
one more than there should be. Any number of reads may fail. Two workers at once
are beyond one crash: the first has to lose its connection (`TR_Dropped.cfg`).
`TR_Lock.cfg` has two workers and leaves that out (`KeepsLock`).

`OrderPush`: two attempts instead of five and two duplicates instead of twenty
leave a first, a repeated and a last one of each. Two failures let one request be
lost and its repetition, too. A push stops when everything is pushed.

`Deployment`: two pushes give a deployment from the initial version, one over it, and
two side by side; the three versions lie before, between and at the revisions that
rename, require and create, and migrations by hand go one revision at a time
through all 25, as long as every push so far was deployed. One odd row at a time
is enough, since a revision is refused at the first. Count and rows are used up in
the end, hence no check of deadlock.

### Fairness

`ShipmentQueue`: only `Local(w)`, the steps a run takes without waiting for SOS, is
fair: the event loop drives them and the database answers. Nothing is assumed of
SOS, because no request has a deadline.

`TokenStore` (`ts_live`): every step of a task, which its event loop
drives, and the end of every request to the provider, which has a deadline there,
be it without an answer; strong fairness for the two locks, since `asyncio.Lock`
and PostgreSQL both serve whoever waits in the order of arrival.

`DataLake` (`dl_files`): each loader's own steps, which the scheduler
starts again at every interval, and the passing of thirty minutes. Failures are
bounded, so that a file does not meet a new one at every attempt.

`IngestionCursor`: the scheduler starts runs (`worker/main.py` registers them with an
interval), and each step of a run is taken or fails; failures and changes are
bounded. Neither clock needs to move, and the source owes no change.

`KspGateway`: ticks (an interval job), and KSP hands a received order to
the warehouse. `TrackingRequests`: the worker is restarted by Docker and goes on;
`next_check_at` makes rows due again (strong fairness for `NextOp`, since a worker is
only between operations at times); Terminal49 resolves a request and lists
containers some time. `OrderPush`: the process runs and SOS answers; a push is started
again, by hand, while there is something to push. `Deployment` claims no liveness.

## Proofs

`ShipmentQueueProofs` proves, for any `Keys`,
`Workers`, `Lines` and `Values`, from `ConstantsAssumption` alone:

- `Invariance`: `Spec => []IInv`. `AtMostOneShipment` is not inductive by
  itself: a second POST must be excluded before it is sent. `IInv` adds that an
  unposted or refused row has no *trace* at SOS (neither a shipment nor a request
  under way) and no run (`KeyInv`); that a run before its POST, or after a
  refusal, has left no trace, and that an id it holds is one of its row's
  shipments (`RunInv`); that no two runs hold one row (`ExclusiveClaims`); and
  that one request per key is under way at most, none once there is a shipment
  (`WireInv`). One lemma per kind of action; importers share `RowStep`, and steps
  that let go of a row share `ReleaseStep`.
- `TypeCorrect`, `AtMostOnce`, `NothingSilent`, `SentBacked` follow from it. The
  first three state parts of `IInv`, which is what `sq_main` checks.
- `ErrorsExplain` and `Stranded` need no more state, but a closer look at each step:
  `StepChange` lists the ways in which one step changes one row.
- `SuttonMatches` is about one Sutton row, whatever the other rows are: when it reads
  `sent` and every report is queued, SOS has what the tables describe. Importing a
  report twice is importing it once (`ImportTwice`), so `SuttonOK` can say that the
  tables absorb the report that waits to be queued and, when no other does, the one
  whose hash the row has; and that a row which was claimed has then no template,
  request or shipment but what the tables describe. `AllSuttonMatch` is
  `SentMatchesSource` of `sq_sutton`. The warehouses are left out because it is false
  of them: the hash of a repeated import loses the lines (`SQ_ChangeHidden.cfg`).
- `NoReopening` and `Refinement` follow from `StepMoves`: each step leaves the
  abstract state alone, has SOS create one shipment, or moves one row in one of
  the ways `RowMove` lists.

`TokenStoreProofs` proves, for any containers, tasks and number of grants, from
`ConstantsAssumption` alone:

- `Invariance`: `Spec => []IInv`. That a spent refresh token is not presented
  again says nothing about the task that is going to present one. `IInv` adds
  that the task with the advisory lock knows the row (`HolderInv`); that a task
  whose session broke can only present a token that counts as lost
  (`SeveredInv`); that nothing else is under way (`PresentedInv`); that the row's
  refresh token is unspent unless lost or about to be replaced (`UsableInv`);
  that every record read was saved (`RecordInv`); and that whoever wants another
  token holds one that is old or was refused (`WornInv`).
- `TypeCorrect`, `SpentOnce`, `Usable`, `NotNeedless` and `OnlySavedInUse` follow
  from it, and `Forward` (the row never goes back to an older grant) from it and
  one look at each step that writes the row.

`DataLakeProofs` has three parts, each for any number of records, files, versions and
failures. The first is about the table, under two assumptions that are part of its
theorems: `Guarded`, the loader is that of SOS or Acenda, and `OneLoader`, no two runs
of it overlap. The worker starts both with `max_instances=1`, nothing else starts
them, and each entity that is still fetched has a table of its own.

- `Invariance`: `Spec => []IInv`. That a completed file has its records in the
  table depends on what the transaction did before its commit. `IInv` adds that
  what a run has written is from its file and not older than the table, and that
  what it has dealt with without putting it down as failed is in its view of the
  table (`LoadInv`); that the record about to be merged is not older (`MergeInv`);
  that nothing is left of earlier files (`RunInv`); and that rows of files that
  have not landed are untouched (`LandedInv`).
- `Applied` follows from it, and `OnlyForward` from it and the fact that only a commit
  writes the table (`TableStep`).

The second part has neither assumption: any number of overlapping runs of any loader.

- `TypeCorrect`, with `InHand`, which a type alone does not give: where a run is tells
  what it has in hand.
- `OneHolder` and `DoneForGood`. No run checks its claim again, so that what keeps two
  of them apart must be in the row: `ClaimKept` adds that a file in hand still reads
  `PROCESSING` unless it was disturbed, and a claim takes no such file.

The third is about the warehouses' loader, for `OneLoader` and `Kind = "warehouse"`:

- `LoadedInOrder` and `OlderOnlyThen`. It compares no versions, and what it needs
  instead is the order of loading: `OrderOK` says that a run has the oldest pending
  files in hand, and `ArrivalOK` that the table has nothing newer than these. Both
  hold while nothing fails (`Calm`), and `DL_RetriedOld.cfg` shows what happens then.

`OrderPushProofs` proves, for any orders and lines and any limits, from
`ConstantsAssumption` alone, with any number of lines per order:

- `Invariance`: `Spec => []IInv`. A duplicate is created by a request that nobody waits
  for, so the invariant has to follow a line through the table, the tasks, SOS and the
  requests under way. `RowsOK` and `TaskOK` say what a row tells about its task and that
  a task's lines are one order's and share a row state; `PostOK` that a sales order, or a
  request, has all lines of a task or none; `Exact` that, while no answer was lost, a
  line is in one place at most: an order, a request without a sender, or a task.
- `CommittedFirst`, `Backed`, `AsAWhole` and `CrashSafe` follow from it.

`KspGatewayProofs` proves, for any number of overlapping runs, deliveries, contents and
packages, from `ConstantsAssumption` alone (order codes are numbers, and finitely many):

- `Invariance`: `Spec => []IInv`. Odoo, KSP and the journal are three stores without a
  common transaction. `DeliveryOK` relates them per delivery: a journal row that is or
  was posted has frozen what Odoo released (`Frozen`), KSP's order is its only one and
  holds that, and no order or request is behind a row that would be posted. `RunOK` says
  that what a run has read or checked still holds when it acts on it, although another
  run, a new release or a requeue may come in between; `PostingOK` and `OnePoster` that
  one run at most posts a delivery, which knows what KSP has done.
- `ReleaseMatched`, `StockMovedOnce`, `Journaled`, `OneOrder` and `NothingSilent` follow.
- `Refinement`: `Spec => PostSpec`, where `AtMostOncePost` may release a refused request.
  The abstract step of each action is read off the row it writes and the order it
  appends.

`IngestionCursorProofs` proves, for any endpoints and queries, records, page sizes,
clocks, dates and failures, from `ConstantsAssumption` alone:

- `Invariance`: `Spec => []IInv`. That nothing is passed says nothing of a run that is
  about to move a cursor. `RunOK` says for each step of a run that every known record
  was seen, is on a page to come, or (Acenda) is later than all that was fetched;
  `CursorsOK` that the file is never ahead of memory, nor an SOS cursor of the worker's
  clock, so that the next run does not take it back. The hard steps are the first page,
  whose rest is complete if the source tells all (`Paged`), and a change, after which a
  record that was to come still is, or was exposed by the move.
- `NoneMissed` and `FileForward` follow from it.

`TrackingRequestsProofs` proves, for any workers, operations, references, containers and
shipments, from `ConstantsAssumption`:

- `Linked`: `Spec => []LinkedIsExclusive`, however many workers are at it, from `Inv`.
- under `[]Exclusive`, one worker at a time, which is the advisory lock's purpose:
  `Invariance` (`Spec /\ []Exclusive => []IInv`), and from it `SubmittedForOne`,
  `SentOnce`, `Settled` and `Refinement`. `IInv` adds to `Inv` what a row tells of its
  operation (`RowOK`), that every request is the first and only one of its operation
  (`PostsOK`), and that what a worker has found out is still so when it acts (`WorkOK`):
  between the look for rivals and the commit of `SUBMITTING` nothing is re-read.
- `LockExcludes`: the assumption is what the lock gives. While no connection breaks
  under its worker (`LockedSpec`), one worker is at it at a time, through crashes and
  restarts, and `LockedOnce` puts the two together. When a connection breaks, the
  assumption fails, and so does `SubmittedOnce` (`TR_Dropped.cfg`).

`DeploymentProofs` proves, for any number of pushes and versions, any head revisions of
these, and any rows, references and values, from `DeploymentAssumption`:

- `TypeCorrect` and `Report` without further hypotheses. A report is true because nothing
  else was at work: `HookInv` says that while the hook of the newest push is alone no
  other hook is active, and what it has brought out so far, checkout, image and
  containers, is of the version it is going to.
- `Invariance`, `Stuck`, `ModelsAtHead` and `Rows` under `RevisionsFit`. That formula has
  no variable and no constant of the instance: it says of each script alone that it
  leads from the schema of its revision to that of the next, on a database without rows;
  that it carries the one value of a database with a single one; that it drops
  and moves no table which is there afterwards; and that the head has the models'
  schema. `dp_main` evaluates it, at the initial
  state (`FitAtStart`): it has one value. The proofs conclude what the scripts do in use, on
  databases with any rows, in any sequence of upgrades, downgrades and failures.
- The argument is that operations treat databases that are alike (`Like`) alike:
  `PossibleAlike` and `DoneAlike` say so of one operation, `RunOpsAlike` of a script, by
  induction on how much of it was run, and `UpgradeReaches` of an upgrade, by induction
  on the revisions. `Like` is monotone in the values, so that one value goes among
  others where it goes alone (`ValueRuns`); rows that break rules are followed one by one
  (`OddRuns`). `Invariance` is inductive with that: `SchemaIsRevision` asks for `Like`, and
  not for equality, since a downgrade leaves an enumeration type and two schemas behind.
- The induction itself (`NaturalInduction`) is stated for sets of naturals and proved
  from the least element that each of them has; that the recursive functions of `RunOps`
  and `Upgrade` exist (`RunExists`, `ClimbExists`) is its first use.

Only model-checked: `RunEndsOrWaits`, `RefreshEnds`, `EveryFileEnds`, `EveryChangeLands`,
`EveryDeliverySettles`, `EveryContainerSettles` and `RunEnds`, since liveness under
fairness is out of the prover's reach, as is `ENABLED`; and `RevisionsFit`, a
computation over the scripts as they are, which has nothing to generalise.

## Findings

- One order from a sales channel that nobody knows stops the order push for all
  orders (`op_bad`): the handler of its mapping error reads `exc.args[1]`, which the
  exception does not have, and the `IndexError` ends the run before anything is
  posted. The docstring (`push_to_sos.py:66`) says that mapping errors do not
  stop the remaining orders. Where the connection of a POST breaks for the last
  time, the corresponding handler fails in the same way.

### Further divergences

Each has a `.cfg` beside the modules that shows it with TLC
(`tlc -config <cfg> MC<module>`).

| Config, property | What the code does | What is said |
|---|---|---|
| `SQ_Ksp`, `KspNotPosted` | `get_shipments_to_sync` (`sos_shipment_sync.py:517`) selects KSP rows like any others, and they are posted | "KSP remains excluded from normal queue selection" (`docs/SHIPMENT_SYNC_PROPOSED_CHANGELOG.md:11`; comment at `sos_shipment_sync.py:255`) |
| `SQ_Identical`, `IdenticalImportPreserves` | the payload hash of a repeated import is taken from an object the merge has emptied (`process_shipment_data.py:338, 421`): an identical file reopens a sent row for review | "Identical imports preserve their status" (changelog :10) |
| `SQ_ChangeHidden`, `SentMatchesSource` | for the same reason a change of the lines alone is not noticed | "Completed shipments with changed source payloads are held" (changelog :10) |
| `SQ_NoTimeout`, `PostTimesOut` | `_request` passes `timeout=None`, which switches the client's timeout off (`base_client.py:172`) | "Timeouts ... are held as `reconcile`" (changelog :9) |
| `TS_Retry`, `RecoveryChangesToken` | a task that read the row without a lock puts the refused token back in the cache after the refresh (`token_cache.py:474`), and the recovered request goes out with it again | "Recovered from unauthorized response; retrying" (`base_client.py:220`) |
| `DL_RetriedOld`, `LoadedIsInTable` | a warehouse file that is claimed again after a newer one overwrites it (`process_shipment_data.py:340`); the newer stays `LOADED` | "LOADED successfully loaded to DB" (`data_lake_models.py:11`) |
| `IC_Skipped`, `PassedIsInLake` | a page after the first that fails is logged and left out (`get_sos_data.py:152-156`), and the cursor passes its records | `test_failed_fetch_does_not_advance_state` (`tests/test_base_get.py:52`) covers the first page only |
| `IC_OnePage`, `OnePageIsAll` | the pages to ask for are counted from `num_results` of the first (`get_acenda_data.py:163-166`), and the cursor passes what is on the others | "num_results can describe this page, rather than the full catalog" (`backfill.py:47-48`) |
| `TR_Dropped`, `SubmittedOnce` | after the lock's connection broke, a second worker takes the same operation, reads it before the first commits `SUBMITTING`, and both send (`initiation.py:93`) | the comment at `initiation.py:126-127` |
| `OP_Twice`, `PostedOnce` | a broken connection makes the client send the POST again; SOS refuses the number it has just used, and the order is posted under the next (`push_to_sos.py:324`) | the rows are kept for idempotency (`sos_models.py:2461`) |
| `DP_Failure`, `FailureRollsBack` | under `set -euo pipefail` a command that fails ends the hook where it is; only a failed health check goes back | the hook "rolls back on failure" (`docs/deployment.md:12-14`) |

Four observations without a sentence they contradict: after a push was rolled back,
`main` stays on the broken revision, so that the next push has it as `OLDREV` and
would go back to it; and two hooks side by side have no lock, and may report what
the other has replaced (`ReportIsTrue` is about a hook that ran alone); payments are
asked for by their date from the time of the last run, so one with an earlier date is
passed (`core/configs/sos.py:236-237`; `IC_Payments`, `PassedIsInLake`); and the SOS
cursor is the worker's clock, so what changes while that is ahead is passed
(`get_sos_data.py:34`; `IC_Clock`, `PassedIsInLake`).

## Not modelled, and why

- The Terminal49 inbox, snapshots and feed (`store.accept`, `publish`, `Worker.once`): planned.
- Gmail and Sutton downloads: they read a mailbox and a share and end in the same
  lake rows `DataLake` starts from; planned.
- The Sutton, marketplace and other report loaders beyond what the queue sees of
  them: parsing and field mapping, and the claim and completion they share with the
  loaders that are modelled.
- The worker runtime: scheduling, which appears in the guards and the fairness.
- The lake writer: it writes a temporary file and renames it.
- The HTTP API: read-only routes and receivers that store one row.
- Field mappings, formatting, logging, configuration, and the columns, defaults
  and indexes of the tables, on which no property depends.
