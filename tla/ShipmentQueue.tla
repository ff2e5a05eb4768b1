---------------------------- MODULE ShipmentQueue ----------------------------
(***************************************************************************)
(* The SOS shipment queue (table sos.shipment_sync).  Warehouse loaders    *)
(* and the Sutton report loader import shipments and upsert a queue row    *)
(* per shipment; runs of process_shipment_sync claim pending rows, build   *)
(* an SOS shipment from the imported tables and post it.  Runs may         *)
(* overlap, stop at any await, lose the answer of SOS, or fail to commit.  *)
(*                                                                         *)
(* A key stands for one (source, source_id).  A shipment is a header and a *)
(* set of lines; a line that a file does not mention is NoLine.  sha256 is *)
(* taken to be injective: a payload hash is the payload that was hashed.   *)
(***************************************************************************)
EXTENDS Naturals, Sequences

CONSTANTS
  Keys,          \* (source, source_id) pairs
  Source,        \* the source of each key: "sutton", "ksp" or "productiv"
  Workers,       \* overlapping runs of process_shipment_sync
  Lines,         \* line identities (tracking number, order item, report row)
  Values,        \* what a header or a line may say
  NoLine,        \* a line the file or the table does not have
  NoShipment,    \* the shipment tables have nothing for the key
  NoHash,        \* payload_hash IS NULL
  NoJob          \* the run holds no claimed row

ASSUME ConstantsAssumption ==
  /\ Source \in [Keys -> {"sutton", "ksp", "productiv"}]
  /\ NoLine \notin Values
  /\ NoShipment \notin [header : Values, lines : [Lines -> Values \cup {NoLine}]]

VARIABLES
  source,        \* the imported shipment of each key, as the tables hold it
  report,        \* Sutton: the report whose rows are committed, its queue
                 \* upsert to come
  unqueued,      \* history: reports whose rows were committed and whose queue
                 \* upsert never was; their files remain to be loaded again
  row,           \* the queue row of each key
  wire,          \* POSTs sent to SOS and not yet handled there
  shipments,     \* shipments SOS created, in order; the id is the position
  pc,            \* where each run is
  candidates,    \* rows the run selected and has not looked at yet
  claimed,       \* the row the run claimed, as RETURNING gave it
  template,      \* the shipment the run built from the tables
  post_started,  \* as in the code: SOS may have the shipment
  shipment_id,   \* the id SOS answered, 0 for None
  recovered,     \* one 401 has been answered with a new token
  interrupted    \* history: keys whose run stopped, or could not save, midway

tables   == <<source, report, unqueued>>
remote   == <<wire, shipments>>
attempt  == <<claimed, template, post_started, shipment_id, recovered>>
vars     == <<tables, row, remote, pc, candidates, attempt, interrupted>>

Shipment == [header : Values, lines : [Lines -> Values \cup {NoLine}]]
Hash     == Shipment \cup {NoHash}
Status   == {"absent", "pending", "processing", "sent", "failed", "reconcile"}
Row      == [status : Status, payload_hash : Hash, attempts : Nat,
             sos_shipment_id : Nat, last_error : BOOLEAN, ripe : BOOLEAN]
Job      == [key : Keys, attempts : Nat, payload_hash : Hash]
Request  == [key : Keys, attempts : Nat, body : Shipment]
Pc       == {"idle", "claim", "build", "post", "await", "complete", "record"}

NoLines  == [l \in Lines |-> NoLine]

\* No row of the key; `ripe' is created_at <= now - 15 minutes.
NoRow    == [status |-> "absent", payload_hash |-> NoHash, attempts |-> 0,
             sos_shipment_id |-> 0, last_error |-> FALSE, ripe |-> FALSE]

Init ==
  /\ source = [k \in Keys |-> NoShipment]
  /\ report = [k \in Keys |-> NoHash]
  /\ unqueued = [k \in Keys |-> {}]
  /\ row = [k \in Keys |-> NoRow]
  /\ wire = {}
  /\ shipments = << >>
  /\ pc = [w \in Workers |-> "idle"]
  /\ candidates = [w \in Workers |-> {}]
  /\ claimed = [w \in Workers |-> NoJob]
  /\ template = [w \in Workers |-> NoShipment]
  /\ post_started = [w \in Workers |-> FALSE]
  /\ shipment_id = [w \in Workers |-> 0]
  /\ recovered = [w \in Workers |-> FALSE]
  /\ interrupted = {}

-----------------------------------------------------------------------------
(* Importers *)

\* Lines of a file replace those with the same key and never delete others.
Merge(old, new) ==
  [header |-> new.header,
   lines  |-> [l \in Lines |->
                 IF new.lines[l] = NoLine THEN old.lines[l] ELSE new.lines[l]]]

Imported(k, s) ==
  IF source[k] = NoShipment THEN s ELSE Merge(source[k], s)

\* What the warehouse loader hashes: merging into an existing shipment empties
\* the incoming object's collections before to_json() reads them.
Hashed(k, s) ==
  IF source[k] = NoShipment THEN s ELSE [s EXCEPT !.lines = NoLines]

\* Mutants of Upserted: no error is noted with a hold; a sent row is not held; a
\* changed payload makes a failed row eligible again.
UpsertedSilently(r, hash) ==
  IF r.status = "absent" THEN
    [NoRow EXCEPT !.status = "pending", !.payload_hash = hash]
  ELSE IF r.payload_hash # hash
             /\ r.status \in {"sent", "processing", "reconcile"} THEN
    [r EXCEPT !.payload_hash = hash, !.status = "reconcile"]
  ELSE [r EXCEPT !.payload_hash = hash]

UpsertedSentKept(r, hash) ==
  IF r.status = "absent" THEN
    [NoRow EXCEPT !.status = "pending", !.payload_hash = hash]
  ELSE IF r.payload_hash # hash /\ r.status \in {"processing", "reconcile"} THEN
    [r EXCEPT !.payload_hash = hash, !.status = "reconcile",
              !.last_error = TRUE]
  ELSE [r EXCEPT !.payload_hash = hash]

UpsertedRetrying(r, hash) ==
  IF r.status \in {"absent", "failed"} THEN
    [NoRow EXCEPT !.status = "pending", !.payload_hash = hash]
  ELSE IF r.payload_hash # hash
             /\ r.status \in {"sent", "processing", "reconcile"} THEN
    [r EXCEPT !.payload_hash = hash, !.status = "reconcile",
              !.last_error = TRUE]
  ELSE [r EXCEPT !.payload_hash = hash]

\* shipment_sync_upsert: a new row is pending; a different hash on a row that
\* was or may have been posted holds it for reconciliation.
Upserted(r, hash) ==
  IF r.status = "absent" THEN
    [NoRow EXCEPT !.status = "pending", !.payload_hash = hash]
  ELSE IF r.payload_hash = hash THEN r
  ELSE IF r.status \in {"sent", "processing", "reconcile"} THEN
    [r EXCEPT !.payload_hash = hash, !.status = "reconcile",
              !.last_error = TRUE]
  ELSE [r EXCEPT !.payload_hash = hash]

\* One record of a KSP or Productiv file: shipment and queue row in one commit.
\* KSP rows are queued only when the file's cart is in KSP_CARTS_FOR_SOS_SYNC.
ImportWarehouse(k, s, queued) ==
  /\ Source[k] # "sutton"
  /\ queued \/ Source[k] = "ksp"
  /\ source' = [source EXCEPT ![k] = Imported(k, s)]
  /\ row' = IF queued
            THEN [row EXCEPT ![k] = Upserted(row[k], Hashed(k, s))]
            ELSE row
  /\ UNCHANGED <<report, unqueued, remote, pc, candidates, attempt,
                 interrupted>>

\* A Sutton sales report commits its rows first ...
ImportSutton(k, s) ==
  /\ Source[k] = "sutton"
  /\ source' = [source EXCEPT ![k] = Imported(k, s)]
  /\ report' = [report EXCEPT ![k] = s]
  /\ unqueued' = [unqueued EXCEPT ![k] = @ \cup {s}]
  /\ UNCHANGED <<row, remote, pc, candidates, attempt, interrupted>>

\* ... and the queue rows in a second commit.  If the load fails or stops in
\* between, this step does not happen and another ImportSutton follows.
QueueSutton(k) ==
  /\ report[k] # NoHash
  /\ row' = [row EXCEPT ![k] = Upserted(row[k], report[k])]
  /\ report' = [report EXCEPT ![k] = NoHash]
  /\ unqueued' = [unqueued EXCEPT ![k] = @ \ {report[k]}]
  /\ UNCHANGED <<source, remote, pc, candidates, attempt, interrupted>>

\* direct_load_to_sync_table: rows without a hash for KSP shipments that have
\* none; which of them the date and PO conditions admit is left open.
DirectLoad(chosen) ==
  /\ chosen # {}
  /\ \A k \in chosen :
       Source[k] = "ksp" /\ source[k] # NoShipment /\ row[k].status = "absent"
  /\ row' = [k \in Keys |->
               IF k \in chosen THEN [NoRow EXCEPT !.status = "pending"]
               ELSE row[k]]
  /\ UNCHANGED <<tables, remote, pc, candidates, attempt, interrupted>>

\* Fifteen minutes pass since the row was created.
Ripen(k) ==
  /\ row[k].status # "absent" /\ ~row[k].ripe
  /\ row' = [row EXCEPT ![k].ripe = TRUE]
  /\ UNCHANGED <<tables, remote, pc, candidates, attempt, interrupted>>

-----------------------------------------------------------------------------
(* A run of process_shipment_sync *)

\* The run holds a row it claimed.
Working(w)  == pc[w] \notin {"idle", "claim"}
Holds(w, k) == Working(w) /\ claimed[w].key = k

Goto(w, from, to) == pc[w] = from /\ pc' = [pc EXCEPT ![w] = to]

\* get_shipments_to_sync: by status and age only.
Selected(k) == row[k].status = "pending" /\ row[k].ripe

SelectCandidates(w) ==
  /\ Goto(w, "idle", "claim")
  /\ candidates' = [candidates EXCEPT ![w] = {k \in Keys : Selected(k)}]
  /\ UNCHANGED <<tables, row, remote, attempt, interrupted>>

\* Mutant of Claim: the UPDATE has no "status = 'pending'" in its WHERE.
ClaimUnguarded(w, k) ==
  /\ k \in candidates[w]
  /\ Goto(w, "claim", "build")
  /\ candidates' = [candidates EXCEPT ![w] = @ \ {k}]
  /\ row' = [row EXCEPT ![k].status = "processing",
                        ![k].attempts = row[k].attempts + 1,
                        ![k].last_error = FALSE]
  /\ claimed' = [claimed EXCEPT ![w] =
       [key |-> k, attempts |-> row[k].attempts + 1,
        payload_hash |-> row[k].payload_hash]]
  /\ UNCHANGED <<tables, remote, template, post_started, shipment_id,
                 recovered, interrupted>>

\* The conditional UPDATE ... RETURNING and its commit.
Claim(w, k) ==
  /\ k \in candidates[w] /\ row[k].status = "pending"
  /\ Goto(w, "claim", "build")
  /\ candidates' = [candidates EXCEPT ![w] = @ \ {k}]
  /\ row' = [row EXCEPT ![k].status = "processing",
                        ![k].attempts = row[k].attempts + 1,
                        ![k].last_error = FALSE]
  /\ claimed' = [claimed EXCEPT ![w] =
       [key |-> k, attempts |-> row[k].attempts + 1,
        payload_hash |-> row[k].payload_hash]]
  /\ UNCHANGED <<tables, remote, template, post_started, shipment_id,
                 recovered, interrupted>>

\* Mutant of SkipCandidate: the loop looks at the same candidate again.
SkipCandidateAgain(w, k) ==
  /\ pc[w] = "claim" /\ k \in candidates[w] /\ row[k].status # "pending"
  /\ UNCHANGED vars

\* The row is no longer pending: claimed is None, the run continues.
SkipCandidate(w, k) ==
  /\ pc[w] = "claim" /\ k \in candidates[w] /\ row[k].status # "pending"
  /\ candidates' = [candidates EXCEPT ![w] = @ \ {k}]
  /\ UNCHANGED <<tables, row, remote, pc, attempt, interrupted>>

EndRun(w) ==
  /\ candidates[w] = {}
  /\ Goto(w, "claim", "idle")
  /\ UNCHANGED <<tables, row, remote, candidates, attempt, interrupted>>

\* A KSP shipment without details cannot be mapped.
Mappable(k) ==
  /\ source[k] # NoShipment
  /\ Source[k] = "ksp" => source[k].lines # NoLines

BuildTemplate(w) ==
  /\ Goto(w, "build", "post")
  /\ Mappable(claimed[w].key)
  /\ template' = [template EXCEPT ![w] = source[claimed[w].key]]
  /\ post_started' = [post_started EXCEPT ![w] = TRUE]
  /\ UNCHANGED <<tables, row, remote, candidates, claimed, shipment_id,
                 recovered, interrupted>>

\* Source missing, order not found or ambiguous, a lookup GET that failed ...
BuildFails(w) ==
  /\ Goto(w, "build", "record")
  /\ UNCHANGED <<tables, row, remote, candidates, attempt, interrupted>>

RequestOf(w) == [key |-> claimed[w].key, attempts |-> claimed[w].attempts,
                 body |-> template[w]]

\* client.request; RetryConfig(max_attempts=1) leaves one send per token.
SendPost(w) ==
  /\ Goto(w, "post", "await")
  /\ wire' = wire \cup {RequestOf(w)}
  /\ UNCHANGED <<tables, row, shipments, candidates, attempt, interrupted>>

\* No token, or no connection: an exception before anything was sent.
SendFails(w) ==
  /\ Goto(w, "post", "record")
  /\ UNCHANGED <<tables, row, remote, candidates, attempt, interrupted>>

\* The answer of SOS to the run's request, which leaves the wire.
Answer(w, to) ==
  /\ Goto(w, "await", to)
  /\ RequestOf(w) \in wire
  /\ wire' = wire \ {RequestOf(w)}

Created(request) ==
  shipments' = Append(shipments, [key |-> request.key, body |-> request.body])

\* 2xx with a valid id.
AnswerAccepted(w) ==
  /\ Answer(w, "complete")
  /\ Created(RequestOf(w))
  /\ shipment_id' = [shipment_id EXCEPT ![w] = Len(shipments) + 1]
  /\ UNCHANGED <<tables, row, candidates, claimed, template, post_started,
                 recovered, interrupted>>

\* Mutant of AnswerUnclear: any answer but a 2xx counts as a refusal.
AnswerUnclearRefused(w) ==
  /\ Answer(w, "record")
  /\ Created(RequestOf(w)) \/ UNCHANGED shipments
  /\ post_started' = [post_started EXCEPT ![w] = FALSE]
  /\ UNCHANGED <<tables, row, candidates, claimed, template, shipment_id,
                 recovered, interrupted>>

\* 2xx without a usable id, 3xx, 408 or 5xx: SOS may have created it or not.
AnswerUnclear(w) ==
  /\ Answer(w, "record")
  /\ Created(RequestOf(w)) \/ UNCHANGED shipments
  /\ UNCHANGED <<tables, row, candidates, attempt, interrupted>>

\* 4xx other than 408.
AnswerRejected(w) ==
  /\ Answer(w, "record")
  /\ post_started' = [post_started EXCEPT ![w] = FALSE]
  /\ UNCHANGED <<tables, row, shipments, candidates, claimed, template,
                 shipment_id, recovered, interrupted>>

\* The first 401, recovered by a token refresh: the request is sent again.
AnswerUnauthorized(w) ==
  /\ ~recovered[w]
  /\ Answer(w, "post")
  /\ recovered' = [recovered EXCEPT ![w] = TRUE]
  /\ UNCHANGED <<tables, row, shipments, candidates, claimed, template,
                 post_started, shipment_id, interrupted>>

\* The connection breaks while waiting; the request may still reach SOS.  There
\* is no deadline: _request passes timeout=None, which switches httpx's off.
TransportError(w) ==
  /\ Goto(w, "await", "record")
  /\ UNCHANGED <<tables, row, remote, candidates, attempt, interrupted>>

\* SOS handles a request whose answer never reaches the caller, or never
\* receives it.
CreateUnheard(request) ==
  /\ request \in wire
  /\ wire' = wire \ {request}
  /\ Created(request) \/ UNCHANGED shipments
  /\ UNCHANGED <<tables, row, pc, candidates, attempt, interrupted>>

-----------------------------------------------------------------------------
(* _finish_attempt *)

\* Mutant of Finished: sos_shipment_id is not assigned.
FinishedWithoutId(r, job, status, id) ==
  IF r.status = "sent" /\ r.sos_shipment_id = id THEN r
  ELSE LET stale == r.status # "processing"
                      \/ r.payload_hash # job.payload_hash
       IN  [r EXCEPT !.status = IF stale THEN "reconcile" ELSE status,
                     !.last_error = stale \/ status # "sent"]

\* The row after _finish_attempt(claimed, status, error, id) has committed.
Finished(r, job, status, id) ==
  IF r.status = "sent" /\ r.sos_shipment_id = id THEN r
  ELSE LET stale == r.status # "processing"
                      \/ r.payload_hash # job.payload_hash
       IN  [r EXCEPT !.status = IF stale THEN "reconcile" ELSE status,
                     !.last_error = stale \/ status # "sent",
                     !.sos_shipment_id = IF id # 0 THEN id ELSE @]

\* Mutant of NextCandidate: shipment_id is not reset at the top of the loop.
NextCandidateKeepsId(w) ==
  /\ claimed' = [claimed EXCEPT ![w] = NoJob]
  /\ template' = [template EXCEPT ![w] = NoShipment]
  /\ post_started' = [post_started EXCEPT ![w] = FALSE]
  /\ recovered' = [recovered EXCEPT ![w] = FALSE]
  /\ UNCHANGED <<candidates, shipment_id>>

\* The run turns to its next candidate.
NextCandidate(w) ==
  /\ claimed' = [claimed EXCEPT ![w] = NoJob]
  /\ template' = [template EXCEPT ![w] = NoShipment]
  /\ post_started' = [post_started EXCEPT ![w] = FALSE]
  /\ shipment_id' = [shipment_id EXCEPT ![w] = 0]
  /\ recovered' = [recovered EXCEPT ![w] = FALSE]
  /\ UNCHANGED candidates

FinishRow(w, status) ==
  LET k == claimed[w].key
  IN  row' = [row EXCEPT ![k] =
                Finished(row[k], claimed[w], status, shipment_id[w])]

\* "sent" is committed and acknowledged, and the row did end up sent.
Complete(w) ==
  /\ Goto(w, "complete", "claim")
  /\ FinishRow(w, "sent")
  /\ row'[claimed[w].key].status = "sent"
  /\ NextCandidate(w)
  /\ UNCHANGED <<tables, remote, interrupted>>

\* The commit went through, but the source had changed or the acknowledgement
\* was lost; or the commit failed.  The exception handler records it anew.
CompleteFails(w) ==
  /\ Goto(w, "complete", "record")
  /\ FinishRow(w, "sent") \/ UNCHANGED row
  /\ UNCHANGED <<tables, remote, candidates, attempt, interrupted>>

\* Mutants of FailureStatus: a status the column does not know; no distinction
\* of what SOS may have.
FailureStatusError(w) == "error"
FailureStatusFailed(w) == "failed"

FailureStatus(w) == IF post_started[w] THEN "reconcile" ELSE "failed"

\* Mutant of Record: an attempt that did not post is not recorded.
RecordPosted(w) ==
  /\ Goto(w, "record", "claim")
  /\ IF post_started[w] THEN FinishRow(w, "reconcile") ELSE UNCHANGED row
  /\ NextCandidate(w)
  /\ UNCHANGED <<tables, remote, interrupted>>

Record(w) ==
  /\ Goto(w, "record", "claim")
  /\ FinishRow(w, FailureStatus(w))
  /\ NextCandidate(w)
  /\ UNCHANGED <<tables, remote, interrupted>>

\* The outcome cannot be saved: it is only logged.
RecordFails(w) ==
  /\ Goto(w, "record", "claim")
  /\ interrupted' = interrupted \cup {claimed[w].key}
  /\ NextCandidate(w)
  /\ UNCHANGED <<tables, row, remote>>

\* The process dies, or the task is cancelled, at any await.
Crash(w) ==
  /\ pc[w] # "idle"
  /\ pc' = [pc EXCEPT ![w] = "idle"]
  /\ candidates' = [candidates EXCEPT ![w] = {}]
  /\ claimed' = [claimed EXCEPT ![w] = NoJob]
  /\ template' = [template EXCEPT ![w] = NoShipment]
  /\ post_started' = [post_started EXCEPT ![w] = FALSE]
  /\ shipment_id' = [shipment_id EXCEPT ![w] = 0]
  /\ recovered' = [recovered EXCEPT ![w] = FALSE]
  /\ interrupted' = IF Working(w) THEN interrupted \cup {claimed[w].key}
                    ELSE interrupted
  /\ UNCHANGED <<tables, row, remote>>

-----------------------------------------------------------------------------
Import ==
  \E k \in Keys :
    \/ \E s \in Shipment, queued \in BOOLEAN : ImportWarehouse(k, s, queued)
    \/ \E s \in Shipment : ImportSutton(k, s)
    \/ QueueSutton(k)
    \/ Ripen(k)

\* What a run does by itself, with the database's help.
Local(w) ==
  \/ \E k \in Keys : Claim(w, k) \/ SkipCandidate(w, k)
  \/ EndRun(w)
  \/ SendPost(w) \/ SendFails(w)
  \/ Complete(w) \/ CompleteFails(w)
  \/ Record(w) \/ RecordFails(w)

\* What waits for SOS: the lookups of the mapping, the answer to the POST.
Remote(w) ==
  \/ BuildTemplate(w) \/ BuildFails(w)
  \/ AnswerAccepted(w) \/ AnswerUnclear(w) \/ AnswerRejected(w)
  \/ AnswerUnauthorized(w) \/ TransportError(w)

Next ==
  \/ Import
  \/ \E chosen \in SUBSET Keys : DirectLoad(chosen)
  \/ \E request \in wire : CreateUnheard(request)
  \/ \E w \in Workers :
       SelectCandidates(w) \/ Local(w) \/ Remote(w) \/ Crash(w)

\* The event loop drives a run that waits for nobody; nothing bounds the wait
\* for SOS, so Remote steps get no fairness.
Fairness == \A w \in Workers : WF_vars(Local(w))

Spec == Init /\ [][Next]_vars
FairSpec == Spec /\ Fairness

-----------------------------------------------------------------------------
(* Properties *)

\* Every variable has the shape the code gives it.
TypeOK ==
  /\ source \in [Keys -> Shipment \cup {NoShipment}]
  /\ report \in [Keys -> Hash]
  /\ unqueued \in [Keys -> SUBSET Shipment]
  /\ row \in [Keys -> Row]
  /\ wire \subseteq Request
  /\ shipments \in Seq([key : Keys, body : Shipment])
  /\ pc \in [Workers -> Pc]
  /\ candidates \in [Workers -> SUBSET Keys]
  /\ claimed \in [Workers -> Job \cup {NoJob}]
  /\ template \in [Workers -> Shipment \cup {NoShipment}]
  /\ post_started \in [Workers -> BOOLEAN]
  /\ shipment_id \in [Workers -> Nat]
  /\ recovered \in [Workers -> BOOLEAN]
  /\ interrupted \subseteq Keys

ShipmentsOf(k) == {i \in DOMAIN shipments : shipments[i].key = k}

\* SOS has a shipment of the key, or a request on its way may create one.
Trace(k) == ShipmentsOf(k) # {} \/ \E q \in wire : q.key = k

\* However runs overlap, stop, time out or are answered late, and whatever is
\* imported meanwhile, SOS never has two shipments of one queue row.
AtMostOneShipment ==
  \A i, j \in DOMAIN shipments : shipments[i].key = shipments[j].key => i = j

\* A shipment that SOS has, or may still create from a request under way, is
\* never behind a row that reads as unsent or refused.
NoSilentShipment ==
  \A k \in Keys :
    Trace(k) => row[k].status \in {"processing", "sent", "reconcile"}

\* A row that reads "sent" carries the id of the shipment that SOS has for it.
SentIsBacked ==
  \A k \in Keys :
    row[k].status = "sent" => row[k].sos_shipment_id \in ShipmentsOf(k)

\* A row that stopped short of "sent" says why, and no other row shows an error.
ErrorExplainsHold ==
  \A k \in Keys :
    row[k].last_error <=> row[k].status \in {"failed", "reconcile"}

\* A row stays "processing" with no run working on it only if a run was
\* stopped, or could not save the outcome, while it held that row.
OnlyInterruptionsStrand ==
  \A k \in Keys :
    row[k].status = "processing"
      => k \in interrupted \/ \E w \in Workers : Holds(w, k)

\* Once every report is queued, a "sent" row's tables still say what SOS was
\* sent: a completed shipment with a changed payload is held instead.
SentMatchesSource ==
  \A k \in Keys :
    row[k].status = "sent" /\ unqueued[k] = {}
      => \A i \in ShipmentsOf(k) : shipments[i].body = source[k]

\* An import that changes nothing in the tables preserves a completed row.
IdenticalImportPreserves ==
  [][\A k \in Keys :
       row[k].status = "sent" /\ source'[k] = source[k] /\ unqueued[k] = {}
         => row'[k] = row[k] \/ row'[k] = [row[k] EXCEPT !.ripe = TRUE]]_vars

\* KSP is excluded from normal queue selection: posting it is disabled.
KspNotPosted ==
  \A k \in Keys : Source[k] = "ksp" => row[k].attempts = 0

\* Nothing the program does makes an attempted row eligible again, takes a row
\* out of review, or forgets or replaces an SOS id.
NeverReopened ==
  [][\A k \in Keys :
       /\ row[k].status \notin {"absent", "pending"}
            => row'[k].status \notin {"absent", "pending"}
       /\ row[k].status \in {"failed", "reconcile"}
            => row'[k].status = row[k].status
       /\ row[k].sos_shipment_id # 0
            => row'[k].sos_shipment_id = row[k].sos_shipment_id]_vars

\* The inductive invariant behind the properties above.  A row that was never
\* posted, or is recorded as refused, has no trace at SOS and no run; an id that
\* a row carries is one SOS gave to a shipment of it.
KeyInv ==
  \A k \in Keys :
    /\ row[k].status \in {"absent", "pending", "failed"}
         => ~Trace(k) /\ \A w \in Workers : ~Holds(w, k)
    /\ row[k].status = "sent" => row[k].sos_shipment_id # 0
    /\ row[k].sos_shipment_id # 0 => row[k].sos_shipment_id \in ShipmentsOf(k)

\* A run that has not sent its request, or knows it refused, left no trace; an
\* id it keeps is one SOS gave to a shipment of its row.
RunInv ==
  \A w \in Workers :
    /\ Working(w) => claimed[w] \in Job
    /\ pc[w] \in {"post", "await", "complete"}
         => template[w] \in Shipment /\ post_started[w]
    /\ Working(w) /\ (pc[w] \in {"build", "post"} \/ ~post_started[w])
         => ~Trace(claimed[w].key)
    /\ pc[w] = "complete" => shipment_id[w] # 0
    /\ shipment_id[w] # 0
         => Working(w) /\ shipment_id[w] \in ShipmentsOf(claimed[w].key)

\* No two runs hold the same row.
ExclusiveClaims ==
  \A v, w \in Workers :
    Working(v) /\ Working(w) /\ claimed[v].key = claimed[w].key => v = w

\* One request per key is on its way at most, and none once SOS has a shipment.
WireInv ==
  /\ \A p, q \in wire : p.key = q.key => p = q
  /\ \A q \in wire : \A i \in DOMAIN shipments : shipments[i].key # q.key

IInv == TypeOK /\ KeyInv /\ RunInv /\ ExclusiveClaims /\ WireInv
          /\ AtMostOneShipment

\* The queue is an at-most-once poster.
IntentOf(status) ==
  CASE status \in {"absent", "pending"} -> "waiting"
    [] status = "processing" -> "posting"
    [] status = "reconcile" -> "held"
    [] OTHER -> status

Post == INSTANCE AtMostOncePost WITH
          Job <- Keys, Releasable <- FALSE,
          intent <- [k \in Keys |-> IntentOf(row[k].status)],
          effects <- [k \in Keys |-> ShipmentsOf(k)]

PostSpec == Post!Spec

\* A run never stalls by itself: unless it waits for SOS for ever, every run
\* that starts gets through its candidates, those lost to another run included.
RunEndsOrWaits ==
  \A w \in Workers :
    \/ pc[w] # "idle" ~> pc[w] = "idle"
    \/ <>[](pc[w] \in {"build", "await"})

\* A POST that SOS never answers times out and is held.
PostTimesOut == \A w \in Workers : pc[w] = "await" ~> pc[w] # "await"
=============================================================================
