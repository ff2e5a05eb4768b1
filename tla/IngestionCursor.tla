--------------------------- MODULE IngestionCursor ---------------------------
(***************************************************************************)
(* The download of changed records from SOS and Acenda (sync_endpoints_job *)
(* with GetSosData or GetAcendaData).  A run asks every endpoint for the   *)
(* records changed since its cursor, page by page; puts what it got into   *)
(* the lake, a file and its data_lake_files row; and moves the cursor, in  *)
(* memory first and then on disk.  Meanwhile the source changes: records   *)
(* are added, changed and hidden, also between two pages of one run.       *)
(*                                                                         *)
(* Source and worker have a clock each, which need not agree; both only    *)
(* go forward.  The source answers with what it has at that moment.        *)
(*                                                                         *)
(* A file is what its row names: one that is written and never registered  *)
(* is in nobody's way and is not kept here.                                *)
(***************************************************************************)
EXTENDS Integers, FiniteSets

CONSTANTS
  Records,      \* the ids of the records, by which the source sorts pages
  Endpoints,
  EndpointOf,   \* the endpoint of each record
  Sources,      \* the sources considered, each by how its endpoints are queried
  PageSize,     \* max_results
  AcendaPage,   \* how much Acenda puts on a page: it is not told max_results
  Dates,        \* the dates that payments are given
  MayHide,      \* the records that are archived or deleted at times
  Day,          \* how far back a run without a cursor looks
  MaxSkew,      \* how far the worker's clock may be from the source's
  MaxNow, MaxChanges, MaxTrouble,  \* bounds: time, changes, failures
  NoRun         \* run_started_at of no run

SosQueries == {"updatedsince", "createdsince", "from"}

ASSUME ConstantsAssumption ==
  /\ Records \subseteq Nat /\ IsFiniteSet(Records)
  /\ EndpointOf \in [Records -> Endpoints] /\ MayHide \subseteq Records
  /\ Sources \subseteq [Endpoints -> {"$gt"}] \cup [Endpoints -> SosQueries]
  /\ {PageSize, AcendaPage} \subseteq Nat \ {0} /\ {Day, MaxSkew} \subseteq Nat
  /\ MaxNow \in Nat \ {0} /\ Dates \subseteq 0..MaxNow
  /\ MaxChanges \in Nat /\ MaxTrouble \in Nat
  /\ NoRun \notin Nat

VARIABLES
  query,           \* the parameter that each endpoint is queried with
  now,             \* the time of the source, at its resolution, from 1
  clock,           \* the last reading of the worker's own
  changes,         \* changes at the source so far
  version,         \* the one that left each record as it is, 0 before it exists
  stamp,           \* the time that the query of its endpoint compares
  hidden,          \* records that no query returns: archived, or deleted
  memory,          \* StateStore._state: the cursor of each endpoint, 0 for none
  disk,            \* the state file
  lake,            \* the records in files that have a row
  run_started_at,  \* of the run, taken when its GetSosData is built
  pc,              \* where the run is with each endpoint
  since,           \* the watermark it queries the endpoint with
  left,            \* the pages it has still to fetch
  records,         \* what it has fetched
  trouble,         \* failures so far
  exposed          \* history: records whose present state a run may pass unseen

site == <<query, now, changes, version, stamp, hidden>>
run  == <<run_started_at, pc, since, left, records>>
vars == <<site, clock, memory, disk, lake, run, trouble, exposed>>

Time == 0..MaxNow
Copy == [id : Records, version : 1..MaxChanges, stamp : Time]
Pc   == {"idle", "queued", "pages", "fetched", "row", "state", "save", "done"}

Init ==
  /\ query \in Sources
  /\ now = 1 /\ clock = 1
  /\ changes = 0
  /\ version = [r \in Records |-> 0]
  /\ stamp = [r \in Records |-> 0]
  /\ hidden = {}
  /\ memory = [e \in Endpoints |-> 0]
  /\ disk = [e \in Endpoints |-> 0]
  /\ lake = {}
  /\ run_started_at = NoRun
  /\ pc = [e \in Endpoints |-> "idle"]
  /\ since = [e \in Endpoints |-> 0]
  /\ left = [e \in Endpoints |-> {}]
  /\ records = [e \in Endpoints |-> {}]
  /\ trouble = 0
  /\ exposed = {}

CopyOf(r) == [id |-> r, version |-> version[r], stamp |-> stamp[r]]
Goto(e, from, to) == pc[e] = from /\ pc' = [pc EXCEPT ![e] = to]
Fault == trouble < MaxTrouble /\ trouble' = trouble + 1

Acenda(e) == query[e] = "$gt"

-----------------------------------------------------------------------------
(* The source *)

\* SOS includes the second it is asked from; Acenda is asked with $gt.
Passes(e, t, watermark) == IF Acenda(e) THEN t > watermark ELSE t >= watermark

\* Every query of SOS says archived=no.
Matching(e, watermark) ==
  {r \in Records : EndpointOf[r] = e /\ version[r] > 0 /\ r \notin hidden
                     /\ Passes(e, stamp[r], watermark)}

Size(e) == IF Acenda(e) THEN AcendaPage ELSE PageSize

\* Page p of the matching records, in the order of their ids: an offset, so that
\* a record that begins or ceases to match moves all later ones.
Page(e, watermark, p) ==
  LET match == Matching(e, watermark)
  IN {r \in match :
        LET before == Cardinality({q \in match : q < r})
        IN p * Size(e) <= before /\ before < (p + 1) * Size(e)}

Unfetched(e) == {q \in Matching(e, since[e]) : CopyOf(q) \notin records[e]}

\* The times that a change may leave r with: it is created once and updated now, or
\* not even that when it is shown again, while a payment has the date it is given.
Stamps(r) ==
  LET q == query[EndpointOf[r]]
  IN CASE q = "from" -> Dates
       [] q = "createdsince" /\ version[r] > 0 -> {stamp[r]}
       [] OTHER -> IF r \in hidden THEN {now, stamp[r]} ELSE {now}

Fetching == {"pages", "fetched", "row", "state"}

\* What a change of r to stamp s exposes: those that may move off the pages to
\* come, if r begins or ceases to match; r itself, when it is hidden; with SOS when
\* s is before the cursor, or before the time that the run is going to put there;
\* with Acenda when a later page's newer record may overtake it, or when neither the
\* cursor nor what was fetched is before s.
ExposedBy(r, s, hide) ==
  LET e == EndpointOf[r]
      matches == ~hide /\ Passes(e, s, since[e])
      moved   == IF pc[e] = "pages" /\ (r \in Matching(e, since[e])) # matches
                   THEN Unfetched(e) \ {r} ELSE {}
      behind  == s < memory[e] \/ (pc[e] \in Fetching /\ s < run_started_at)
      reached == s <= memory[e] \/ \E c \in records[e] : s <= c.stamp
      passed  == IF Acenda(e) THEN pc[e] = "pages" \/ reached ELSE behind
  IN moved \cup (IF hide \/ passed THEN {r} ELSE {})

\* A record is added, changed, hidden or shown again.
Change(r) ==
  /\ changes < MaxChanges
  /\ changes' = changes + 1
  /\ version' = [version EXCEPT ![r] = changes + 1]
  /\ \E s \in Stamps(r), hide \in BOOLEAN :
       /\ hide => r \in MayHide
       /\ stamp' = [stamp EXCEPT ![r] = s]
       /\ hidden' = IF hide THEN hidden \cup {r} ELSE hidden \ {r}
       /\ exposed' = (exposed \ {r}) \cup ExposedBy(r, s, hide)
  /\ UNCHANGED <<query, now, clock, memory, disk, lake, run, trouble>>

Tick ==
  /\ now < MaxNow
  /\ now' = now + 1
  /\ UNCHANGED <<query, changes, version, stamp, hidden, clock, memory, disk, lake, run,
                 trouble, exposed>>

-----------------------------------------------------------------------------
(* A run *)

\* What the worker's clock may show.
Readings == {t \in Time : clock <= t /\ now - MaxSkew <= t /\ t <= now + MaxSkew}

\* The scheduler starts no run while one is under way.
StartRun ==
  /\ \A e \in Endpoints : pc[e] = "idle"
  /\ run_started_at' \in Readings
  /\ clock' = run_started_at'
  /\ pc' = [e \in Endpoints |-> "queued"]
  /\ UNCHANGED <<site, memory, disk, lake, since, left, records, trouble,
                 exposed>>

\* get_sos_watermark, get_acenda_watermark: a day back if there is no cursor.
Watermarks(e) == IF memory[e] # 0 THEN {memory[e]} ELSE {t - Day : t \in Readings}

\* The total that the first page reports: of all that match, but with Acenda it may
\* be of that page alone (backfill.py says so of the catalog).
Totals(e, watermark) ==
  {Cardinality(Matching(e, watermark))}
    \cup (IF Acenda(e) THEN {Cardinality(Page(e, watermark, 0))} ELSE {})

\* The pages after the first that are asked for.
Rest(total) == {p \in 1..total : p * PageSize < total}

\* The total and the size of a page are what the code takes them to be.
Told(e, watermark, total) ==
  total = Cardinality(Matching(e, watermark)) /\ PageSize <= Size(e)

\* What is on no page that is asked for; what a first run does not look back for.
Unasked(e, watermark, rest) ==
  Matching(e, watermark) \ UNION {Page(e, watermark, p) : p \in {0} \cup rest}

TooOld(e, watermark) ==
  {r \in Records : memory[e] = 0 /\ EndpointOf[r] = e /\ version[r] > 0
                     /\ ~Passes(e, stamp[r], watermark)}

FirstPage(e) ==
  \E w \in Watermarks(e) : \E total \in Totals(e, w) :
    LET rest == Rest(total)
        unasked == IF Told(e, w, total) THEN {} ELSE Unasked(e, w, rest)
    IN /\ Goto(e, "queued", IF rest # {} THEN "pages" ELSE "fetched")
       /\ since' = [since EXCEPT ![e] = w]
       /\ left' = [left EXCEPT ![e] = rest]
       /\ records' = [records EXCEPT ![e] = {CopyOf(r) : r \in Page(e, w, 0)}]
       /\ exposed' = exposed \cup TooOld(e, w) \cup unasked
       /\ UNCHANGED <<site, clock, memory, disk, lake, run_started_at, trouble>>

\* The endpoint has failed: its result is skipped, its cursor stays.
FirstPageFails(e) ==
  /\ Goto(e, "queued", "done")
  /\ Fault
  /\ UNCHANGED <<site, clock, memory, disk, lake, run_started_at, since, left, records,
                 exposed>>

\* The pages after the first are fetched at the same time, in any order.
PageDone(e, p) ==
  /\ p \in left[e]
  /\ left' = [left EXCEPT ![e] = @ \ {p}]
  /\ Goto(e, "pages", IF left[e] = {p} THEN "fetched" ELSE "pages")
  /\ UNCHANGED <<site, clock, memory, disk, lake, run_started_at, since>>

NextPage(e, p) ==
  /\ PageDone(e, p)
  /\ records' = [records EXCEPT ![e] =
       @ \cup {CopyOf(r) : r \in Page(e, since[e], p)}]
  /\ UNCHANGED <<trouble, exposed>>

\* Logged; the others count as the result.
PageFails(e, p) ==
  /\ PageDone(e, p)
  /\ Fault
  /\ exposed' = exposed \cup Page(e, since[e], p)
  /\ UNCHANGED records

\* Results are handled one after the other; records are written to a file.
Handling == {"row", "state", "save"}

Handle(e) ==
  /\ \A f \in Endpoints : pc[f] \notin Handling
  /\ Goto(e, "fetched", IF records[e] = {} THEN "state" ELSE "row")
  /\ UNCHANGED <<site, clock, memory, disk, lake, run_started_at, since, left, records,
                 trouble, exposed>>

\* The row and its commit.
InsertRow(e) ==
  /\ Goto(e, "row", "state")
  /\ lake' = lake \cup records[e]
  /\ UNCHANGED <<site, clock, memory, disk, run_started_at, since, left, records,
                 trouble, exposed>>

Latest(copies) == CHOOSE t \in {c.stamp : c \in copies} :
                    \A c \in copies : c.stamp <= t

\* Mutant of Cursor: SOS takes the time at which the result is handled.
CursorNow(e) ==
  IF Acenda(e) THEN IF records[e] = {} THEN memory[e] ELSE Latest(records[e])
  ELSE IF now > run_started_at THEN now ELSE run_started_at

\* update_state_file: SOS takes the start of the run, even when nothing came;
\* Acenda the latest updated_at, and leaves the state alone when nothing came.
Cursor(e) ==
  IF Acenda(e) THEN IF records[e] = {} THEN memory[e] ELSE Latest(records[e])
  ELSE run_started_at

\* StateStore.update changes memory ...
Advance(e) ==
  /\ Goto(e, "state",
          IF Acenda(e) /\ records[e] = {} THEN "done" ELSE "save")
  /\ memory' = [memory EXCEPT ![e] = Cursor(e)]
  /\ UNCHANGED <<site, clock, disk, lake, run_started_at, since, left, records,
                 trouble, exposed>>

\* Mutant of Save: the file keeps only the endpoint that was updated.
SaveAlone(e) ==
  /\ Goto(e, "save", "done")
  /\ disk' = [f \in Endpoints |-> IF f = e THEN memory[e] ELSE 0]
  /\ UNCHANGED <<site, clock, memory, lake, run_started_at, since, left, records,
                 trouble, exposed>>

\* ... and then replaces the file, which holds every endpoint.
Save(e) ==
  /\ Goto(e, "save", "done")
  /\ disk' = memory
  /\ UNCHANGED <<site, clock, memory, lake, run_started_at, since, left, records,
                 trouble, exposed>>

Reset ==
  /\ run_started_at' = NoRun
  /\ pc' = [e \in Endpoints |-> "idle"]
  /\ since' = [e \in Endpoints |-> 0]
  /\ left' = [e \in Endpoints |-> {}]
  /\ records' = [e \in Endpoints |-> {}]

\* Mutant of RunFails: the failure ends the endpoint and leaves the run open.
RunFailsOpen(e) ==
  /\ pc[e] \in {"row", "save"}
  /\ Fault
  /\ pc' = [pc EXCEPT ![e] = "idle"]
  /\ lake' \in {lake, IF pc[e] = "row" THEN lake \cup records[e] ELSE lake}
  /\ UNCHANGED <<site, clock, memory, disk, run_started_at, since, left, records,
                 exposed>>

\* The file or its row cannot be written, or the row is and nobody hears of it,
\* or the state cannot be saved: the whole run ends, with what other endpoints
\* have fetched.
RunFails(e) ==
  /\ pc[e] \in {"row", "save"}
  /\ Fault
  /\ Reset
  /\ lake' \in {lake, IF pc[e] = "row" THEN lake \cup records[e] ELSE lake}
  /\ UNCHANGED <<site, clock, memory, disk, exposed>>

EndRun ==
  /\ \A e \in Endpoints : pc[e] = "done"
  /\ Reset
  /\ UNCHANGED <<site, clock, memory, disk, lake, trouble, exposed>>

\* The worker stops at any point; the next one reads the state file.
Crash ==
  /\ Fault
  /\ Reset
  /\ memory' = disk
  /\ UNCHANGED <<site, clock, disk, lake, exposed>>

-----------------------------------------------------------------------------

\* What the run and the sources that answer it do without a failure.
Progress(e) ==
  \/ FirstPage(e) \/ (\E p \in left[e] : NextPage(e, p)) \/ Handle(e)
  \/ InsertRow(e) \/ Advance(e) \/ Save(e)

Next ==
  \/ Tick
  \/ \E r \in Records : Change(r)
  \/ StartRun \/ EndRun \/ Crash
  \/ \E e \in Endpoints :
       \/ FirstPage(e) \/ FirstPageFails(e)
       \/ \E p \in left[e] : NextPage(e, p) \/ PageFails(e, p)
       \/ Handle(e) \/ InsertRow(e) \/ Advance(e) \/ Save(e)
       \/ RunFails(e)

Spec == Init /\ [][Next]_vars

\* The scheduler starts a run at every interval, and its steps are taken unless
\* they fail; failures are bounded, time and the source owe nothing.
FairSpec ==
  /\ Spec
  /\ WF_vars(StartRun) /\ WF_vars(EndRun)
  /\ \A e \in Endpoints : WF_vars(Progress(e))

-----------------------------------------------------------------------------
(* Properties *)

TypeOK ==
  /\ query \in Sources
  /\ {now, clock} \subseteq Time
  /\ changes \in 0..MaxChanges
  /\ version \in [Records -> 0..changes]
  /\ stamp \in [Records -> Time]
  /\ memory \in [Endpoints -> Time] /\ disk \in [Endpoints -> Time]
  /\ hidden \subseteq Records /\ exposed \subseteq Records
  /\ lake \subseteq Copy
  /\ run_started_at \in Time \cup {NoRun}
  /\ pc \in [Endpoints -> Pc]
  /\ since \in [Endpoints -> Int]
  /\ left \in [Endpoints -> SUBSET Nat]
  /\ records \in [Endpoints -> SUBSET Copy]
  /\ trouble \in 0..MaxTrouble

\* The next query from cursor c finds the record as it is.
Ahead(r, c) == r \notin hidden /\ (c = 0 \/ Passes(EndpointOf[r], stamp[r], c))

Covered(r, c) == Ahead(r, c) \/ CopyOf(r) \in lake \/ r \in exposed

\* Whatever stops or fails between the fetch, the file, its row and the two
\* writes of the cursor, and whatever changes at the source meanwhile: a record
\* that neither cursor would fetch again is in the lake, or there is one of these
\* reasons.  The source hides it; it was on a page that was skipped, or that nobody
\* asked for, as the source told less than there is; it moved between pages while
\* they were fetched; its query does not compare when it changed, or the worker's
\* clock is ahead (SOS); it changed while later ones were fetched, or at the same
\* instant (Acenda); it is older than a first run looks.
NothingPassed ==
  \A r \in Records : version[r] > 0 =>
    Covered(r, memory[EndpointOf[r]]) /\ Covered(r, disk[EndpointOf[r]])

\* The inductive invariant.  The file is never ahead of memory, nor that of the
\* worker's clock, which is where SOS has its cursors from ...
CursorsOK(e) == disk[e] <= memory[e] /\ (~Acenda(e) => memory[e] <= clock)

\* ... and what the cursor is going to pass has been seen, is on a page to come
\* or (Acenda) is later than all that was fetched.
Seen(r, e) ==
  \/ r \in exposed \/ CopyOf(r) \in lake \cup records[e]
  \/ ~Acenda(e) /\ stamp[r] >= run_started_at

Coming(r, e) == \E p \in left[e] : r \in Page(e, since[e], p)

Later(r, e) == Acenda(e) /\ \A c \in records[e] : c.stamp < stamp[r]

RunOK(e) ==
  LET known == {r \in Records : EndpointOf[r] = e /\ version[r] > 0}
  IN /\ pc[e] # "idle" => run_started_at # NoRun
     /\ run_started_at # NoRun =>
          run_started_at <= clock /\ (~Acenda(e) => memory[e] <= run_started_at)
     /\ pc[e] \in Fetching => \A c \in records[e] : memory[e] <= c.stamp
     /\ pc[e] = "pages" =>
          /\ memory[e] \in {0, since[e]}
          /\ \A r \in known : Seen(r, e) \/ Coming(r, e)
     /\ pc[e] \in {"fetched", "row", "state"} =>
          \A r \in known : Seen(r, e) \/ Later(r, e)
     /\ pc[e] = "state" => records[e] \subseteq lake

IInv ==
  /\ TypeOK /\ NothingPassed
  /\ hidden \subseteq exposed
  /\ \A e \in Endpoints : CursorsOK(e) /\ RunOK(e)

\* The same without excuses: what a run passed is in the lake.
PassedIsInLake ==
  \A r \in Records \ hidden : version[r] > 0 =>
    Ahead(r, memory[EndpointOf[r]]) \/ CopyOf(r) \in lake

\* What get_raw_sos_data and get_raw_acenda_data take for granted: a run that asks for
\* one page only has got what there is.
OnePageIsAll ==
  [][\A e \in Endpoints : pc[e] = "queued" /\ pc'[e] = "fetched" =>
       Matching(e, since'[e]) \subseteq {c.id : c \in records'[e]}]_vars

\* The state file never says less than it did: a failed save is made up for by
\* the next, also by another endpoint's, and a restart does not take cursors back
\* that were saved.
CursorForward == [][\A e \in Endpoints : disk[e] <= disk'[e]]_vars

\* The current state of each record reaches the lake, once failures and changes
\* come to an end, unless a run passed it unseen for a reason of NothingPassed.
EveryChangeLands ==
  \A r \in Records :
    <>[](version[r] > 0 => CopyOf(r) \in lake \/ r \in exposed)
=============================================================================
