------------------------------ MODULE DataLake ------------------------------
(***************************************************************************)
(* The loaders of the data lake.  Ingestion jobs land files of records and *)
(* insert a DataLakeFile row for each; a loader claims the oldest files    *)
(* that are not done, loads each in a transaction of its own, and writes   *)
(* the outcome to the row.  A loader that dies leaves its files claimed    *)
(* for thirty minutes.  SOS, Acenda and the warehouses differ in the files *)
(* they take again and in the records they skip.                           *)
(***************************************************************************)
EXTENDS Naturals, FiniteSets

CONSTANTS
  Loaders,      \* runs of one load job: the worker's, the direct runner's
  Records,      \* keys of the records of one entity
  NoRecord,     \* none of them
  Kind,         \* "sos", "acenda" or "warehouse"
  Limit,        \* files a run claims
  MaxFiles,     \* bound: files that land
  MaxVersion,   \* bound: versions of a record
  MaxTrouble,   \* bound: failures that are not due to a file's content
  MaxFaulty     \* bound: files that can never be loaded completely

ASSUME ConstantsAssumption ==
  /\ Kind \in {"sos", "acenda", "warehouse"}
  /\ {Limit, MaxFiles, MaxVersion, MaxTrouble, MaxFaulty} \subseteq Nat
  /\ Limit > 0
  /\ NoRecord \notin Records

VARIABLES
  newest,     \* newest version of each record that has landed
  landed,     \* number of files in the lake; ids are given in this order
  lake,       \* what each file holds
  row,        \* the DataLakeFile rows
  table,      \* committed version of each record in the domain table
  pc,         \* where each run is
  batch,      \* files it has claimed and not opened
  file,       \* the file it loads
  todo,       \* records of that file it has not come to
  current,    \* the record it merges
  written,    \* versions it has written and not committed
  failed,     \* records of that file that failed
  skipped,    \* records of that file it has skipped
  trouble,    \* failures so far
  disturbed   \* history: files claimed again after thirty minutes, and files
              \* whose commit was not acknowledged

lakeVars == <<newest, landed, lake>>
run    == <<pc, batch, file, todo, current, written, failed, skipped>>
vars   == <<lakeVars, row, table, run, trouble, disturbed>>

Files   == 1..MaxFiles
NoFile  == 0

\* sync_token of a SOS record and updated_at of an Acenda record; 0: there is no
\* such record.  What the warehouses send has no version: here they are numbered
\* in the order of their arrival.
Version == 0..MaxVersion

Status == {"LANDED", "PROCESSING", "LOADED", "PARTIAL", "FAILED", "SKIPPED",
           "EMPTY"}

\* A file's records, those that cannot be mapped, and whether it can be read.
LakeFile == [versions : [Records -> Version], bad : SUBSET Records,
             corrupt : BOOLEAN]

\* stale: claimed_at is more than thirty minutes ago.  errors: the records that
\* last_error names, were it not cut at 5000 characters.
DataLakeFile == [status : Status, stale : BOOLEAN, errors : SUBSET Records]

Nothing == [r \in Records |-> 0]
Holds(f) == {r \in Records : lake[f].versions[r] # 0}

\* EXECUTABLE_LAKE_FILE_STATUSES; the claim of the SOS loader leaves PARTIAL out.
Retryable == IF Kind = "sos" THEN {"LANDED", "FAILED"}
                             ELSE {"LANDED", "FAILED", "PARTIAL"}
Done      == Status \ (Retryable \cup {"PROCESSING"})

Init ==
  /\ newest = Nothing
  /\ landed = 0
  /\ lake = [f \in Files |->
               [versions |-> Nothing, bad |-> {}, corrupt |-> FALSE]]
  /\ row = [f \in Files |->
              [status |-> "LANDED", stale |-> FALSE, errors |-> {}]]
  /\ table = Nothing
  /\ pc = [l \in Loaders |-> "idle"]
  /\ batch = [l \in Loaders |-> {}]
  /\ file = [l \in Loaders |-> NoFile]
  /\ todo = [l \in Loaders |-> {}]
  /\ current = [l \in Loaders |-> NoRecord]
  /\ written = [l \in Loaders |-> Nothing]
  /\ failed = [l \in Loaders |-> {}]
  /\ skipped = [l \in Loaders |-> {}]
  /\ trouble = 0
  /\ disturbed = {}

-----------------------------------------------------------------------------
(* Where files come from *)

\* A file that keeps coming back however often it is tried.
Faulty(f) == lake[f].corrupt \/ lake[f].bad # {}

\* An ingestion job or a webhook writes records, if there are any, to a file and
\* inserts its row.  Pages of SOS and Acenda may land late, and hold any version.
Land ==
  /\ landed < MaxFiles
  /\ landed' = landed + 1
  /\ \E v \in [Records -> Version], B \in SUBSET Records, c \in BOOLEAN :
       /\ v # Nothing
       /\ \A r \in B : v[r] # 0
       /\ Kind = "warehouse" =>
            \A r \in Records : v[r] \in {0, newest[r], newest[r] + 1}
       /\ newest' = [r \in Records |-> IF v[r] > newest[r] THEN v[r] ELSE newest[r]]
       /\ lake' = [lake EXCEPT ![landed + 1] = [versions |-> v, bad |-> B, corrupt |-> c]]
       /\ c => B = {}
       /\ (c \/ B # {}) => Cardinality({f \in 1..landed : Faulty(f)}) < MaxFaulty
  /\ UNCHANGED <<row, table, run, trouble, disturbed>>

Holding(l) == batch[l] \cup ({file[l]} \ {NoFile})

Trouble == /\ trouble < MaxTrouble
           /\ trouble' = trouble + 1

\* Thirty minutes pass after a claim: its run has died, or is slow.
Expire(f) ==
  /\ row[f].status = "PROCESSING"
  /\ ~row[f].stale
  /\ IF \E l \in Loaders : f \in Holding(l) THEN Trouble ELSE UNCHANGED trouble
  /\ row' = [row EXCEPT ![f].stale = TRUE]
  /\ UNCHANGED <<lakeVars, table, run, disturbed>>

-----------------------------------------------------------------------------
(* claim_lake_files *)

\* Mutants of Eligible: an expired claim is not taken over; a claim never binds.
EligibleUnclaimed == {f \in 1..landed : row[f].status \in Retryable}
EligibleClaimed   == {f \in 1..landed : row[f].status \in Retryable \cup {"PROCESSING"}}

Eligible == {f \in 1..landed : \/ row[f].status \in Retryable
                               \/ row[f].status = "PROCESSING" /\ row[f].stale}

\* order_by(id).limit(limit)
Oldest(S) == {f \in S : Cardinality({g \in S : g < f}) < Limit}

\* One transaction; rows that another claim has locked are skipped.
Claim(l) ==
  LET picked == Oldest(Eligible) IN
  /\ pc[l] = "idle"
  /\ picked # {}
  /\ pc' = [pc EXCEPT ![l] = "next"]
  /\ batch' = [batch EXCEPT ![l] = picked]
  /\ row' = [f \in Files |->
               IF f \in picked
               THEN [row[f] EXCEPT !.status = "PROCESSING", !.stale = FALSE]
               ELSE row[f]]
  /\ disturbed' = disturbed \cup {f \in picked : row[f].status = "PROCESSING" /\ row[f].stale}
  /\ UNCHANGED <<lakeVars, table, file, todo, current, written, failed, skipped,
                 trouble>>

-----------------------------------------------------------------------------
(* One file *)

\* Files are opened in the order of their ids.  A file that cannot be read, or
\* whose metadata does not fit, raises.
Open(l) ==
  /\ pc[l] = "next"
  /\ \E f \in batch[l] :
       /\ \A g \in batch[l] : f <= g
       /\ file' = [file EXCEPT ![l] = f]
       /\ batch' = [batch EXCEPT ![l] = @ \ {f}]
       /\ pc' = [pc EXCEPT ![l] = IF lake[f].corrupt THEN "failing" ELSE "loading"]
       /\ todo' = [todo EXCEPT ![l] = Holds(f)]
  /\ UNCHANGED <<lakeVars, row, table, current, written, failed, skipped, trouble,
                 disturbed>>

Incoming(l, r) == lake[file[l]].versions[r]

\* What the loader's transaction sees of a record.
Seen(l, r) == IF written[l][r] # 0 THEN written[l][r] ELSE table[r]

\* Mutant of Skips: records are skipped only when they are equal.
SkipsEqual(existing, incoming) == Kind # "warehouse" /\ incoming = existing

\* The version guards of load_sos_records and load_acenda_records;
\* load_shipment_records has none.
Skips(existing, incoming) ==
  /\ existing # 0
  /\ \/ Kind = "sos" /\ incoming <= existing
     \/ Kind = "acenda" /\ incoming < existing

\* A record that cannot be mapped.
MapFails(l, r) ==
  /\ pc[l] = "loading"
  /\ r \in todo[l] \cap lake[file[l]].bad
  /\ todo' = [todo EXCEPT ![l] = @ \ {r}]
  /\ failed' = [failed EXCEPT ![l] = @ \cup {r}]
  /\ UNCHANGED <<lakeVars, row, table, pc, batch, file, current, written, skipped,
                 trouble, disturbed>>

\* The existing version is read ...
Check(l, r) ==
  /\ pc[l] = "loading"
  /\ r \in todo[l] \ lake[file[l]].bad
  /\ \/ /\ Skips(Seen(l, r), Incoming(l, r))
        /\ todo' = [todo EXCEPT ![l] = @ \ {r}]
        /\ skipped' = [skipped EXCEPT ![l] = @ \cup {r}]
        /\ UNCHANGED <<pc, current>>
     \/ /\ ~Skips(Seen(l, r), Incoming(l, r))
        /\ pc' = [pc EXCEPT ![l] = "merging"]
        /\ current' = [current EXCEPT ![l] = r]
        /\ UNCHANGED <<todo, skipped>>
  /\ UNCHANGED <<lakeVars, row, table, batch, file, written, failed, trouble,
                 disturbed>>

LeaveRecord(l) ==
  /\ pc' = [pc EXCEPT ![l] = "loading"]
  /\ todo' = [todo EXCEPT ![l] = @ \ {current[l]}]
  /\ current' = [current EXCEPT ![l] = NoRecord]

Locked(l, r) == \E o \in Loaders \ {l} : written[o][r] # 0

\* ... and the record merged, after waiting for a transaction that has the row.
Merge(l) ==
  LET r == current[l] IN
  /\ pc[l] = "merging"
  /\ ~Locked(l, r)
  /\ written' = [written EXCEPT ![l][r] = Incoming(l, r)]
  /\ LeaveRecord(l)
  /\ UNCHANGED <<lakeVars, row, table, batch, file, failed, skipped, trouble,
                 disturbed>>

\* A statement fails, be it for a deadlock with another run, and the savepoint of
\* the record is rolled back.
RecordFails(l) ==
  /\ pc[l] = "merging"
  /\ Trouble
  /\ failed' = [failed EXCEPT ![l] = @ \cup {current[l]}]
  /\ LeaveRecord(l)
  /\ UNCHANGED <<lakeVars, row, table, batch, file, written, skipped, disturbed>>

-----------------------------------------------------------------------------
(* The outcome of a file *)

Outcome(l) ==
  CASE Holds(file[l]) = {}                         -> "EMPTY"
    [] Holds(file[l]) # {} /\ failed[l] = Holds(file[l])  -> "FAILED"
    [] Holds(file[l]) # {} /\ skipped[l] = Holds(file[l]) -> "SKIPPED"
    [] OTHER -> IF failed[l] \cup skipped[l] # {} THEN "PARTIAL" ELSE "LOADED"

\* last_error: a file without failed records clears it, but for the Acenda and
\* warehouse loaders when it skipped some.
LastError(l) ==
  IF failed[l] = {} /\ skipped[l] # {} /\ Kind # "sos"
  THEN row[file[l]].errors ELSE failed[l]

\* The run goes on with its next file, or ends.
NextFile(l) ==
  /\ pc' = [pc EXCEPT ![l] = IF batch[l] = {} THEN "idle" ELSE "next"]
  /\ file' = [file EXCEPT ![l] = NoFile]

\* Mutant of Rollback: the records a file has skipped are counted with the next.
RollbackCounting(l) ==
  /\ written' = [written EXCEPT ![l] = Nothing]
  /\ todo' = [todo EXCEPT ![l] = {}]
  /\ failed' = [failed EXCEPT ![l] = {}]
  /\ current' = [current EXCEPT ![l] = NoRecord]
  /\ UNCHANGED skipped

Rollback(l) ==
  /\ written' = [written EXCEPT ![l] = Nothing]
  /\ todo' = [todo EXCEPT ![l] = {}]
  /\ failed' = [failed EXCEPT ![l] = {}]
  /\ skipped' = [skipped EXCEPT ![l] = {}]
  /\ current' = [current EXCEPT ![l] = NoRecord]

\* The records and the outcome are committed together, whoever has the claim by
\* now.
Commit(l) ==
  /\ pc[l] = "loading"
  /\ todo[l] = {}
  /\ table' = [r \in Records |-> Seen(l, r)]
  /\ row' = [row EXCEPT ![file[l]].status = Outcome(l),
                        ![file[l]].errors = LastError(l)]
  /\ Rollback(l)

Complete(l) ==
  /\ Commit(l)
  /\ NextFile(l)
  /\ UNCHANGED <<lakeVars, batch, trouble, disturbed>>

\* The commit takes effect and raises all the same.
CompleteUnheard(l) ==
  /\ Commit(l)
  /\ Trouble
  /\ pc' = [pc EXCEPT ![l] = "failing"]
  /\ disturbed' = disturbed \cup {file[l]}
  /\ UNCHANGED <<lakeVars, batch, file>>

\* Mutant of FileFails: what was written so far is committed.
FileFailsKeeping(l) ==
  /\ pc[l] \in {"loading", "merging"}
  /\ Trouble
  /\ table' = [r \in Records |-> Seen(l, r)]
  /\ row' = [row EXCEPT ![file[l]].status = Outcome(l)]
  /\ Rollback(l)
  /\ pc' = [pc EXCEPT ![l] = "failing"]
  /\ UNCHANGED <<lakeVars, batch, file, disturbed>>

\* Anything else raises: the transaction is rolled back ...
FileFails(l) ==
  /\ pc[l] \in {"loading", "merging"}
  /\ Trouble
  /\ Rollback(l)
  /\ pc' = [pc EXCEPT ![l] = "failing"]
  /\ UNCHANGED <<lakeVars, row, table, batch, file, disturbed>>

\* ... and the row marked in another one.
MarkFailed(l) ==
  /\ pc[l] = "failing"
  /\ row' = [row EXCEPT ![file[l]].status = "FAILED", ![file[l]].errors = {}]
  /\ todo' = [todo EXCEPT ![l] = {}]
  /\ NextFile(l)
  /\ UNCHANGED <<lakeVars, table, batch, current, written, failed, skipped, trouble,
                 disturbed>>

\* The process stops, or the row cannot be marked and the job raises: the rest
\* of the batch stays claimed.
Crash(l) ==
  /\ pc[l] # "idle"
  /\ Trouble
  /\ Rollback(l)
  /\ pc' = [pc EXCEPT ![l] = "idle"]
  /\ batch' = [batch EXCEPT ![l] = {}]
  /\ file' = [file EXCEPT ![l] = NoFile]
  /\ UNCHANGED <<lakeVars, row, table, disturbed>>

-----------------------------------------------------------------------------
\* What a run does when nothing fails but what must.
Load(l) ==
  \/ Claim(l) \/ Open(l) \/ Merge(l) \/ Complete(l) \/ MarkFailed(l)
  \/ \E r \in Records : MapFails(l, r) \/ Check(l, r)

Interrupt(l) == RecordFails(l) \/ CompleteUnheard(l) \/ FileFails(l) \/ Crash(l)

Environment == \/ Land
               \/ \E f \in Files : Expire(f)

Next == (\E l \in Loaders : Load(l) \/ Interrupt(l)) \/ Environment

Spec == Init /\ [][Next]_vars

\* The scheduler starts the job again and again, a run that is not stopped goes
\* on, and time passes.
Fairness == /\ \A l \in Loaders : WF_vars(Load(l))
            /\ \A f \in Files : WF_vars(Expire(f))

FairSpec == Spec /\ Fairness

-----------------------------------------------------------------------------
TypeOK ==
  /\ newest \in [Records -> Version]
  /\ landed \in 0..MaxFiles
  /\ lake \in [Files -> LakeFile]
  /\ row \in [Files -> DataLakeFile]
  /\ table \in [Records -> Version]
  /\ pc \in [Loaders -> {"idle", "next", "loading", "merging", "failing"}]
  /\ batch \in [Loaders -> SUBSET Files]
  /\ file \in [Loaders -> Files \cup {NoFile}]
  /\ todo \in [Loaders -> SUBSET Records]
  /\ current \in [Loaders -> Records \cup {NoRecord}]
  /\ written \in [Loaders -> [Records -> Version]]
  /\ failed \in [Loaders -> SUBSET Records]
  /\ skipped \in [Loaders -> SUBSET Records]
  /\ trouble \in 0..MaxTrouble
  /\ disturbed \subseteq Files

\* A file that is done, or is not taken again, has its records in the table, in
\* its version or a newer one, but for those its last_error names: neither a
\* retry, nor a crash, nor a newer file makes a loaded record disappear.
DoneIsApplied ==
  \A f \in Files, r \in Records :
    /\ row[f].status \in {"LOADED", "SKIPPED", "PARTIAL"}
    /\ r \in Holds(f) \ row[f].errors
    => table[r] >= lake[f].versions[r]

-----------------------------------------------------------------------------
(* The inductive invariant, for one loader with a version guard *)

\* Rows only change once their file has landed.
LandedInv == \A f \in Files : f > landed => row[f].status = "LANDED"

Loading(l) == pc[l] \in {"loading", "merging"}

\* A run knows landed files only, and has nothing left of earlier ones.
RunInv ==
  \A l \in Loaders :
    /\ batch[l] \subseteq 1..landed
    /\ pc[l] \in {"loading", "merging", "failing"} => file[l] \in 1..landed
    /\ ~Loading(l) => /\ written[l] = Nothing
                      /\ failed[l] = {}
                      /\ skipped[l] = {}

\* What a run has written is from its file and newer than the table; what it has
\* dealt with and not put down as failed is in its transaction's view.
LoadInv ==
  \A l \in Loaders : Loading(l) =>
    \A r \in Records :
      /\ written[l][r] # 0 => /\ written[l][r] = Incoming(l, r)
                              /\ r \notin todo[l]
      /\ Seen(l, r) >= table[r]
      /\ r \in Holds(file[l]) \ (todo[l] \cup failed[l])
           => Seen(l, r) >= Incoming(l, r)
      /\ r \in todo[l] \cup failed[l] \cup skipped[l] => r \in Holds(file[l])

MergeInv ==
  \A l \in Loaders : pc[l] = "merging" =>
    /\ current[l] \in todo[l]
    /\ ~Skips(table[current[l]], Incoming(l, current[l]))

IInv == TypeOK /\ LandedInv /\ RunInv /\ LoadInv /\ MergeInv /\ DoneIsApplied

-----------------------------------------------------------------------------
(* The inductive invariant, for one loader without a version guard *)

\* Nothing has failed, nor will fail for what a landed file holds.
Calm == trouble = 0 /\ \A f \in 1..landed : ~Faulty(f)

Pending(f) == row[f].status \in {"LANDED", "PROCESSING"}

\* Files land with ever newer versions, and the table has nothing newer than what
\* is still to be loaded ...
ArrivalOK ==
  \A r \in Records :
    /\ table[r] <= newest[r]
    /\ \A f \in 1..landed : r \in Holds(f) =>
         /\ lake[f].versions[r] <= newest[r]
         /\ Pending(f) => table[r] <= lake[f].versions[r]
         /\ \A g \in 1..landed :
              g < f /\ r \in Holds(g) => lake[g].versions[r] <= lake[f].versions[r]

\* ... of which a run has the oldest in hand, and opens them in their order ...
OrderOK ==
  /\ \A f \in 1..landed :
       /\ Pending(f) \/ row[f].status \in {"LOADED", "EMPTY"}
       /\ row[f].status = "PROCESSING" => \E l \in Loaders : f \in Holding(l)
  /\ \A l \in Loaders :
       /\ \A f \in Holding(l) :
            /\ f \in 1..landed
            /\ row[f].status = "PROCESSING" /\ ~row[f].stale
            /\ \A g \in 1..landed : g < f /\ Pending(g) => g \in Holding(l)
       /\ \A f \in batch[l] : file[l] < f

\* ... and writes nothing but what its file holds.
WrittenOK ==
  \A l \in Loaders :
    /\ pc[l] # "failing" /\ failed[l] = {} /\ skipped[l] = {}
    /\ \A r \in Records : written[l][r] # 0 =>
         Loading(l) /\ written[l][r] = Incoming(l, r)

InOrder == Calm => LandedInv /\ ArrivalOK /\ OrderOK /\ WrittenOK

-----------------------------------------------------------------------------
(* Properties *)

\* The table never goes back to an older version of a record, in whatever order
\* files are loaded, retried and reclaimed.
MovesForward == [][\A r \in Records : table'[r] >= table[r]]_vars

\* Nor do the warehouses' loaders, which compare no versions, take a record back
\* as long as one runs at a time and nothing fails: they load files in the order in
\* which they landed.  A retry, a reclaim or a file that fails for good ends that.
OlderOnlyAfterTrouble ==
  [][Calm => \A r \in Records : table[r] <= table'[r]]_vars

\* Two runs work on one file only after thirty minutes, or a commit that was not
\* acknowledged, although no run checks its claim again.
HeldByOne ==
  \A l, o \in Loaders : l # o => Holding(l) \cap Holding(o) \subseteq disturbed

\* For the same reason, a file that is done stays done.
DoneStays ==
  [][\A f \in Files : row[f].status \in Done =>
       row'[f].status \in Done \/ f \in disturbed]_vars

\* Every file that can be loaded is, as long as fewer files than a run claims keep
\* coming back: those that do are tried first, for ever.  Not so for the Acenda
\* loader, which claims files with overtaken records again and again.
EveryFileEnds ==
  \A f \in Files : (f <= landed /\ ~Faulty(f)) ~> (row[f].status \in Done)

\* "LOADED      successfully loaded to DB" (data_lake_models.py).
LoadedIsInTable ==
  \A f \in Files, r \in Records :
    row[f].status = "LOADED" /\ r \in Holds(f) => table[r] >= lake[f].versions[r]
=============================================================================
