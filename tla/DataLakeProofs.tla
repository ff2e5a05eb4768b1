--------------------------- MODULE DataLakeProofs ---------------------------
(***************************************************************************)
(* Proofs about DataLake, for any number of records, files, versions and   *)
(* failures: what a loader with a version guard that runs one at a time    *)
(* does to the table, who holds a file, and what a loader without a guard  *)
(* does while nothing fails.                                               *)
(***************************************************************************)
EXTENDS DataLake, FiniteSetTheorems, TLAPS

\* SOS and Acenda are loaded by the worker alone, whose jobs do not overlap
\* (max_instances=1).
OneLoader == \A l, o \in Loaders : l = o
Guarded   == Kind # "warehouse"

USE ConstantsAssumption DEF Files, Version, Status, NoFile

\* The initial states satisfy the invariant.
LEMMA InitIInv == Init => IInv
<1> SUFFICES ASSUME Init PROVE IInv
  OBVIOUS
<1>1. Nothing \in [Records -> Version]
  BY DEF Nothing
<1>2. TypeOK
  BY <1>1 DEF Init, TypeOK, LakeFile, DataLakeFile
<1>3. LandedInv /\ RunInv /\ LoadInv /\ MergeInv
  BY DEF Init, LandedInv, RunInv, LoadInv, MergeInv, Loading
<1>4. DoneIsApplied
  BY DEF Init, DoneIsApplied
<1> QED BY <1>2, <1>3, <1>4 DEF IInv

\* A claim grows old.
LEMMA ExpireStep ==
  ASSUME IInv, NEW f \in Files, Expire(f)
  PROVE  IInv'
<1>1. TypeOK'
  <2>1. row[f] \in DataLakeFile
    BY DEF IInv, TypeOK
  <2>2. [row[f] EXCEPT !.stale = TRUE] \in DataLakeFile
    BY <2>1 DEF DataLakeFile
  <2>3. row' \in [Files -> DataLakeFile]
    BY <2>2 DEF Expire, IInv, TypeOK
  <2>4. trouble' \in 0..MaxTrouble
    BY DEF Expire, Trouble, IInv, TypeOK
  <2> QED BY <2>3, <2>4 DEF Expire, IInv, TypeOK, run, lakeVars
<1>2. \A g \in Files : /\ row'[g].status = row[g].status
                       /\ row'[g].errors = row[g].errors
  BY DEF Expire, IInv, TypeOK, DataLakeFile
<1>3. LandedInv' /\ RunInv' /\ DoneIsApplied'
  BY <1>2 DEF Expire, IInv, LandedInv, RunInv, DoneIsApplied, Loading, run, lakeVars,
              Holds
<1>4. LoadInv' /\ MergeInv'
  BY DEF Expire, IInv, LoadInv, MergeInv, Loading, run, lakeVars, Holds, Seen,
         Incoming, Skips
<1> QED BY <1>1, <1>3, <1>4 DEF IInv

\* A file lands behind all files that a run or a row knows of.
LEMMA LandStep ==
  ASSUME IInv, Land
  PROVE  IInv'
<1>1. TypeOK'
  <2>1. PICK v \in [Records -> Version], B \in SUBSET Records, c \in BOOLEAN :
          /\ newest' = [r \in Records |-> IF v[r] > newest[r] THEN v[r] ELSE newest[r]]
          /\ lake' = [lake EXCEPT ![landed + 1] = [versions |-> v, bad |-> B, corrupt |-> c]]
    BY DEF Land
  <2>2. newest' \in [Records -> Version]
    BY <2>1 DEF IInv, TypeOK
  <2>3. [versions |-> v, bad |-> B, corrupt |-> c] \in LakeFile
    BY DEF LakeFile
  <2>4. lake' \in [Files -> LakeFile]
    BY <2>1, <2>3 DEF IInv, TypeOK
  <2> QED BY <2>2, <2>4 DEF Land, IInv, TypeOK, run
<1>2. \A f \in 1..landed : lake'[f] = lake[f]
  BY DEF Land, IInv, TypeOK
<1>3. LandedInv' /\ RunInv'
  <2>1. landed' = landed + 1 /\ landed \in Nat /\ UNCHANGED <<row, run>>
    BY DEF Land, IInv, TypeOK
  <2> QED BY <2>1 DEF IInv, LandedInv, RunInv, Loading, run
<1>4. DoneIsApplied'
  <2>1. SUFFICES ASSUME NEW f \in Files, NEW r \in Records,
                        row[f].status \in {"LOADED", "SKIPPED", "PARTIAL"},
                        r \in Holds(f)' \ row[f].errors
                 PROVE  table[r] >= lake'[f].versions[r]
    BY DEF Land, DoneIsApplied
  <2>2. f \in 1..landed
    <3>1. row[f].status # "LANDED"
      BY <2>1
    <3> QED BY <3>1 DEF IInv, TypeOK, LandedInv
  <2>3. lake'[f] = lake[f] /\ r \in Holds(f)
    BY <1>2, <2>1, <2>2 DEF Holds
  <2> QED BY <2>1, <2>3 DEF IInv, DoneIsApplied
<1>5. \A l \in Loaders : Loading(l) => file[l] \in 1..landed
  BY DEF IInv, RunInv, Loading
<1>6. LoadInv' /\ MergeInv'
  BY <1>2, <1>5 DEF Land, IInv, LoadInv, MergeInv, Loading, run, Holds, Seen,
                    Incoming, Skips
<1> QED BY <1>1, <1>3, <1>4, <1>6 DEF IInv

\* A run claims files.
LEMMA ClaimStep ==
  ASSUME OneLoader, IInv, NEW l \in Loaders, Claim(l)
  PROVE  IInv'
<1> DEFINE picked == Oldest(Eligible)
<1>1. picked \subseteq 1..landed
  BY DEF Oldest, Eligible
<1>2. \A f \in Files : /\ row'[f].errors = row[f].errors
                       /\ row'[f].status = IF f \in picked THEN "PROCESSING"
                                                           ELSE row[f].status
  <2>1. TAKE f \in Files
  <2>2. row[f] \in DataLakeFile
    BY DEF IInv, TypeOK
  <2> QED BY <2>2 DEF Claim, DataLakeFile
<1>3. TypeOK'
  <2>1. row' \in [Files -> DataLakeFile]
    <3>1. SUFFICES ASSUME NEW f \in Files PROVE row'[f] \in DataLakeFile
      BY DEF Claim
    <3>2. row[f] \in DataLakeFile
      BY DEF IInv, TypeOK
    <3> QED BY <3>2 DEF Claim, DataLakeFile
  <2>2. picked \subseteq Files
    BY <1>1 DEF IInv, TypeOK
  <2> QED BY <2>1, <2>2 DEF Claim, IInv, TypeOK, lakeVars
<1> HIDE DEF picked
<1>4. LandedInv'
  <2>1. landed' = landed
    BY DEF Claim, lakeVars
  <2>2. \A f \in Files : f > landed => f \notin picked
    BY <1>1 DEF IInv, TypeOK
  <2> QED BY <1>2, <2>1, <2>2 DEF IInv, LandedInv
<1>5. RunInv'
  <2>1. \A o \in Loaders : batch'[o] \subseteq 1..landed
    BY <1>1 DEF Claim, IInv, TypeOK, RunInv, picked
  <2>2. pc[l] = "idle" /\ pc' = [pc EXCEPT ![l] = "next"]
        /\ UNCHANGED <<landed, file, written, failed, skipped>>
    BY DEF Claim, lakeVars
  <2> QED BY <2>1, <2>2 DEF IInv, TypeOK, RunInv, Loading
<1>6. DoneIsApplied'
  <2>1. UNCHANGED <<lake, table>>
    BY DEF Claim, lakeVars
  <2> QED BY <1>2, <2>1 DEF IInv, DoneIsApplied, Holds
<1>7. LoadInv' /\ MergeInv'
  <2>1. pc'[l] = "next"
    BY DEF Claim, IInv, TypeOK
  <2>2. \A o \in Loaders : ~Loading(o)'
    BY <2>1 DEF OneLoader, Loading
  <2> QED BY <2>2 DEF LoadInv, MergeInv, Loading
<1> QED BY <1>3, <1>4, <1>5, <1>6, <1>7 DEF IInv

\* A run opens a file it has claimed.
LEMMA OpenStep ==
  ASSUME OneLoader, IInv, NEW l \in Loaders, Open(l)
  PROVE  IInv'
<1>1. PICK f \in batch[l] :
        /\ file' = [file EXCEPT ![l] = f]
        /\ batch' = [batch EXCEPT ![l] = @ \ {f}]
        /\ pc' = [pc EXCEPT ![l] = IF lake[f].corrupt THEN "failing" ELSE "loading"]
        /\ todo' = [todo EXCEPT ![l] = Holds(f)]
  BY DEF Open
<1>2. f \in 1..landed /\ f \in Files
  BY <1>1 DEF IInv, TypeOK, RunInv
<1>3. Holds(f) \subseteq Records
  BY DEF Holds
<1>4. TypeOK'
  BY <1>1, <1>2, <1>3 DEF Open, IInv, TypeOK, lakeVars
<1>5. LandedInv' /\ DoneIsApplied'
  BY DEF Open, IInv, LandedInv, DoneIsApplied, Holds, lakeVars
<1>6. written[l] = Nothing /\ failed[l] = {} /\ skipped[l] = {}
  BY DEF Open, IInv, RunInv, Loading
<1>7. RunInv'
  BY <1>1, <1>2, <1>6 DEF Open, OneLoader, IInv, TypeOK, RunInv, Loading, lakeVars
<1>8. file'[l] = f /\ todo'[l] = Holds(f) /\ pc'[l] # "merging"
  BY <1>1 DEF Open, IInv, TypeOK
<1>9. LoadInv'
  BY <1>6, <1>8 DEF Open, OneLoader, IInv, TypeOK, LoadInv, Loading, Holds, Seen,
                    Incoming, Nothing, lakeVars
<1>10. MergeInv'
  BY <1>8 DEF OneLoader, MergeInv
<1> QED BY <1>4, <1>5, <1>7, <1>9, <1>10 DEF IInv

\* A step that only the run's progress through one file shows in: LoadInv and
\* MergeInv are left to prove.
LEMMA WithinFile ==
  ASSUME OneLoader, IInv, NEW l \in Loaders, Loading(l), Loading(l)',
         UNCHANGED <<lakeVars, row, table, batch, file, disturbed>>,
         LoadInv', MergeInv', TypeOK'
  PROVE  IInv'
<1>1. LandedInv' /\ DoneIsApplied'
  BY DEF IInv, LandedInv, DoneIsApplied, Holds, lakeVars
<1>2. RunInv'
  BY DEF OneLoader, IInv, RunInv, Loading, lakeVars
<1> QED BY <1>1, <1>2 DEF IInv

\* A record cannot be mapped.
LEMMA MapFailsStep ==
  ASSUME OneLoader, IInv, NEW l \in Loaders, NEW r \in Records, MapFails(l, r)
  PROVE  IInv'
<1>1. TypeOK'
  BY DEF MapFails, IInv, TypeOK, lakeVars
<1>2. /\ Loading(l) /\ Loading(l)' /\ pc'[l] = "loading"
      /\ todo'[l] = todo[l] \ {r}
      /\ failed'[l] = failed[l] \cup {r}
      /\ r \in todo[l]
      /\ UNCHANGED <<lake, file, written, skipped, table>>
  BY DEF MapFails, IInv, TypeOK, Loading, lakeVars
<1>3. LoadInv'
  BY <1>2 DEF OneLoader, IInv, LoadInv, Holds, Seen, Incoming
<1>4. MergeInv'
  BY <1>2 DEF OneLoader, MergeInv
<1> QED BY <1>1, <1>2, <1>3, <1>4, WithinFile DEF MapFails

\* A record is skipped, or chosen to be merged.
LEMMA CheckStep ==
  ASSUME OneLoader, Guarded, IInv, NEW l \in Loaders, NEW r \in Records, Check(l, r)
  PROVE  IInv'
<1>1. /\ pc[l] = "loading" /\ r \in todo[l] /\ Loading(l)
      /\ UNCHANGED <<lake, file, written, failed, table>>
  BY DEF Check, Loading, lakeVars
<1>2. written[l][r] = 0 /\ Seen(l, r) = table[r] /\ r \in Holds(file[l])
  BY <1>1 DEF IInv, LoadInv, Seen
<1>3. file[l] \in Files /\ table[r] \in Nat /\ Incoming(l, r) \in Nat
  BY <1>1 DEF IInv, TypeOK, RunInv, LakeFile, Incoming
<1>4. CASE Skips(Seen(l, r), Incoming(l, r)) /\ pc' = pc
  <2>1. /\ todo' = [todo EXCEPT ![l] = @ \ {r}]
        /\ skipped' = [skipped EXCEPT ![l] = @ \cup {r}]
        /\ current' = current
    BY <1>4 DEF Check, IInv, TypeOK
  <2>2. TypeOK'
    BY <1>1, <1>4, <2>1 DEF Check, IInv, TypeOK, lakeVars
  <2>3. todo'[l] = todo[l] \ {r} /\ skipped'[l] = skipped[l] \cup {r}
    BY <2>1 DEF IInv, TypeOK
  <2>4. Seen(l, r) >= Incoming(l, r)
    BY <1>2, <1>3, <1>4 DEF Skips
  <2>5. LoadInv'
    BY <1>1, <1>2, <1>4, <2>3, <2>4
       DEF OneLoader, IInv, LoadInv, Loading, Holds, Seen, Incoming
  <2>6. MergeInv'
    BY <1>1, <1>4 DEF OneLoader, MergeInv
  <2>7. Loading(l)'
    BY <1>1, <1>4 DEF Loading
  <2> QED BY <1>1, <2>2, <2>5, <2>6, <2>7, WithinFile DEF Check
<1>5. CASE ~Skips(Seen(l, r), Incoming(l, r))
  <2>1. /\ pc' = [pc EXCEPT ![l] = "merging"]
        /\ current' = [current EXCEPT ![l] = r]
        /\ UNCHANGED <<todo, skipped>>
    BY <1>5 DEF Check
  <2>2. TypeOK'
    BY <1>1, <2>1 DEF Check, IInv, TypeOK, lakeVars
  <2>3. pc'[l] = "merging" /\ current'[l] = r /\ Loading(l)'
    BY <2>1 DEF IInv, TypeOK, Loading
  <2>4. LoadInv'
    BY <1>1, <2>1 DEF OneLoader, IInv, LoadInv, Loading, Holds, Seen, Incoming
  <2>5. MergeInv'
    BY <1>1, <1>2, <1>5, <2>1, <2>3
       DEF OneLoader, MergeInv, Incoming, Skips
  <2> QED BY <1>1, <2>2, <2>3, <2>4, <2>5, WithinFile DEF Check
<1> QED BY <1>4, <1>5 DEF Check

\* What LeaveRecord does.
LEMMA LeaveRecordEffect ==
  ASSUME TypeOK, NEW l \in Loaders, LeaveRecord(l)
  PROVE  /\ pc' \in [Loaders -> {"idle", "next", "loading", "merging", "failing"}]
         /\ todo' \in [Loaders -> SUBSET Records]
         /\ current' \in [Loaders -> Records \cup {NoRecord}]
         /\ pc'[l] = "loading"
         /\ todo'[l] = todo[l] \ {current[l]}
BY DEF LeaveRecord, TypeOK

\* The chosen record is merged.
LEMMA MergeStep ==
  ASSUME OneLoader, Guarded, IInv, NEW l \in Loaders, Merge(l)
  PROVE  IInv'
<1> DEFINE r == current[l]
           v == Incoming(l, current[l])
<1>1. /\ pc[l] = "merging" /\ Loading(l)
      /\ written' = [written EXCEPT ![l][r] = v]
      /\ LeaveRecord(l)
      /\ UNCHANGED <<lakeVars, row, table, batch, file, failed, skipped, trouble,
                     disturbed>>
  BY DEF Merge, Loading
<1>2. r \in todo[l] /\ r \in Records /\ ~Skips(table[r], v)
  BY <1>1 DEF IInv, TypeOK, MergeInv
<1>3. r \in Holds(file[l]) /\ file[l] \in Files
  BY <1>1, <1>2 DEF IInv, TypeOK, RunInv, LoadInv
<1>4. v \in Version /\ v # 0 /\ table[r] \in Version
  BY <1>2, <1>3 DEF IInv, TypeOK, LakeFile, Incoming, Holds
<1>5. v >= table[r]
  BY <1>2, <1>4 DEF Skips, Guarded
<1>6. /\ written'[l][r] = v
      /\ \A q \in Records : q # r => written'[l][q] = written[l][q]
      /\ written' \in [Loaders -> [Records -> Version]]
  BY <1>1, <1>2, <1>4 DEF IInv, TypeOK
<1>7. pc'[l] = "loading" /\ todo'[l] = todo[l] \ {r} /\ Loading(l)'
  BY <1>1, LeaveRecordEffect DEF IInv, Loading
<1>8. TypeOK'
  BY <1>1, <1>6, LeaveRecordEffect DEF IInv, TypeOK, lakeVars
<1>9. LoadInv'
  <2>1. SUFFICES ASSUME NEW q \in Records
        PROVE  /\ written'[l][q] # 0 => /\ written'[l][q] = Incoming(l, q)'
                                        /\ q \notin todo'[l]
               /\ Seen(l, q)' >= table'[q]
               /\ q \in Holds(file[l])' \ (todo'[l] \cup failed'[l])
                    => Seen(l, q)' >= Incoming(l, q)'
               /\ q \in todo'[l] \cup failed'[l] \cup skipped'[l]
                    => q \in Holds(file[l])'
    BY <1>1 DEF OneLoader, LoadInv
  <2>2. UNCHANGED <<lake, file, table, failed, skipped>>
    BY <1>1 DEF lakeVars
  <2>3. CASE q = r
    BY <1>3, <1>4, <1>5, <1>6, <1>7, <2>2, <2>3 DEF Seen, Incoming, Holds
  <2>4. CASE q # r
    BY <1>1, <1>6, <1>7, <2>2, <2>4 DEF IInv, LoadInv, Seen, Incoming, Holds
  <2> QED BY <2>3, <2>4
<1>10. MergeInv'
  BY <1>7 DEF OneLoader, MergeInv
<1> QED BY <1>1, <1>7, <1>8, <1>9, <1>10, WithinFile

\* The chosen record fails.
LEMMA RecordFailsStep ==
  ASSUME OneLoader, IInv, NEW l \in Loaders, RecordFails(l)
  PROVE  IInv'
<1>1. /\ pc[l] = "merging" /\ Loading(l)
      /\ failed' = [failed EXCEPT ![l] = @ \cup {current[l]}]
      /\ LeaveRecord(l)
      /\ UNCHANGED <<lakeVars, row, table, batch, file, written, skipped, disturbed>>
  BY DEF RecordFails, Loading
<1>2. current[l] \in todo[l] /\ current[l] \in Records
  BY <1>1 DEF IInv, TypeOK, MergeInv
<1>3. pc'[l] = "loading" /\ todo'[l] = todo[l] \ {current[l]} /\ Loading(l)'
  BY <1>1, LeaveRecordEffect DEF IInv, Loading
<1>4. trouble' \in 0..MaxTrouble
  BY DEF RecordFails, Trouble, IInv, TypeOK
<1>5. TypeOK'
  BY <1>1, <1>2, <1>4, LeaveRecordEffect DEF IInv, TypeOK, lakeVars
<1>6. failed'[l] = failed[l] \cup {current[l]}
  BY <1>1 DEF IInv, TypeOK
<1>7. LoadInv'
  BY <1>1, <1>2, <1>3, <1>6
     DEF OneLoader, IInv, LoadInv, Holds, Seen, Incoming, lakeVars
<1>8. MergeInv'
  BY <1>3 DEF OneLoader, MergeInv
<1> QED BY <1>1, <1>3, <1>5, <1>7, <1>8, WithinFile

\* What Rollback leaves.
LEMMA RollbackEffect ==
  ASSUME TypeOK, NEW l \in Loaders, Rollback(l)
  PROVE  /\ written' \in [Loaders -> [Records -> Version]]
         /\ todo' \in [Loaders -> SUBSET Records]
         /\ failed' \in [Loaders -> SUBSET Records]
         /\ skipped' \in [Loaders -> SUBSET Records]
         /\ current' \in [Loaders -> Records \cup {NoRecord}]
         /\ written'[l] = Nothing
         /\ failed'[l] = {}
         /\ skipped'[l] = {}
BY DEF Rollback, Nothing, TypeOK

\* A step after which a run is between two files, or about to mark one.
LEMMA OutsideFile ==
  ASSUME OneLoader, IInv, NEW l \in Loaders, ~Loading(l)',
         pc'[l] = "failing" => file'[l] = file[l] /\ file[l] \in 1..landed,
         batch'[l] \subseteq batch[l],
         written'[l] = Nothing, failed'[l] = {}, skipped'[l] = {},
         UNCHANGED lakeVars, TypeOK', LandedInv', DoneIsApplied'
  PROVE  IInv'
<1>1. RunInv'
  BY DEF OneLoader, IInv, RunInv, Loading, lakeVars
<1>2. LoadInv' /\ MergeInv'
  BY DEF OneLoader, LoadInv, MergeInv, Loading
<1> QED BY <1>1, <1>2 DEF IInv

\* The types of where a run goes next.
LEMMA NextFileEffect ==
  ASSUME TypeOK, NEW l \in Loaders, NextFile(l)
  PROVE  /\ pc' \in [Loaders -> {"idle", "next", "loading", "merging", "failing"}]
         /\ file' \in [Loaders -> Files \cup {NoFile}]
         /\ pc'[l] \in {"idle", "next"}
BY DEF NextFile, TypeOK

\* The outcome that is written to the row.
LEMMA OutcomeType == ASSUME NEW l \in Loaders PROVE Outcome(l) \in Status
BY DEF Outcome

\* What a commit does: the table takes the transaction's view, which is not
\* older, and the row names the records that failed.
LEMMA CommitEffect ==
  ASSUME IInv, NEW l \in Loaders, Commit(l), UNCHANGED lake, UNCHANGED landed
  PROVE  /\ table' \in [Records -> Version]
         /\ row' \in [Files -> DataLakeFile]
         /\ \A r \in Records : table'[r] >= table[r]
         /\ LandedInv'
         /\ DoneIsApplied'
<1>1. Loading(l) /\ todo[l] = {} /\ file[l] \in 1..landed /\ file[l] \in Files
  BY DEF Commit, Loading, IInv, TypeOK, RunInv
<1>2. \A r \in Records : /\ table'[r] = Seen(l, r)
                         /\ table'[r] \in Version
                         /\ table'[r] >= table[r]
  BY <1>1 DEF Commit, IInv, TypeOK, LoadInv, Seen
<1>3. table' \in [Records -> Version]
  BY <1>2 DEF Commit
<1>4. row[file[l]] \in DataLakeFile /\ LastError(l) \in SUBSET Records
  BY <1>1 DEF IInv, TypeOK, DataLakeFile, LastError
<1>5. [row[file[l]] EXCEPT !.status = Outcome(l), !.errors = LastError(l)]
        \in DataLakeFile
  BY <1>4, OutcomeType DEF DataLakeFile
<1>6. row' = [row EXCEPT ![file[l]] =
                [row[file[l]] EXCEPT !.status = Outcome(l), !.errors = LastError(l)]]
  BY DEF Commit
<1>7. row' \in [Files -> DataLakeFile]
  BY <1>5, <1>6 DEF IInv, TypeOK
<1>8. \A f \in Files : f # file[l] => row'[f] = row[f]
  BY <1>6 DEF IInv, TypeOK
<1>9. row'[file[l]].errors = LastError(l)
  BY <1>1, <1>4, <1>6 DEF IInv, TypeOK, DataLakeFile
<1>10. LandedInv'
  <2>1. SUFFICES ASSUME NEW f \in Files, f > landed
                 PROVE  row'[f].status = "LANDED"
    BY DEF LandedInv
  <2>2. f # file[l]
    BY <1>1, <2>1 DEF IInv, TypeOK
  <2> QED BY <1>8, <2>1, <2>2 DEF IInv, LandedInv
<1>11. DoneIsApplied'
  <2> USE DEF Holds
  <2>1. SUFFICES ASSUME NEW f \in Files, NEW r \in Records,
                        row'[f].status \in {"LOADED", "SKIPPED", "PARTIAL"},
                        r \in Holds(f), r \notin row'[f].errors
                 PROVE  table'[r] >= lake[f].versions[r]
    BY DEF DoneIsApplied
  <2>2. lake[f].versions[r] \in Nat /\ table[r] \in Nat /\ table'[r] \in Nat
    <3>1. lake[f] \in LakeFile
      BY DEF IInv, TypeOK
    <3> QED BY <1>2, <3>1 DEF IInv, TypeOK, LakeFile
  <2>3. CASE f = file[l]
    <3>1. r \notin failed[l]
      BY <1>9, <2>1, <2>3 DEF LastError
    <3> QED BY <1>1, <1>2, <2>1, <2>3, <3>1 DEF IInv, LoadInv, Incoming
  <2>4. CASE f # file[l]
    <3>1. table[r] >= lake[f].versions[r]
      BY <1>8, <2>1, <2>4 DEF IInv, DoneIsApplied
    <3> QED BY <1>2, <2>2, <3>1
  <2> QED BY <2>3, <2>4
<1> QED BY <1>2, <1>3, <1>7, <1>10, <1>11

\* A file is completed, whether the run hears of it or not.
LEMMA CompleteStep ==
  ASSUME OneLoader, IInv, NEW l \in Loaders, Complete(l) \/ CompleteUnheard(l)
  PROVE  IInv' /\ \A r \in Records : table'[r] >= table[r]
<1>1. Commit(l) /\ Rollback(l) /\ UNCHANGED <<lakeVars, batch>>
  BY DEF Complete, CompleteUnheard, Commit
<1>2. /\ table' \in [Records -> Version]
      /\ row' \in [Files -> DataLakeFile]
      /\ \A r \in Records : table'[r] >= table[r]
      /\ LandedInv'
      /\ DoneIsApplied'
  BY <1>1, CommitEffect DEF lakeVars
<1>3. file[l] \in 1..landed /\ file[l] \in Files
  BY <1>1 DEF Commit, IInv, TypeOK, RunInv
<1>4. /\ pc' \in [Loaders -> {"idle", "next", "loading", "merging", "failing"}]
      /\ file' \in [Loaders -> Files \cup {NoFile}]
      /\ trouble' \in 0..MaxTrouble
      /\ disturbed' \subseteq Files
      /\ ~Loading(l)'
      /\ pc'[l] = "failing" => file'[l] = file[l]
  <2>1. CASE Complete(l)
    <3>1. NextFile(l) /\ UNCHANGED <<trouble, disturbed>>
      BY <2>1 DEF Complete
    <3> QED BY <3>1, NextFileEffect DEF IInv, TypeOK, Loading
  <2>2. CASE CompleteUnheard(l)
    <3>1. /\ Trouble
          /\ pc' = [pc EXCEPT ![l] = "failing"]
          /\ disturbed' = disturbed \cup {file[l]}
          /\ file' = file
      BY <2>2 DEF CompleteUnheard
    <3>2. pc'[l] = "failing" /\ ~Loading(l)' /\ trouble' \in 0..MaxTrouble
      BY <3>1 DEF Trouble, IInv, TypeOK, Loading
    <3>3. /\ pc' \in [Loaders -> {"idle", "next", "loading", "merging", "failing"}]
          /\ file' \in [Loaders -> Files \cup {NoFile}]
          /\ disturbed' \subseteq Files
      BY <1>3, <3>1 DEF IInv, TypeOK
    <3> QED BY <3>1, <3>2, <3>3
  <2> QED BY <2>1, <2>2
<1>5. TypeOK'
  BY <1>1, <1>2, <1>4, RollbackEffect DEF IInv, TypeOK, lakeVars
<1> QED BY <1>1, <1>2, <1>3, <1>4, <1>5, RollbackEffect, OutsideFile DEF IInv

\* A file or a run breaks off: what was written is rolled back.
LEMMA BreakStep ==
  ASSUME OneLoader, IInv, NEW l \in Loaders, FileFails(l) \/ Crash(l)
  PROVE  IInv'
<1>1. Rollback(l) /\ UNCHANGED <<lakeVars, row, table, disturbed>>
  BY DEF FileFails, Crash
<1>2. FileFails(l) => file[l] \in 1..landed
  BY DEF FileFails, IInv, RunInv
<1>3. /\ pc' \in [Loaders -> {"idle", "next", "loading", "merging", "failing"}]
      /\ file' \in [Loaders -> Files \cup {NoFile}]
      /\ batch' \in [Loaders -> SUBSET Files]
      /\ trouble' \in 0..MaxTrouble
      /\ ~Loading(l)'
      /\ pc'[l] = "failing" => file'[l] = file[l] /\ file[l] \in 1..landed
      /\ batch'[l] \subseteq batch[l]
  <2>1. CASE FileFails(l)
    <3>1. Trouble /\ pc' = [pc EXCEPT ![l] = "failing"] /\ UNCHANGED <<batch, file>>
      BY <2>1 DEF FileFails
    <3> QED BY <1>2, <2>1, <3>1 DEF Trouble, IInv, TypeOK, Loading
  <2>2. CASE Crash(l)
    <3>1. /\ Trouble
          /\ pc' = [pc EXCEPT ![l] = "idle"]
          /\ batch' = [batch EXCEPT ![l] = {}]
          /\ file' = [file EXCEPT ![l] = NoFile]
      BY <2>2 DEF Crash
    <3> QED BY <3>1 DEF Trouble, IInv, TypeOK, Loading
  <2> QED BY <2>1, <2>2
<1>4. TypeOK'
  BY <1>1, <1>3, RollbackEffect DEF IInv, TypeOK, lakeVars
<1>5. LandedInv' /\ DoneIsApplied'
  BY <1>1 DEF IInv, LandedInv, DoneIsApplied, Holds, lakeVars
<1> QED BY <1>1, <1>3, <1>4, <1>5, RollbackEffect, OutsideFile DEF IInv

\* The row of a file that raised is marked.
LEMMA MarkFailedStep ==
  ASSUME OneLoader, IInv, NEW l \in Loaders, MarkFailed(l)
  PROVE  IInv'
<1>1. pc[l] = "failing" /\ NextFile(l)
      /\ UNCHANGED <<lakeVars, table, batch, current, written, failed, skipped, trouble,
                     disturbed>>
  BY DEF MarkFailed
<1>2. file[l] \in 1..landed /\ file[l] \in Files
  BY <1>1 DEF IInv, TypeOK, RunInv
<1>3. row[file[l]] \in DataLakeFile
  BY <1>2 DEF IInv, TypeOK
<1>4. [row[file[l]] EXCEPT !.status = "FAILED", !.errors = {}] \in DataLakeFile
  BY <1>3 DEF DataLakeFile
<1>5. row' = [row EXCEPT ![file[l]] =
                [row[file[l]] EXCEPT !.status = "FAILED", !.errors = {}]]
  BY DEF MarkFailed
<1>6. row' \in [Files -> DataLakeFile]
  BY <1>4, <1>5 DEF IInv, TypeOK
<1>7. /\ \A f \in Files : f # file[l] => row'[f] = row[f]
      /\ row'[file[l]].status = "FAILED"
  BY <1>2, <1>3, <1>5 DEF IInv, TypeOK, DataLakeFile
<1>8. TypeOK'
  BY <1>1, <1>6, NextFileEffect DEF MarkFailed, IInv, TypeOK, lakeVars
<1>9. LandedInv'
  <2>1. landed' = landed
    BY <1>1 DEF lakeVars
  <2>2. \A f \in Files : f > landed => f # file[l]
    BY <1>2 DEF IInv, TypeOK
  <2> QED BY <1>7, <2>1, <2>2 DEF IInv, LandedInv
<1>10. DoneIsApplied'
  BY <1>1, <1>7 DEF IInv, DoneIsApplied, Holds, lakeVars
<1>11. written[l] = Nothing /\ failed[l] = {} /\ skipped[l] = {}
  BY <1>1 DEF IInv, RunInv, Loading
<1>12. ~Loading(l)' /\ pc'[l] # "failing"
  BY <1>1, NextFileEffect DEF IInv, Loading
<1> QED BY <1>1, <1>8, <1>9, <1>10, <1>11, <1>12, OutsideFile

\* Only a commit writes the table, and it makes no record older.
LEMMA TableStep ==
  ASSUME OneLoader, IInv, [Next]_vars
  PROVE  \A r \in Records : table'[r] >= table[r]
<1>1. \A r \in Records : table[r] \in Nat
  BY DEF IInv, TypeOK
<1>2. CASE table' = table
  BY <1>1, <1>2
<1>3. CASE \E l \in Loaders : Complete(l) \/ CompleteUnheard(l)
  BY <1>3, CompleteStep
<1>4. ASSUME NEW l \in Loaders, Load(l) \/ Interrupt(l), table' # table
      PROVE  Complete(l) \/ CompleteUnheard(l)
  BY <1>4 DEF Load, Interrupt, Claim, Open, Merge, MarkFailed, MapFails, Check,
              RecordFails, FileFails, Crash
<1>5. Environment => table' = table
  BY DEF Environment, Land, Expire
<1>6. UNCHANGED vars => table' = table
  BY DEF vars
<1> QED BY <1>2, <1>3, <1>4, <1>5, <1>6 DEF Next

\* Every step preserves the invariant.
LEMMA NextStep == OneLoader /\ Guarded /\ IInv /\ [Next]_vars => IInv'
<1> SUFFICES ASSUME OneLoader, Guarded, IInv, [Next]_vars PROVE IInv'
  OBVIOUS
<1>1. ASSUME NEW l \in Loaders, Load(l) \/ Interrupt(l)
      PROVE  IInv'
  <2>1. CASE Claim(l)
    BY <2>1, ClaimStep
  <2>2. CASE Open(l)
    BY <2>2, OpenStep
  <2>3. CASE \E r \in Records : MapFails(l, r)
    BY <2>3, MapFailsStep
  <2>4. CASE \E r \in Records : Check(l, r)
    BY <2>4, CheckStep
  <2>5. CASE Merge(l)
    BY <2>5, MergeStep
  <2>6. CASE RecordFails(l)
    BY <2>6, RecordFailsStep
  <2>7. CASE Complete(l) \/ CompleteUnheard(l)
    BY <2>7, CompleteStep
  <2>8. CASE FileFails(l) \/ Crash(l)
    BY <2>8, BreakStep
  <2>9. CASE MarkFailed(l)
    BY <2>9, MarkFailedStep
  <2> QED BY <1>1, <2>1, <2>2, <2>3, <2>4, <2>5, <2>6, <2>7, <2>8, <2>9
          DEF Load, Interrupt
<1>2. CASE Environment
  BY <1>2, LandStep, ExpireStep DEF Environment
<1>3. CASE UNCHANGED vars
  <2>1. UNCHANGED <<newest, landed, lake, row, table, pc, batch, file, todo, current,
                    written, failed, skipped, trouble, disturbed>>
    BY <1>3 DEF vars, lakeVars, run
  <2>2. TypeOK' /\ LandedInv' /\ RunInv' /\ DoneIsApplied'
    BY <2>1 DEF IInv, TypeOK, LandedInv, RunInv, DoneIsApplied, Loading, Holds
  <2>3. LoadInv' /\ MergeInv'
    BY <2>1 DEF IInv, LoadInv, MergeInv, Loading, Holds, Seen, Incoming, Skips
  <2> QED BY <2>2, <2>3 DEF IInv
<1> QED BY <1>1, <1>2, <1>3 DEF Next

\* The invariant holds in every state.
THEOREM Invariance == OneLoader /\ Guarded => (Spec => []IInv)
<1> SUFFICES ASSUME OneLoader, Guarded PROVE Spec => []IInv
  OBVIOUS
<1>1. IInv /\ [Next]_vars => IInv'
  BY NextStep
<1> QED BY InitIInv, <1>1, PTL DEF Spec

\* A SOS or Acenda file that is done, or left as PARTIAL, has every record that
\* its last_error does not name in the table, in its version or a newer one,
\* whatever failed, crashed, was retried or landed since.
THEOREM Applied == OneLoader /\ Guarded => (Spec => []DoneIsApplied)
<1>1. IInv => DoneIsApplied
  BY DEF IInv
<1> QED BY Invariance, <1>1, PTL

\* The SOS and Acenda loaders never put an older version of a record over a newer
\* one, in whatever order files are claimed and retried.
THEOREM OnlyForward == OneLoader /\ Guarded => (Spec => MovesForward)
<1> SUFFICES ASSUME OneLoader, Guarded PROVE Spec => MovesForward
  OBVIOUS
<1>1. IInv /\ [Next]_vars => [\A r \in Records : table'[r] >= table[r]]_vars
  BY TableStep
<1>2. Spec => []IInv
  BY Invariance
<1> QED BY <1>1, <1>2, PTL DEF Spec, MovesForward

-----------------------------------------------------------------------------
(***************************************************************************)
(* Who holds a file: nothing below assumes OneLoader or Guarded, so it is  *)
(* about any number of overlapping runs of any loader, the warehouses'     *)
(* included.                                                               *)
(***************************************************************************)

\* Where a run is tells what it has in hand.
InHand ==
  \A l \in Loaders :
    /\ pc[l] \in {"loading", "merging", "failing"} => file[l] \in Files
    /\ pc[l] = "merging" => current[l] \in Records

TypeInv == TypeOK /\ InHand

\* The initial states satisfy it.
LEMMA InitTypeInv == Init => TypeInv
<1> SUFFICES ASSUME Init PROVE TypeInv
  OBVIOUS
<1>1. Nothing \in [Records -> Version]
  BY DEF Nothing
<1>2. TypeOK
  BY <1>1 DEF Init, TypeOK, LakeFile, DataLakeFile
<1>3. InHand
  BY DEF Init, InHand
<1> QED BY <1>2, <1>3 DEF TypeInv

\* A file lands, or a claim grows old.
LEMMA EnvironmentTypes ==
  ASSUME TypeInv, Environment
  PROVE  TypeInv'
<1>1. CASE Land
  <2>1. PICK v \in [Records -> Version], B \in SUBSET Records, c \in BOOLEAN :
          /\ newest' = [r \in Records |-> IF v[r] > newest[r] THEN v[r] ELSE newest[r]]
          /\ lake' = [lake EXCEPT ![landed + 1] = [versions |-> v, bad |-> B, corrupt |-> c]]
    BY <1>1 DEF Land
  <2>2. newest' \in [Records -> Version]
    BY <2>1 DEF TypeInv, TypeOK
  <2>3. [versions |-> v, bad |-> B, corrupt |-> c] \in LakeFile
    BY DEF LakeFile
  <2>4. lake' \in [Files -> LakeFile]
    BY <2>1, <2>3 DEF TypeInv, TypeOK
  <2>5. TypeOK'
    BY <1>1, <2>2, <2>4 DEF Land, TypeInv, TypeOK, run
  <2> QED BY <1>1, <2>5 DEF Land, TypeInv, InHand, run
<1>2. ASSUME NEW f \in Files, Expire(f)
      PROVE  TypeInv'
  <2>1. row[f] \in DataLakeFile
    BY DEF TypeInv, TypeOK
  <2>2. [row[f] EXCEPT !.stale = TRUE] \in DataLakeFile
    BY <2>1 DEF DataLakeFile
  <2>3. row' \in [Files -> DataLakeFile]
    BY <1>2, <2>2 DEF Expire, TypeInv, TypeOK
  <2>4. trouble' \in 0..MaxTrouble
    BY <1>2 DEF Expire, Trouble, TypeInv, TypeOK
  <2>5. TypeOK'
    BY <1>2, <2>3, <2>4 DEF Expire, TypeInv, TypeOK, run, lakeVars
  <2> QED BY <1>2, <2>5 DEF Expire, TypeInv, InHand, run
<1> QED BY <1>1, <1>2 DEF Environment

\* Files are claimed and opened.
LEMMA ClaimTypes ==
  ASSUME TypeInv, NEW l \in Loaders, Claim(l) \/ Open(l)
  PROVE  TypeInv'
<1>1. CASE Claim(l)
  <2> DEFINE picked == Oldest(Eligible)
  <2>1. picked \subseteq Files
    BY DEF Oldest, Eligible, TypeInv, TypeOK
  <2>2. /\ pc' = [pc EXCEPT ![l] = "next"]
        /\ batch' = [batch EXCEPT ![l] = picked]
        /\ row' = [f \in Files |->
                     IF f \in picked
                     THEN [row[f] EXCEPT !.status = "PROCESSING", !.stale = FALSE]
                     ELSE row[f]]
        /\ disturbed' \subseteq disturbed \cup picked
        /\ UNCHANGED <<lakeVars, table, file, todo, current, written, failed, skipped,
                       trouble>>
    BY <1>1 DEF Claim
  <2> HIDE DEF picked
  <2>3. ASSUME NEW f \in Files
        PROVE  row'[f] \in DataLakeFile
    <3>1. row[f] \in DataLakeFile
      BY DEF TypeInv, TypeOK
    <3> QED BY <2>2, <3>1 DEF DataLakeFile
  <2>4. row' \in [Files -> DataLakeFile]
    BY <2>2, <2>3
  <2>5. TypeOK'
    BY <2>1, <2>2, <2>4 DEF TypeInv, TypeOK, lakeVars
  <2> QED BY <2>2, <2>5 DEF TypeInv, TypeOK, InHand
<1>2. CASE Open(l)
  <2>1. PICK f \in batch[l] :
          /\ file' = [file EXCEPT ![l] = f]
          /\ batch' = [batch EXCEPT ![l] = @ \ {f}]
          /\ pc' = [pc EXCEPT ![l] = IF lake[f].corrupt THEN "failing" ELSE "loading"]
          /\ todo' = [todo EXCEPT ![l] = Holds(f)]
    BY <1>2 DEF Open
  <2>2. f \in Files /\ Holds(f) \subseteq Records
    BY DEF TypeInv, TypeOK, Holds
  <2>3. TypeOK'
    BY <1>2, <2>1, <2>2 DEF Open, TypeInv, TypeOK, lakeVars
  <2> QED BY <1>2, <2>1, <2>2, <2>3 DEF Open, TypeInv, TypeOK, InHand
<1> QED BY <1>1, <1>2

\* The records of a file are dealt with.
LEMMA RecordTypes ==
  ASSUME TypeInv, NEW l \in Loaders,
         \/ \E r \in Records : MapFails(l, r) \/ Check(l, r)
         \/ Merge(l)
         \/ RecordFails(l)
  PROVE  TypeInv'
<1>1. ASSUME NEW r \in Records, MapFails(l, r)
      PROVE  TypeInv'
  BY <1>1 DEF MapFails, TypeInv, TypeOK, InHand, lakeVars
<1>2. ASSUME NEW r \in Records, Check(l, r)
      PROVE  TypeInv'
  <2>1. TypeOK'
    <3>1. /\ \/ todo' = todo
             \/ todo' = [todo EXCEPT ![l] = todo[l] \ {r}]
          /\ \/ skipped' = skipped
             \/ skipped' = [skipped EXCEPT ![l] = skipped[l] \cup {r}]
          /\ \/ UNCHANGED <<pc, current>>
             \/ /\ pc' = [pc EXCEPT ![l] = "merging"]
                /\ current' = [current EXCEPT ![l] = r]
          /\ UNCHANGED <<lakeVars, row, table, batch, file, written, failed, trouble,
                         disturbed>>
      BY <1>2 DEF Check
    <3>2. /\ todo \in [Loaders -> SUBSET Records]
          /\ skipped \in [Loaders -> SUBSET Records]
      BY DEF TypeInv, TypeOK
    <3>3. /\ todo' \in [Loaders -> SUBSET Records]
          /\ skipped' \in [Loaders -> SUBSET Records]
      BY <3>1, <3>2
    <3>4. /\ pc' \in [Loaders -> {"idle", "next", "loading", "merging", "failing"}]
          /\ current' \in [Loaders -> Records \cup {NoRecord}]
      <4>1. /\ pc \in [Loaders -> {"idle", "next", "loading", "merging", "failing"}]
            /\ current \in [Loaders -> Records \cup {NoRecord}]
        BY DEF TypeInv, TypeOK
      <4>2. CASE UNCHANGED <<pc, current>>
        BY <4>1, <4>2
      <4>3. CASE /\ pc' = [pc EXCEPT ![l] = "merging"]
                 /\ current' = [current EXCEPT ![l] = r]
        BY <4>1, <4>3
      <4> QED BY <3>1, <4>2, <4>3
    <3> QED BY <3>1, <3>2, <3>3, <3>4 DEF TypeInv, TypeOK, lakeVars
  <2>2. pc[l] = "loading" /\ UNCHANGED file
    BY <1>2 DEF Check
  <2>3. \/ UNCHANGED <<pc, current>>
        \/ /\ pc' = [pc EXCEPT ![l] = "merging"]
           /\ current' = [current EXCEPT ![l] = r]
    BY <1>2 DEF Check
  <2> QED BY <2>1, <2>2, <2>3 DEF TypeInv, TypeOK, InHand
<1>3. CASE Merge(l)
  <2> DEFINE r == current[l]
             v == Incoming(l, current[l])
  <2>1. /\ pc[l] = "merging"
        /\ written' = [written EXCEPT ![l][r] = v]
        /\ LeaveRecord(l)
        /\ UNCHANGED <<lakeVars, row, table, batch, file, failed, skipped, trouble,
                       disturbed>>
    BY <1>3 DEF Merge
  <2>2. r \in Records /\ file[l] \in Files
    BY <2>1 DEF TypeInv, InHand
  <2>3. v \in Version
    BY <2>2 DEF TypeInv, TypeOK, LakeFile, Incoming
  <2>4. written' \in [Loaders -> [Records -> Version]]
    BY <2>1, <2>2, <2>3 DEF TypeInv, TypeOK
  <2>5. TypeOK
    BY DEF TypeInv
  <2>6. TypeOK'
    BY <2>1, <2>4, <2>5, LeaveRecordEffect DEF TypeOK, lakeVars
  <2> QED BY <2>1, <2>2, <2>6 DEF LeaveRecord, TypeInv, TypeOK, InHand
<1>4. CASE RecordFails(l)
  <2>1. /\ pc[l] = "merging" /\ Trouble
        /\ failed' = [failed EXCEPT ![l] = @ \cup {current[l]}]
        /\ LeaveRecord(l)
        /\ UNCHANGED <<lakeVars, row, table, batch, file, written, skipped, disturbed>>
    BY <1>4 DEF RecordFails
  <2>2. current[l] \in Records /\ file[l] \in Files /\ TypeOK
    BY <2>1 DEF TypeInv, InHand
  <2>3. trouble' \in 0..MaxTrouble
    BY <2>1, <2>2 DEF Trouble, TypeOK
  <2>4. TypeOK'
    BY <2>1, <2>2, <2>3, LeaveRecordEffect DEF TypeOK, lakeVars
  <2> QED BY <2>1, <2>2, <2>4 DEF LeaveRecord, TypeInv, TypeOK, InHand
<1> QED BY <1>1, <1>2, <1>3, <1>4

\* A file is committed.
LEMMA CommitTypes ==
  ASSUME TypeInv, NEW l \in Loaders, Commit(l)
  PROVE  /\ table' \in [Records -> Version]
         /\ row' \in [Files -> DataLakeFile]
         /\ \A f \in Files : f # file[l] => row'[f] = row[f]
<1>1. table' \in [Records -> Version]
  BY DEF Commit, TypeInv, TypeOK, Seen
<1>2. file[l] \in Files
  BY DEF Commit, TypeInv, InHand
<1>3. row[file[l]] \in DataLakeFile /\ LastError(l) \in SUBSET Records
  BY <1>2 DEF TypeInv, TypeOK, DataLakeFile, LastError
<1>4. [row[file[l]] EXCEPT !.status = Outcome(l), !.errors = LastError(l)]
        \in DataLakeFile
  BY <1>3, OutcomeType DEF DataLakeFile
<1>5. row' = [row EXCEPT ![file[l]] =
                [row[file[l]] EXCEPT !.status = Outcome(l), !.errors = LastError(l)]]
  BY DEF Commit
<1> QED BY <1>1, <1>2, <1>4, <1>5 DEF TypeInv, TypeOK

\* A file ends, one way or another.
LEMMA EndTypes ==
  ASSUME TypeInv, NEW l \in Loaders,
         Complete(l) \/ CompleteUnheard(l) \/ FileFails(l) \/ MarkFailed(l) \/ Crash(l)
  PROVE  TypeInv'
<1>1. TypeOK
  BY DEF TypeInv
<1>2. CASE Complete(l)
  <2>1. Commit(l) /\ Rollback(l) /\ NextFile(l)
        /\ UNCHANGED <<lakeVars, batch, trouble, disturbed>>
    BY <1>2 DEF Complete, Commit
  <2>2. TypeOK'
    BY <1>1, <2>1, CommitTypes, RollbackEffect, NextFileEffect DEF TypeOK, lakeVars
  <2> QED BY <1>1, <2>1, <2>2 DEF NextFile, Rollback, TypeInv, TypeOK, InHand
<1>3. CASE CompleteUnheard(l)
  <2>1. /\ Commit(l) /\ Rollback(l) /\ Trouble
        /\ pc' = [pc EXCEPT ![l] = "failing"]
        /\ disturbed' = disturbed \cup {file[l]}
        /\ UNCHANGED <<lakeVars, batch, file>>
    BY <1>3 DEF CompleteUnheard, Commit
  <2>2. file[l] \in Files
    BY <2>1 DEF Commit, TypeInv, InHand
  <2>3. trouble' \in 0..MaxTrouble
    BY <1>1, <2>1 DEF Trouble, TypeOK
  <2>4. TypeOK'
    BY <1>1, <2>1, <2>2, <2>3, CommitTypes, RollbackEffect DEF TypeOK, lakeVars
  <2> QED BY <1>1, <2>1, <2>2, <2>4 DEF Rollback, TypeInv, TypeOK, InHand
<1>4. CASE FileFails(l)
  <2>1. /\ pc[l] \in {"loading", "merging"} /\ Rollback(l) /\ Trouble
        /\ pc' = [pc EXCEPT ![l] = "failing"]
        /\ UNCHANGED <<lakeVars, row, table, batch, file, disturbed>>
    BY <1>4 DEF FileFails
  <2>2. trouble' \in 0..MaxTrouble
    BY <1>1, <2>1 DEF Trouble, TypeOK
  <2>3. TypeOK'
    BY <1>1, <2>1, <2>2, RollbackEffect DEF TypeOK, lakeVars
  <2> QED BY <1>1, <2>1, <2>3 DEF Rollback, TypeInv, TypeOK, InHand
<1>5. CASE MarkFailed(l)
  <2>1. pc[l] = "failing" /\ NextFile(l)
        /\ todo' = [todo EXCEPT ![l] = {}]
        /\ UNCHANGED <<lakeVars, table, batch, current, written, failed, skipped,
                       trouble, disturbed>>
    BY <1>5 DEF MarkFailed
  <2>2. row[file[l]] \in DataLakeFile
    BY <1>1, <2>1 DEF TypeInv, TypeOK, InHand
  <2>3. [row[file[l]] EXCEPT !.status = "FAILED", !.errors = {}] \in DataLakeFile
    BY <2>2 DEF DataLakeFile
  <2>4. row' = [row EXCEPT ![file[l]] =
                  [row[file[l]] EXCEPT !.status = "FAILED", !.errors = {}]]
    BY <1>5 DEF MarkFailed
  <2>5. row' \in [Files -> DataLakeFile]
    BY <1>1, <2>3, <2>4 DEF TypeOK
  <2>6. TypeOK'
    BY <1>1, <2>1, <2>5, NextFileEffect DEF TypeOK, lakeVars
  <2> QED BY <1>1, <2>1, <2>6 DEF NextFile, TypeInv, TypeOK, InHand
<1>6. CASE Crash(l)
  <2>1. /\ Rollback(l) /\ Trouble
        /\ pc' = [pc EXCEPT ![l] = "idle"]
        /\ batch' = [batch EXCEPT ![l] = {}]
        /\ file' = [file EXCEPT ![l] = NoFile]
        /\ UNCHANGED <<lakeVars, row, table, disturbed>>
    BY <1>6 DEF Crash
  <2>2. trouble' \in 0..MaxTrouble
    BY <1>1, <2>1 DEF Trouble, TypeOK
  <2>3. TypeOK'
    BY <1>1, <2>1, <2>2, RollbackEffect DEF TypeOK, lakeVars
  <2> QED BY <1>1, <2>1, <2>3 DEF Rollback, TypeInv, TypeOK, InHand
<1> QED BY <1>2, <1>3, <1>4, <1>5, <1>6

\* Every step preserves it.
LEMMA TypesStep == TypeInv /\ [Next]_vars => TypeInv'
<1> SUFFICES ASSUME TypeInv, [Next]_vars PROVE TypeInv'
  OBVIOUS
<1>1. ASSUME NEW l \in Loaders, Load(l) \/ Interrupt(l)
      PROVE  TypeInv'
  BY <1>1, ClaimTypes, RecordTypes, EndTypes DEF Load, Interrupt
<1>2. CASE UNCHANGED vars
  BY <1>2 DEF vars, run, lakeVars, TypeInv, TypeOK, InHand
<1> QED BY <1>1, <1>2, EnvironmentTypes DEF Next

\* A run at rest holds nothing, a file leaves the batch when it is opened, and the
\* claim on a held file is still in its row, unless it was disturbed.
ClaimKept ==
  \A l \in Loaders :
    /\ pc[l] = "idle" => batch[l] = {}
    /\ pc[l] \in {"idle", "next"} => file[l] = NoFile
    /\ file[l] \notin batch[l]
    /\ \A f \in Holding(l) \ disturbed : row[f].status = "PROCESSING"

ClaimInv == TypeInv /\ ClaimKept /\ HeldByOne

\* The initial states satisfy it: no run holds anything.
LEMMA InitClaimInv == Init => ClaimInv
<1> SUFFICES ASSUME Init PROVE ClaimInv
  OBVIOUS
<1>1. TypeInv
  BY InitTypeInv
<1>2. \A l \in Loaders : Holding(l) = {} /\ batch[l] = {} /\ file[l] = NoFile
  BY DEF Init, Holding
<1>3. ClaimKept /\ HeldByOne
  BY <1>2 DEF ClaimKept, HeldByOne
<1> QED BY <1>1, <1>3 DEF ClaimInv

\* A step that writes no status, changes no claim, and leaves every run at rest or
\* between two files where it is.
LEMMA QuietClaim ==
  ASSUME ClaimInv, TypeInv', UNCHANGED <<batch, file, disturbed>>,
         \A f \in Files : row'[f].status = row[f].status,
         \A l \in Loaders : pc'[l] \in {"idle", "next"} => pc'[l] = pc[l]
  PROVE  ClaimInv'
<1>1. \A l \in Loaders : Holding(l)' = Holding(l) /\ Holding(l) \subseteq Files
  BY DEF Holding, ClaimInv, TypeInv, TypeOK
<1>2. ClaimKept'
  BY <1>1 DEF ClaimInv, ClaimKept
<1>3. HeldByOne'
  BY <1>1 DEF ClaimInv, HeldByOne
<1> QED BY <1>2, <1>3 DEF ClaimInv

\* A step of one run that lets go of files, or opens one, and writes no row but
\* that of the file it lets go of.
LEMMA ReleaseClaim ==
  ASSUME ClaimInv, TypeInv', NEW l \in Loaders, disturbed' = disturbed,
         \A o \in Loaders \ {l} :
           pc'[o] = pc[o] /\ batch'[o] = batch[o] /\ file'[o] = file[o],
         Holding(l)' \subseteq Holding(l),
         pc'[l] = "idle" => batch'[l] = {},
         pc'[l] \in {"idle", "next"} => file'[l] = NoFile,
         file'[l] \notin batch'[l],
         \A f \in Files : \/ row'[f].status = row[f].status
                          \/ f \in Holding(l) \ Holding(l)'
  PROVE  ClaimInv'
<1>1. \A o \in Loaders \ {l} : Holding(o)' = Holding(o)
  BY DEF Holding
<1>2. \A o \in Loaders : Holding(o) \subseteq Files
  BY DEF Holding, ClaimInv, TypeInv, TypeOK
<1>3. HeldByOne'
  BY <1>1 DEF ClaimInv, HeldByOne
<1>4. \A o \in Loaders : \A f \in Holding(o)' \ disturbed : row'[f].status = "PROCESSING"
  <2> SUFFICES ASSUME NEW o \in Loaders, NEW f \in Holding(o)', f \notin disturbed
               PROVE  row'[f].status = "PROCESSING"
    OBVIOUS
  <2>1. f \in Holding(o) /\ f \in Files
    BY <1>1, <1>2
  <2>2. row[f].status = "PROCESSING"
    BY <2>1 DEF ClaimInv, ClaimKept
  <2>3. f \notin Holding(l) \ Holding(l)'
    BY <2>1 DEF ClaimInv, HeldByOne
  <2> QED BY <2>1, <2>2, <2>3
<1>5. ClaimKept'
  BY <1>4 DEF ClaimInv, ClaimKept
<1> QED BY <1>3, <1>5 DEF ClaimInv

\* A claim takes files no run holds, but for those whose claim has expired.
LEMMA ClaimClaim ==
  ASSUME ClaimInv, TypeInv', NEW l \in Loaders, Claim(l)
  PROVE  ClaimInv'
<1> DEFINE picked == Oldest(Eligible)
<1>1. picked \subseteq Eligible
  BY DEF Oldest
<1>2. picked \subseteq Files
  <2>1. landed \in 0..MaxFiles
    BY DEF ClaimInv, TypeInv, TypeOK
  <2> QED BY <1>1, <2>1 DEF Eligible
<1>3. /\ pc[l] = "idle"
      /\ pc' = [pc EXCEPT ![l] = "next"]
      /\ batch' = [batch EXCEPT ![l] = picked]
      /\ row' = [f \in Files |->
                   IF f \in picked
                   THEN [row[f] EXCEPT !.status = "PROCESSING", !.stale = FALSE]
                   ELSE row[f]]
      /\ disturbed' = disturbed \cup {f \in picked : row[f].status = "PROCESSING" /\ row[f].stale}
      /\ UNCHANGED <<landed, file>>
  BY DEF Claim, lakeVars
<1>4. \A f \in picked : row[f].status # "PROCESSING" \/ f \in disturbed'
  BY <1>1, <1>3 DEF Eligible, Retryable
<1> HIDE DEF picked
<1>5. \A f \in Files : row'[f].status = IF f \in picked THEN "PROCESSING"
                                                       ELSE row[f].status
  <2>1. TAKE f \in Files
  <2>2. row[f] \in DataLakeFile
    BY DEF ClaimInv, TypeInv, TypeOK
  <2> QED BY <2>2, <1>3 DEF DataLakeFile
<1>6. Holding(l)' = picked /\ file[l] = NoFile /\ file'[l] = NoFile
  BY <1>3, <1>2 DEF Holding, ClaimInv, TypeInv, TypeOK, ClaimKept
<1>7. \A o \in Loaders \ {l} : Holding(o)' = Holding(o) /\ Holding(o) \subseteq Files
  <2>1. /\ batch \in [Loaders -> SUBSET Files]
        /\ file \in [Loaders -> Files \cup {NoFile}]
    BY DEF ClaimInv, TypeInv, TypeOK
  <2>2. \A o \in Loaders \ {l} : batch'[o] = batch[o] /\ file'[o] = file[o]
    BY <1>3, <2>1
  <2> QED BY <2>1, <2>2 DEF Holding
<1>8. \A o \in Loaders \ {l} : Holding(o) \cap picked \subseteq disturbed'
  BY <1>3, <1>4 DEF ClaimInv, ClaimKept
<1>9. disturbed \subseteq disturbed'
  BY <1>3
<1>10. HeldByOne'
  BY <1>6, <1>7, <1>8, <1>9 DEF ClaimInv, HeldByOne
<1>11. \A o \in Loaders : \A f \in Holding(o)' \ disturbed' : row'[f].status = "PROCESSING"
  BY <1>2, <1>5, <1>6, <1>7, <1>9 DEF ClaimInv, ClaimKept
<1>12. ClaimKept'
  <2>1. ASSUME NEW o \in Loaders
        PROVE  /\ pc'[o] = "idle" => batch'[o] = {}
               /\ pc'[o] \in {"idle", "next"} => file'[o] = NoFile
               /\ file'[o] \notin batch'[o]
    <3>1. CASE o = l
      <4>1. pc'[l] = "next" /\ batch'[l] = picked
        BY <1>3 DEF ClaimInv, TypeInv, TypeOK
      <4>2. NoFile \notin picked
        BY <1>2
      <4> QED BY <1>6, <3>1, <4>1, <4>2
    <3>2. CASE o # l
      BY <1>3, <3>2 DEF ClaimInv, TypeInv, TypeOK, ClaimKept
    <3> QED BY <3>1, <3>2
  <2> QED BY <2>1, <1>11 DEF ClaimKept
<1> QED BY <1>10, <1>12 DEF ClaimInv

\* A file that is opened stays held, one whose outcome is written is let go, and a
\* run that dies lets go of all it had.
LEMMA ReleaseStep ==
  ASSUME ClaimInv, TypeInv', NEW l \in Loaders,
         Open(l) \/ Complete(l) \/ MarkFailed(l) \/ Crash(l)
  PROVE  ClaimInv'
<1>1. CASE Open(l)
  <2>1. PICK f \in batch[l] :
          /\ file' = [file EXCEPT ![l] = f]
          /\ batch' = [batch EXCEPT ![l] = @ \ {f}]
          /\ pc' = [pc EXCEPT ![l] = IF lake[f].corrupt THEN "failing" ELSE "loading"]
    BY <1>1 DEF Open
  <2>2. row' = row /\ disturbed' = disturbed
    BY <1>1 DEF Open
  <2>3. file'[l] = f /\ batch'[l] = batch[l] \ {f} /\ pc'[l] \notin {"idle", "next"}
    BY <2>1 DEF ClaimInv, TypeInv, TypeOK
  <2>4. Holding(l)' \subseteq Holding(l)
    BY <2>3 DEF Holding
  <2>5. \A o \in Loaders \ {l} :
          pc'[o] = pc[o] /\ batch'[o] = batch[o] /\ file'[o] = file[o]
    BY <2>1 DEF ClaimInv, TypeInv, TypeOK
  <2> QED BY <2>2, <2>3, <2>4, <2>5, ReleaseClaim
<1>2. CASE Complete(l) \/ MarkFailed(l)
  <2>1. pc[l] \notin {"idle", "next"} /\ NextFile(l) /\ UNCHANGED <<batch, disturbed>>
    BY <1>2 DEF Complete, Commit, MarkFailed
  <2>2. /\ pc'[l] = IF batch[l] = {} THEN "idle" ELSE "next"
        /\ file'[l] = NoFile
        /\ \A o \in Loaders \ {l} : pc'[o] = pc[o] /\ file'[o] = file[o]
    BY <2>1 DEF NextFile, ClaimInv, TypeInv, TypeOK
  <2>3. file[l] \in Files /\ file[l] \notin batch[l] /\ batch[l] \subseteq Files
    BY <2>1 DEF ClaimInv, TypeInv, TypeOK, InHand, ClaimKept
  <2>4. Holding(l)' = batch[l] /\ file[l] \in Holding(l) \ Holding(l)'
        /\ batch[l] \subseteq Holding(l)
    BY <2>1, <2>2, <2>3 DEF Holding
  <2>5. \A f \in Files : row'[f] = row[f] \/ f = file[l]
    <3>1. CASE Complete(l)
      BY <3>1, CommitTypes DEF Complete, ClaimInv
    <3>2. CASE MarkFailed(l)
      BY <3>2 DEF MarkFailed, ClaimInv, TypeInv, TypeOK
    <3> QED BY <1>2, <3>1, <3>2
  <2>6. file'[l] \notin batch'[l]
    BY <2>1, <2>2, <2>3
  <2> QED BY <2>1, <2>2, <2>4, <2>5, <2>6, ReleaseClaim
<1>3. CASE Crash(l)
  <2>1. /\ pc' = [pc EXCEPT ![l] = "idle"]
        /\ batch' = [batch EXCEPT ![l] = {}]
        /\ file' = [file EXCEPT ![l] = NoFile]
        /\ UNCHANGED <<row, disturbed>>
    BY <1>3 DEF Crash
  <2>2. /\ pc'[l] = "idle" /\ batch'[l] = {} /\ file'[l] = NoFile
        /\ \A o \in Loaders \ {l} :
             pc'[o] = pc[o] /\ batch'[o] = batch[o] /\ file'[o] = file[o]
    BY <2>1 DEF ClaimInv, TypeInv, TypeOK
  <2>3. Holding(l)' \subseteq Holding(l)
    BY <2>2 DEF Holding
  <2> QED BY <2>1, <2>2, <2>3, ReleaseClaim
<1> QED BY <1>1, <1>2, <1>3

\* A commit that was not acknowledged leaves its file held, and disturbed.
LEMMA UnheardStep ==
  ASSUME ClaimInv, TypeInv', NEW l \in Loaders, CompleteUnheard(l)
  PROVE  ClaimInv'
<1>1. /\ Commit(l)
      /\ pc' = [pc EXCEPT ![l] = "failing"]
      /\ disturbed' = disturbed \cup {file[l]}
      /\ UNCHANGED <<batch, file>>
  BY DEF CompleteUnheard
<1>2. \A o \in Loaders : Holding(o)' = Holding(o) /\ Holding(o) \subseteq Files
  BY <1>1 DEF Holding, ClaimInv, TypeInv, TypeOK
<1>3. \A f \in Files : row'[f] = row[f] \/ f \in disturbed'
  BY <1>1, CommitTypes DEF ClaimInv
<1>4. \A o \in Loaders : \A f \in Holding(o)' \ disturbed' : row'[f].status = "PROCESSING"
  BY <1>1, <1>2, <1>3 DEF ClaimInv, ClaimKept
<1>5. \A o \in Loaders : pc'[o] \in {"idle", "next"} => pc'[o] = pc[o]
  BY <1>1 DEF ClaimInv, TypeInv, TypeOK
<1>6. ClaimKept'
  BY <1>1, <1>4, <1>5 DEF ClaimInv, ClaimKept
<1>7. HeldByOne'
  BY <1>1, <1>2 DEF ClaimInv, HeldByOne
<1> QED BY <1>6, <1>7 DEF ClaimInv

\* Neither a new file nor the time that passes changes the status of a row.
LEMMA StatusStays ==
  ASSUME TypeInv, Environment, NEW f \in Files
  PROVE  row'[f].status = row[f].status
<1>1. ASSUME NEW g \in Files, Expire(g)
      PROVE  row'[f].status = row[f].status
  <2>1. row[f] \in DataLakeFile
    BY DEF TypeInv, TypeOK
  <2>2. row' = [row EXCEPT ![g] = [row[g] EXCEPT !.stale = TRUE]]
    BY <1>1 DEF Expire
  <2>3. row'[f] = row[f] \/ row'[f] = [row[f] EXCEPT !.stale = TRUE]
    BY <2>2 DEF TypeInv, TypeOK
  <2> QED BY <2>1, <2>3 DEF DataLakeFile
<1> QED BY <1>1 DEF Environment, Land

\* Every step preserves the invariant.
LEMMA ClaimInvStep == ClaimInv /\ [Next]_vars => ClaimInv'
<1> SUFFICES ASSUME ClaimInv, [Next]_vars PROVE ClaimInv'
  OBVIOUS
<1>1. TypeInv'
  BY TypesStep DEF ClaimInv
<1>2. ASSUME NEW l \in Loaders, Load(l) \/ Interrupt(l)
      PROVE  ClaimInv'
  <2>1. CASE Claim(l)
    BY <1>1, <2>1, ClaimClaim
  <2>2. CASE Open(l) \/ Complete(l) \/ MarkFailed(l) \/ Crash(l)
    BY <1>1, <2>2, ReleaseStep
  <2>3. CASE CompleteUnheard(l)
    BY <1>1, <2>3, UnheardStep
  <2>4. CASE \/ \E r \in Records : MapFails(l, r) \/ Check(l, r)
             \/ Merge(l) \/ RecordFails(l) \/ FileFails(l)
    <3>1. UNCHANGED <<row, batch, file, disturbed>>
      BY <2>4 DEF MapFails, Check, Merge, RecordFails, FileFails
    <3>2. pc' = pc \/ \E next \in {"loading", "merging", "failing"} :
                        pc' = [pc EXCEPT ![l] = next]
      BY <2>4 DEF MapFails, Check, Merge, RecordFails, LeaveRecord, FileFails
    <3>3. \A o \in Loaders : pc'[o] \in {"idle", "next"} => pc'[o] = pc[o]
      BY <3>2 DEF ClaimInv, TypeInv, TypeOK
    <3> QED BY <1>1, <3>1, <3>3, QuietClaim
  <2> QED BY <1>2, <2>1, <2>2, <2>3, <2>4 DEF Load, Interrupt
<1>3. CASE Environment
  <2>1. UNCHANGED <<pc, batch, file, disturbed>>
    BY <1>3 DEF Environment, Land, Expire, run
  <2>2. \A f \in Files : row'[f].status = row[f].status
    BY <1>3, StatusStays DEF ClaimInv
  <2> QED BY <1>1, <2>1, <2>2, QuietClaim
<1>4. CASE UNCHANGED vars
  <2>1. UNCHANGED <<row, pc, batch, file, disturbed>>
    BY <1>4 DEF vars, run
  <2> QED BY <1>1, <2>1, QuietClaim
<1> QED BY <1>2, <1>3, <1>4 DEF Next

\* The invariant holds in every state.
LEMMA Claims == Spec => []ClaimInv
<1>1. Init => ClaimInv
  BY InitClaimInv
<1>2. ClaimInv /\ [Next]_vars => ClaimInv'
  BY ClaimInvStep
<1> QED BY <1>1, <1>2, PTL DEF Spec

\* The rows, the table and the bookkeeping of every run keep their types.
THEOREM TypeCorrect == Spec => []TypeOK
<1>1. ClaimInv => TypeOK
  BY DEF ClaimInv, TypeInv
<1> QED BY Claims, <1>1, PTL

\* Two runs have the same file in hand only after its claim has expired, or after a
\* commit that was not acknowledged, although no run looks at its claim again.
THEOREM OneHolder == Spec => []HeldByOne
<1>1. ClaimInv => HeldByOne
  BY DEF ClaimInv
<1> QED BY Claims, <1>1, PTL

\* A step writes the status of a file that is done only if that file was disturbed:
\* a claim does not take it, and no run has it in hand.
LEMMA DoneStep ==
  ASSUME ClaimInv, [Next]_vars, NEW f \in Files, row[f].status \in Done,
         f \notin disturbed
  PROVE  row'[f].status \in Done
<1>1. ASSUME NEW l \in Loaders PROVE f \notin Holding(l)
  BY DEF ClaimInv, ClaimKept, Done
<1>2. CASE row'[f].status = row[f].status
  BY <1>2
<1>3. ASSUME NEW l \in Loaders, Complete(l) \/ CompleteUnheard(l) \/ MarkFailed(l)
      PROVE  row'[f] = row[f]
  <2>1. file[l] \in Files
    BY <1>3 DEF Complete, CompleteUnheard, Commit, MarkFailed, ClaimInv, TypeInv, InHand
  <2>2. f # file[l]
    BY <1>1, <2>1 DEF Holding
  <2>3. CASE Complete(l) \/ CompleteUnheard(l)
    BY <2>2, <2>3, CommitTypes DEF Complete, CompleteUnheard, ClaimInv
  <2>4. CASE MarkFailed(l)
    BY <2>2, <2>4 DEF MarkFailed, ClaimInv, TypeInv, TypeOK
  <2> QED BY <1>3, <2>3, <2>4
<1>4. ASSUME NEW l \in Loaders, Claim(l)
      PROVE  row'[f] = row[f]
  <2>1. f \notin Oldest(Eligible)
    BY DEF Oldest, Eligible, Done
  <2> QED BY <1>4, <2>1 DEF Claim
<1>5. ASSUME NEW l \in Loaders, Load(l) \/ Interrupt(l), row' # row
      PROVE  Claim(l) \/ Complete(l) \/ CompleteUnheard(l) \/ MarkFailed(l)
  BY <1>5 DEF Load, Interrupt, Open, Merge, MapFails, Check, RecordFails, FileFails, Crash
<1>6. Environment => row'[f].status = row[f].status
  BY StatusStays DEF ClaimInv
<1>7. UNCHANGED vars => row' = row
  BY DEF vars
<1> QED BY <1>2, <1>3, <1>4, <1>5, <1>6, <1>7 DEF Next

\* A file that is done stays done, but for the same two reasons.
THEOREM DoneForGood == Spec => DoneStays
<1>1. ClaimInv /\ [Next]_vars =>
        [\A f \in Files : row[f].status \in Done =>
           row'[f].status \in Done \/ f \in disturbed]_vars
  BY DoneStep
<1> QED BY Claims, <1>1, PTL DEF Spec, DoneStays

-----------------------------------------------------------------------------
(***************************************************************************)
(* The loaders without a version guard, while nothing fails.               *)
(***************************************************************************)

\* What is older than a claimed file, and could have been claimed, was.
LEMMA OldestDown ==
  ASSUME NEW S, S \subseteq 1..landed, landed \in Nat,
         NEW f \in Oldest(S), NEW g \in S, g < f
  PROVE  g \in Oldest(S)
<1> DEFINE Below(h) == {e \in S : e < h}
<1>1. Below(g) \subseteq Below(f)
  <2>1. f \in Int /\ g \in Int
    BY DEF Oldest
  <2>2. ASSUME NEW e \in S, e < g PROVE e < f
    <3>1. e \in Int
      OBVIOUS
    <3> QED BY <2>1, <2>2, <3>1
  <2> QED BY <2>2
<1>2. IsFiniteSet(1..landed)
  BY FS_Interval
<1>3. IsFiniteSet(Below(f))
  BY <1>2, FS_Subset
<1>4. Cardinality(Below(g)) <= Cardinality(Below(f))
  BY <1>1, <1>3, FS_Subset
<1>5. Cardinality(Below(g)) \in Nat /\ Cardinality(Below(f)) \in Nat
  BY <1>1, <1>3, FS_Subset, FS_CardinalityType
<1>6. Cardinality(Below(f)) < Limit
  BY DEF Oldest
<1>7. Cardinality(Below(g)) < Limit
  BY <1>4, <1>5, <1>6
<1> QED BY <1>7 DEF Oldest

\* A file lands.
LEMMA LandOrder ==
  ASSUME TypeInv, InOrder, Calm, Kind = "warehouse", Land
  PROVE  InOrder'
<1> SUFFICES LandedInv' /\ ArrivalOK' /\ OrderOK' /\ WrittenOK'
  BY DEF InOrder
<1>1. LandedInv /\ ArrivalOK /\ OrderOK /\ WrittenOK
  BY DEF InOrder
<1>2. PICK v \in [Records -> Version], B \in SUBSET Records, c \in BOOLEAN :
        /\ \A r \in Records : v[r] \in {0, newest[r], newest[r] + 1}
        /\ newest' = [r \in Records |-> IF v[r] > newest[r] THEN v[r] ELSE newest[r]]
        /\ lake' = [lake EXCEPT ![landed + 1] = [versions |-> v, bad |-> B, corrupt |-> c]]
  BY DEF Land
<1>3. /\ landed' = landed + 1 /\ landed \in Nat /\ landed + 1 \in Files
      /\ UNCHANGED <<row, table, pc, batch, file, written, failed, skipped>>
  BY DEF Land, run, TypeInv, TypeOK
<1>4. \A f \in 1..landed : lake'[f] = lake[f] /\ Holds(f)' = Holds(f)
  BY <1>2, <1>3 DEF TypeInv, TypeOK, Holds
<1>5. lake'[landed + 1].versions = v
  BY <1>2, <1>3 DEF TypeInv, TypeOK
<1>6. \A r \in Records : /\ newest[r] \in Nat /\ newest'[r] \in Nat
                         /\ table[r] \in Nat /\ v[r] \in Nat
                         /\ newest[r] <= newest'[r] /\ v[r] <= newest'[r]
                         /\ v[r] # 0 => newest[r] <= v[r]
  <2>1. newest \in [Records -> Nat] /\ table \in [Records -> Nat]
    BY DEF TypeInv, TypeOK
  <2>2. v \in [Records -> Nat]
    BY <1>2
  <2> QED BY <1>2, <2>1, <2>2
<1>7. \A f \in Files, r \in Records : lake[f].versions[r] \in Nat
  <2>1. \A f \in Files : lake[f] \in LakeFile
    BY DEF TypeInv, TypeOK
  <2> QED BY <2>1 DEF LakeFile
<1>8. ArrivalOK'
  <2> SUFFICES ASSUME NEW r \in Records
               PROVE  /\ table[r] <= newest'[r]
                      /\ \A f \in 1..landed + 1 : r \in Holds(f)' =>
                           /\ lake'[f].versions[r] <= newest'[r]
                           /\ Pending(f) => table[r] <= lake'[f].versions[r]
                           /\ \A g \in 1..landed + 1 : g < f /\ r \in Holds(g)'
                                => lake'[g].versions[r] <= lake'[f].versions[r]
    BY <1>3 DEF ArrivalOK, Pending
  <2>1. table[r] <= newest'[r]
    BY <1>1, <1>6 DEF ArrivalOK
  <2>2. ASSUME NEW f \in 1..landed + 1, r \in Holds(f)'
        PROVE  /\ lake'[f].versions[r] <= newest'[r]
               /\ Pending(f) => table[r] <= lake'[f].versions[r]
               /\ \A g \in 1..landed + 1 : g < f /\ r \in Holds(g)'
                    => lake'[g].versions[r] <= lake'[f].versions[r]
    <3>1. CASE f \in 1..landed
      <4>1. \A g \in 1..landed + 1 : g < f => g \in 1..landed
        BY <1>3, <3>1
      <4>2. f \in Files
        BY <1>3, <3>1
      <4> QED BY <1>1, <1>4, <1>6, <1>7, <2>2, <3>1, <4>1, <4>2 DEF ArrivalOK
    <3>2. CASE f = landed + 1
      <4>1. v[r] # 0 /\ lake'[f].versions[r] = v[r]
        BY <1>5, <2>2, <3>2 DEF Holds
      <4>2. newest[r] <= v[r] /\ table[r] <= v[r]
        BY <1>1, <1>6, <4>1 DEF ArrivalOK
      <4>3. ASSUME NEW g \in 1..landed + 1, g < f, r \in Holds(g)'
            PROVE  lake'[g].versions[r] <= v[r]
        <5>1. g \in 1..landed /\ g \in Files
          BY <1>3, <3>2, <4>3
        <5>2. lake'[g].versions[r] <= newest[r]
          BY <1>1, <1>4, <4>3, <5>1 DEF ArrivalOK
        <5> QED BY <1>4, <1>6, <1>7, <4>2, <5>1, <5>2
      <4> QED BY <1>6, <4>1, <4>2, <4>3
    <3> QED BY <1>3, <3>1, <3>2
  <2> QED BY <2>1, <2>2
<1>9. LandedInv' /\ OrderOK'
  <2>1. row[landed + 1].status = "LANDED"
    BY <1>1, <1>3 DEF LandedInv
  <2>2. LandedInv'
    BY <1>1, <1>3 DEF LandedInv
  <2>3. \A l \in Loaders : Holding(l)' = Holding(l)
    BY <1>3 DEF Holding
  <2>4. \A f \in 1..landed + 1 : f \in 1..landed \/ f = landed + 1
    BY <1>3
  <2> QED BY <1>1, <1>3, <2>1, <2>2, <2>3, <2>4 DEF OrderOK, Pending
<1>10. WrittenOK'
  <2>1. \A l \in Loaders : Loading(l) => file[l] \in 1..landed
    BY <1>1 DEF Loading, Holding, OrderOK, TypeInv, InHand
  <2> QED BY <1>1, <1>3, <1>4, <2>1 DEF WrittenOK, Loading, Incoming
<1> QED BY <1>8, <1>9, <1>10

\* Of the files that are to be loaded, a run claims the oldest.
LEMMA ClaimOrder ==
  ASSUME OneLoader, ClaimInv, InOrder, Calm, Kind = "warehouse",
         NEW l \in Loaders, Claim(l)
  PROVE  InOrder'
<1> DEFINE picked == Oldest(Eligible)
<1> SUFFICES LandedInv' /\ ArrivalOK' /\ OrderOK' /\ WrittenOK'
  BY DEF InOrder
<1>1. LandedInv /\ ArrivalOK /\ OrderOK /\ WrittenOK
  BY DEF InOrder
<1>2. /\ landed \in Nat /\ landed <= MaxFiles
      /\ \A f \in Files : row[f] \in DataLakeFile
  <2>1. landed \in 0..MaxFiles /\ row \in [Files -> DataLakeFile]
    BY DEF ClaimInv, TypeInv, TypeOK
  <2> QED BY <2>1
<1>3. pc[l] = "idle" /\ batch[l] = {} /\ file[l] = NoFile /\ Holding(l) = {}
  BY DEF Claim, ClaimInv, ClaimKept, Holding
<1>4. Eligible = {f \in 1..landed : Pending(f)}
  <2>1. \A f \in 1..landed : row[f].status # "PROCESSING"
    BY <1>1, <1>3 DEF OrderOK, OneLoader
  <2> QED BY <1>1, <2>1 DEF Eligible, Retryable, OrderOK, Pending
<1>5. picked \subseteq 1..landed /\ picked \subseteq Eligible
  BY DEF Oldest, Eligible
<1>6. \A f \in picked, g \in 1..landed : g < f /\ Pending(g) => g \in picked
  BY <1>2, <1>4, OldestDown DEF Oldest
<1>7. /\ UNCHANGED <<newest, landed, lake, table, file, written, failed, skipped>>
      /\ pc' = [pc EXCEPT ![l] = "next"]
      /\ batch' = [batch EXCEPT ![l] = picked]
      /\ row' = [f \in Files |->
                   IF f \in picked
                   THEN [row[f] EXCEPT !.status = "PROCESSING", !.stale = FALSE]
                   ELSE row[f]]
  BY DEF Claim, lakeVars
<1> HIDE DEF picked
<1>8. \A f \in Files : IF f \in picked
                       THEN row'[f].status = "PROCESSING" /\ ~row'[f].stale
                       ELSE row'[f] = row[f]
  BY <1>2, <1>7 DEF DataLakeFile
<1>9. \A f \in 1..landed : f \in Files /\ (Pending(f)' <=> Pending(f))
  BY <1>2, <1>4, <1>5, <1>8 DEF Pending
<1>10. LandedInv' /\ ArrivalOK'
  <2>1. LandedInv'
    <3>1. \A f \in Files : f > landed => f \notin picked
      BY <1>2, <1>5
    <3> QED BY <1>1, <1>7, <1>8, <3>1 DEF LandedInv
  <2>2. ArrivalOK'
    BY <1>1, <1>7, <1>9 DEF ArrivalOK, Holds
  <2> QED BY <2>1, <2>2
<1>11. OrderOK'
  <2>1. batch'[l] = picked /\ file'[l] = NoFile /\ Holding(l)' = picked
    BY <1>3, <1>5, <1>7 DEF Holding, ClaimInv, TypeInv, TypeOK
  <2>2. \A f \in 1..landed : row'[f].status = "PROCESSING" => f \in picked
    BY <1>1, <1>3, <1>8, <1>9 DEF OrderOK, OneLoader
  <2>3. \A f \in 1..landed : Pending(f)' \/ row'[f].status \in {"LOADED", "EMPTY"}
    BY <1>1, <1>5, <1>8, <1>9 DEF OrderOK, Pending
  <2>4. \A f \in picked : /\ f \in 1..landed /\ row'[f].status = "PROCESSING"
                          /\ ~row'[f].stale /\ NoFile < f
                          /\ \A g \in 1..landed : g < f /\ Pending(g)' => g \in picked
    BY <1>5, <1>6, <1>8, <1>9
  <2>5. \A o \in Loaders : o = l
    BY DEF OneLoader
  <2>6. \A f \in 1..landed' :
          /\ Pending(f)' \/ row'[f].status \in {"LOADED", "EMPTY"}
          /\ row'[f].status = "PROCESSING" => f \in Holding(l)'
    BY <1>7, <2>1, <2>2, <2>3
  <2>7. /\ \A f \in Holding(l)' :
             /\ f \in 1..landed'
             /\ row'[f].status = "PROCESSING" /\ ~row'[f].stale
             /\ \A g \in 1..landed' : g < f /\ Pending(g)' => g \in Holding(l)'
        /\ \A f \in batch'[l] : file'[l] < f
    <3>1. landed' = landed
      BY <1>7
    <3> QED BY <2>1, <2>4, <3>1
  <2> QED BY <2>5, <2>6, <2>7 DEF OrderOK
<1>12. WrittenOK'
  <2>1. \A o \in Loaders : o = l
    BY DEF OneLoader
  <2>2. ~Loading(l) /\ failed[l] = {} /\ skipped[l] = {}
        /\ \A r \in Records : written[l][r] = 0
    BY <1>1, <1>3 DEF WrittenOK, Loading
  <2>3. pc'[l] = "next" /\ UNCHANGED <<written, failed, skipped>>
    BY <1>3, <1>7 DEF ClaimInv, TypeInv, TypeOK
  <2> QED BY <2>1, <2>2, <2>3 DEF WrittenOK
<1> QED BY <1>10, <1>11, <1>12

\* The files of a batch are opened in their order.
LEMMA OpenOrder ==
  ASSUME OneLoader, ClaimInv, InOrder, Calm, NEW l \in Loaders, Open(l)
  PROVE  InOrder'
<1> SUFFICES LandedInv' /\ ArrivalOK' /\ OrderOK' /\ WrittenOK'
  BY DEF InOrder
<1>1. LandedInv /\ ArrivalOK /\ OrderOK /\ WrittenOK
  BY DEF InOrder
<1>2. PICK f \in batch[l] :
        /\ \A g \in batch[l] : f <= g
        /\ file' = [file EXCEPT ![l] = f]
        /\ batch' = [batch EXCEPT ![l] = @ \ {f}]
        /\ pc' = [pc EXCEPT ![l] = IF lake[f].corrupt THEN "failing" ELSE "loading"]
  BY DEF Open
<1>3. /\ pc[l] = "next" /\ file[l] = NoFile
      /\ UNCHANGED <<newest, landed, lake, row, table, written, failed, skipped>>
  BY DEF Open, lakeVars, ClaimInv, ClaimKept
<1>4. f \in Files /\ batch[l] \subseteq Files
  BY DEF ClaimInv, TypeInv, TypeOK
<1>5. f \in 1..landed
  BY <1>1, <1>2 DEF OrderOK, Holding
<1>6. /\ file'[l] = f /\ batch'[l] = batch[l] \ {f} /\ pc'[l] = "loading"
  BY <1>2, <1>5 DEF Calm, Faulty, ClaimInv, TypeInv, TypeOK
<1>7. Holding(l)' = Holding(l)
  BY <1>2, <1>3, <1>4, <1>6 DEF Holding
<1>8. LandedInv' /\ ArrivalOK'
  BY <1>1, <1>3 DEF LandedInv, ArrivalOK, Holds, Pending
<1>9. \A g \in batch'[l] : file'[l] < g
  BY <1>2, <1>4, <1>6
<1>10. OrderOK'
  BY <1>1, <1>3, <1>7, <1>9 DEF OneLoader, OrderOK, Pending
<1>11. WrittenOK'
  <2>1. \A r \in Records : written[l][r] = 0
    BY <1>1, <1>3 DEF WrittenOK, Loading
  <2> QED BY <1>1, <1>3, <1>6, <2>1 DEF OneLoader, WrittenOK
<1> QED BY <1>8, <1>10, <1>11

\* Without a version guard every record is merged.
LEMMA RecordOrder ==
  ASSUME OneLoader, ClaimInv, InOrder, Calm, Kind = "warehouse", NEW l \in Loaders,
         \/ \E r \in Records : MapFails(l, r) \/ Check(l, r)
         \/ Merge(l)
  PROVE  InOrder'
<1> SUFFICES LandedInv' /\ ArrivalOK' /\ OrderOK' /\ WrittenOK'
  BY DEF InOrder
<1>1. LandedInv /\ ArrivalOK /\ OrderOK /\ WrittenOK
  BY DEF InOrder
<1>2. Loading(l) /\ UNCHANGED <<newest, landed, lake, row, table, batch, file>>
  BY DEF MapFails, Check, Merge, Loading, lakeVars
<1>3. LandedInv' /\ ArrivalOK' /\ OrderOK'
  <2>1. LandedInv' /\ ArrivalOK'
    BY <1>1, <1>2 DEF LandedInv, ArrivalOK, Holds, Pending
  <2>2. OrderOK'
    BY <1>1, <1>2 DEF OrderOK, Pending, Holding
  <2> QED BY <2>1, <2>2
<1>4. file[l] \in 1..landed
  BY <1>1, <1>2 DEF Loading, Holding, OrderOK, ClaimInv, TypeInv, InHand
<1>5. CASE \E r \in Records : MapFails(l, r)
  BY <1>4, <1>5 DEF MapFails, Calm, Faulty
<1>6. CASE \E r \in Records : Check(l, r)
  <2>1. UNCHANGED <<written, failed, skipped>> /\ pc' = [pc EXCEPT ![l] = "merging"]
    BY <1>6 DEF Check, Skips
  <2>2. Loading(l)' /\ pc'[l] # "failing"
    BY <2>1 DEF Loading, ClaimInv, TypeInv, TypeOK
  <2> QED BY <1>1, <1>2, <1>3, <2>1, <2>2 DEF OneLoader, WrittenOK, Incoming
<1>7. CASE Merge(l)
  <2> DEFINE r == current[l]
  <2>1. /\ pc[l] = "merging" /\ UNCHANGED <<failed, skipped>>
        /\ written' = [written EXCEPT ![l][r] = Incoming(l, r)]
        /\ pc' = [pc EXCEPT ![l] = "loading"]
    BY <1>7 DEF Merge, LeaveRecord
  <2>2. Loading(l)' /\ pc'[l] # "failing"
    BY <2>1 DEF Loading, ClaimInv, TypeInv, TypeOK
  <2>3. \A q \in Records : written'[l][q] \in {written[l][q], Incoming(l, r)}
                           /\ (q # r => written'[l][q] = written[l][q])
    BY <2>1 DEF ClaimInv, TypeInv, TypeOK
  <2>4. \A q \in Records : written'[l][q] # 0 => written'[l][q] = Incoming(l, q)
    BY <1>1, <2>3 DEF WrittenOK
  <2>5. \A q \in Records : Incoming(l, q)' = Incoming(l, q)
    BY <1>2 DEF Incoming
  <2> QED BY <1>1, <1>3, <2>1, <2>2, <2>4, <2>5 DEF OneLoader, WrittenOK
<1> QED BY <1>5, <1>6, <1>7

\* What a commit does to the table while nothing has failed: a record takes the
\* version of the oldest file that is still to be loaded.
LEMMA CommitOrder ==
  ASSUME ClaimInv, InOrder, Calm, NEW l \in Loaders, Commit(l)
  PROVE  /\ file[l] \in 1..landed /\ Pending(file[l])
         /\ \A r \in Records :
              /\ table[r] <= table'[r]
              /\ \/ table'[r] = table[r]
                 \/ r \in Holds(file[l]) /\ table'[r] = lake[file[l]].versions[r]
         /\ Outcome(l) \in {"LOADED", "EMPTY"}
<1>1. ArrivalOK /\ OrderOK /\ WrittenOK
  BY DEF InOrder
<1>2. file[l] \in Holding(l)
  BY DEF Commit, Holding, ClaimInv, TypeInv, InHand
<1>3. file[l] \in 1..landed /\ Pending(file[l])
  BY <1>1, <1>2 DEF OrderOK, Pending
<1>4. \A r \in Records : table[r] \in Nat
  BY DEF ClaimInv, TypeInv, TypeOK
<1>5. ASSUME NEW r \in Records
      PROVE  /\ table[r] <= table'[r]
             /\ \/ table'[r] = table[r]
                \/ r \in Holds(file[l]) /\ table'[r] = lake[file[l]].versions[r]
  <2>1. table'[r] = Seen(l, r)
    BY DEF Commit
  <2>2. CASE written[l][r] = 0
    BY <1>4, <2>1, <2>2 DEF Seen
  <2>3. CASE written[l][r] # 0
    <3>1. table'[r] = lake[file[l]].versions[r] /\ lake[file[l]].versions[r] # 0
      BY <1>1, <2>1, <2>3 DEF Seen, WrittenOK, Incoming
    <3>2. r \in Holds(file[l])
      BY <3>1 DEF Holds
    <3> QED BY <1>1, <1>3, <3>1, <3>2 DEF ArrivalOK
  <2> QED BY <2>2, <2>3
<1>6. Outcome(l) \in {"LOADED", "EMPTY"}
  <2>1. failed[l] = {} /\ skipped[l] = {}
    BY <1>1 DEF WrittenOK
  <2>2. CASE Holds(file[l]) = {}
    BY <2>2 DEF Outcome
  <2>3. CASE Holds(file[l]) # {}
    BY <2>1, <2>3 DEF Outcome
  <2> QED BY <2>2, <2>3
<1> QED BY <1>3, <1>5, <1>6

\* A file is loaded.
LEMMA CompleteOrder ==
  ASSUME OneLoader, ClaimInv, InOrder, Calm, NEW l \in Loaders, Complete(l)
  PROVE  InOrder'
<1> DEFINE done == file[l]
<1> SUFFICES LandedInv' /\ ArrivalOK' /\ OrderOK' /\ WrittenOK'
  BY DEF InOrder
<1>1. LandedInv /\ ArrivalOK /\ OrderOK /\ WrittenOK
  BY DEF InOrder
<1>2. /\ Commit(l) /\ Rollback(l) /\ NextFile(l)
      /\ UNCHANGED <<newest, landed, lake, batch>>
  BY DEF Complete, Commit, lakeVars
<1>3. /\ done \in 1..landed /\ Pending(done)
      /\ \A r \in Records :
           \/ table'[r] = table[r]
           \/ r \in Holds(done) /\ table'[r] = lake[done].versions[r]
      /\ Outcome(l) \in {"LOADED", "EMPTY"}
  BY <1>2, CommitOrder
<1>4. landed \in Nat /\ \A f \in 1..landed : f \in Files
  <2>1. landed \in 0..MaxFiles
    BY DEF ClaimInv, TypeInv, TypeOK
  <2> QED BY <2>1
<1>5. \A f \in Files : f # done => row'[f] = row[f]
  BY <1>2, CommitTypes DEF ClaimInv
<1>6. row'[done].status \in {"LOADED", "EMPTY"}
  <2>1. row \in [Files -> DataLakeFile] /\ done \in Files
    BY <1>3, <1>4 DEF ClaimInv, TypeInv, TypeOK
  <2>2. row' = [row EXCEPT ![done] =
                  [row[done] EXCEPT !.status = Outcome(l), !.errors = LastError(l)]]
    BY <1>2 DEF Commit
  <2>3. row'[done].status = Outcome(l)
    BY <2>1, <2>2 DEF DataLakeFile
  <2> QED BY <1>3, <2>3
<1>7. /\ pc'[l] \in {"idle", "next"} /\ file'[l] = NoFile
      /\ written'[l] = Nothing /\ failed'[l] = {} /\ skipped'[l] = {}
  BY <1>2 DEF NextFile, Rollback, ClaimInv, TypeInv, TypeOK
<1>8. batch[l] \subseteq Files /\ Holding(l) = batch[l] \cup {done} /\ Holding(l)' = batch[l]
  BY <1>2, <1>3, <1>7 DEF Holding, ClaimInv, TypeInv, TypeOK
<1> HIDE DEF done
<1>9. \A f \in 1..landed : Pending(f)' => f # done /\ Pending(f) /\ done < f
  <2> SUFFICES ASSUME NEW f \in 1..landed, Pending(f)'
               PROVE  f # done /\ Pending(f) /\ done < f
    OBVIOUS
  <2>1. f # done
    BY <1>6 DEF Pending
  <2>2. Pending(f)
    BY <1>4, <1>5, <2>1 DEF Pending
  <2>3. f < done => f \in batch[l]
    BY <1>1, <1>8, <2>1, <2>2 DEF OrderOK
  <2>4. f \in batch[l] => done < f
    BY <1>1 DEF OrderOK, done
  <2> QED BY <1>3, <2>1, <2>2, <2>3, <2>4
<1>10. LandedInv'
  <2>1. \A f \in Files : f > landed => f # done
    BY <1>3, <1>4
  <2> QED BY <1>1, <1>2, <1>5, <2>1 DEF LandedInv
<1>11. ArrivalOK'
  BY <1>1, <1>2, <1>3, <1>9 DEF ArrivalOK, Holds
<1>12. OrderOK'
  <2>1. \A o \in Loaders : o = l
    BY DEF OneLoader
  <2>2. landed' = landed
    BY <1>2
  <2>3. \A f \in 1..landed : /\ Pending(f)' \/ row'[f].status \in {"LOADED", "EMPTY"}
                             /\ row'[f].status = "PROCESSING" => f \in batch[l]
    BY <1>1, <1>4, <1>5, <1>6, <1>8, <2>1 DEF OrderOK, Pending
  <2>4. \A f \in batch[l] : f \in 1..landed /\ f # done
    BY <1>1, <1>3, <1>8 DEF OrderOK, done
  <2>5. \A f \in batch[l] : row'[f].status = "PROCESSING" /\ ~row'[f].stale
    BY <1>1, <1>5, <1>8, <2>4 DEF OrderOK
  <2>6. \A f \in batch[l], g \in 1..landed : g < f /\ Pending(g)' => g \in batch[l]
    BY <1>1, <1>8, <1>9 DEF OrderOK
  <2>7. \A f \in batch'[l] : file'[l] < f
    BY <1>2, <1>7, <1>8
  <2> QED BY <1>8, <2>1, <2>2, <2>3, <2>4, <2>5, <2>6, <2>7 DEF OrderOK
<1>13. WrittenOK'
  BY <1>7 DEF OneLoader, WrittenOK, Nothing
<1> QED BY <1>10, <1>11, <1>12, <1>13

\* Trouble does not go away.
LEMMA CalmBefore == TypeInv /\ [Next]_vars /\ Calm' => Calm
<1> SUFFICES ASSUME TypeInv, [Next]_vars, Calm' PROVE Calm
  OBVIOUS
<1>1. /\ trouble \in Nat /\ trouble' = 0 /\ landed \in 0..MaxFiles
      /\ \A f \in 1..landed' : ~lake'[f].corrupt /\ lake'[f].bad = {}
  BY DEF Calm, Faulty, TypeInv, TypeOK
<1>2. CASE Land
  <2>1. landed' = landed + 1 /\ trouble' = trouble
    BY <1>2 DEF Land
  <2>2. \A f \in 1..landed : f \in 1..landed' /\ lake'[f] = lake[f]
    BY <1>1, <1>2, <2>1 DEF Land, TypeInv, TypeOK
  <2> QED BY <1>1, <2>1, <2>2 DEF Calm, Faulty
<1>3. CASE UNCHANGED lakeVars /\ (trouble' = trouble \/ Trouble)
  BY <1>1, <1>3 DEF lakeVars, Trouble, Calm, Faulty
<1>4. ASSUME NEW l \in Loaders, Load(l) \/ Interrupt(l)
      PROVE  UNCHANGED lakeVars /\ (trouble' = trouble \/ Trouble)
  BY <1>4 DEF Load, Interrupt, Claim, Open, Merge, Complete, MarkFailed, MapFails, Check,
     RecordFails, CompleteUnheard, FileFails, Crash
<1>5. ASSUME NEW f \in Files, Expire(f)
      PROVE  UNCHANGED lakeVars /\ (trouble' = trouble \/ Trouble)
  BY <1>5 DEF Expire
<1>6. UNCHANGED vars => UNCHANGED lakeVars /\ trouble' = trouble
  BY DEF vars
<1> QED BY <1>2, <1>3, <1>4, <1>5, <1>6 DEF Next, Environment

\* Every step keeps the order.
LEMMA OrderStep ==
  ASSUME OneLoader, Kind = "warehouse", ClaimInv, InOrder, [Next]_vars
  PROVE  InOrder'
<1>1. CASE ~Calm'
  BY <1>1 DEF InOrder
<1>2. CASE Calm'
  <2>1. Calm /\ trouble = 0 /\ trouble' = 0
    BY <1>2, CalmBefore DEF ClaimInv, Calm
  <2>2. ~Trouble
    BY <2>1 DEF Trouble
  <2>3. OrderOK /\ WrittenOK
    BY <2>1 DEF InOrder
  <2>4. ASSUME NEW l \in Loaders, Load(l) \/ Interrupt(l)
        PROVE  InOrder'
    <3>1. CASE Claim(l)
      BY <2>1, <3>1, ClaimOrder
    <3>2. CASE Open(l)
      BY <2>1, <3>2, OpenOrder
    <3>3. CASE Complete(l)
      BY <2>1, <3>3, CompleteOrder
    <3>4. CASE Merge(l) \/ \E r \in Records : MapFails(l, r) \/ Check(l, r)
      BY <2>1, <3>4, RecordOrder
    <3>5. ~MarkFailed(l) /\ ~Interrupt(l)
      BY <2>2, <2>3 DEF WrittenOK, MarkFailed, Interrupt, RecordFails, CompleteUnheard,
         FileFails, Crash
    <3> QED BY <2>4, <3>1, <3>2, <3>3, <3>4, <3>5 DEF Load
  <2>5. CASE Environment
    <3>1. CASE Land
      BY <2>1, <3>1, LandOrder DEF ClaimInv
    <3>2. ASSUME NEW f \in Files, Expire(f)
          PROVE  FALSE
      <4>1. f \in 1..landed
        <5>1. landed \in 0..MaxFiles
          BY DEF ClaimInv, TypeInv, TypeOK
        <5>2. ~(f > landed)
          BY <2>1, <3>2 DEF Expire, InOrder, LandedInv
        <5> QED BY <5>1, <5>2
      <4>2. \E l \in Loaders : f \in Holding(l)
        BY <2>3, <3>2, <4>1 DEF Expire, OrderOK
      <4> QED BY <2>2, <3>2, <4>2 DEF Expire
    <3> QED BY <2>5, <3>1, <3>2 DEF Environment
  <2>6. CASE UNCHANGED vars
    <3>1. UNCHANGED <<newest, landed, lake, row, table, pc, batch, file, written, failed,
                      skipped>>
      BY <2>6 DEF vars, lakeVars, run
    <3>2. LandedInv' /\ ArrivalOK' /\ OrderOK' /\ WrittenOK'
      BY <2>1, <3>1 DEF InOrder, LandedInv, ArrivalOK, OrderOK, WrittenOK, Loading,
         Incoming, Holds, Holding, Pending
    <3> QED BY <3>2 DEF InOrder
  <2> QED BY <2>4, <2>5, <2>6 DEF Next
<1> QED BY <1>1, <1>2

\* The loaders of the warehouses' files (process_shipment_data), one at a time: as
\* long as nothing fails, what a run has in hand is the oldest of what is still to
\* be loaded, and the table has no record in a newer version than that.
THEOREM LoadedInOrder ==
  ASSUME OneLoader, Kind = "warehouse"
  PROVE  Spec => []InOrder
<1>1. Init => InOrder
  <2> SUFFICES ASSUME Init PROVE LandedInv /\ ArrivalOK /\ OrderOK /\ WrittenOK
    BY DEF InOrder
  <2>1. landed = 0 /\ \A l \in Loaders : Holding(l) = {} /\ batch[l] = {}
    BY DEF Init, Holding
  <2>2. LandedInv /\ ArrivalOK
    BY <2>1 DEF Init, LandedInv, ArrivalOK, Nothing
  <2>3. OrderOK /\ WrittenOK
    BY <2>1 DEF Init, OrderOK, WrittenOK, Nothing
  <2> QED BY <2>2, <2>3
<1>2. ClaimInv /\ InOrder /\ [Next]_vars => InOrder'
  BY OrderStep
<1> QED BY <1>1, <1>2, Claims, PTL DEF Spec

\* So they need no version guard until something fails: only then may a file that
\* is tried again put an older record over a newer one.
THEOREM OlderOnlyThen ==
  ASSUME OneLoader, Kind = "warehouse"
  PROVE  Spec => OlderOnlyAfterTrouble
<1>1. ASSUME ClaimInv, InOrder, [Next]_vars, Calm, NEW r \in Records
      PROVE  table[r] <= table'[r]
  <2>1. table[r] \in Nat
    BY <1>1 DEF ClaimInv, TypeInv, TypeOK
  <2>2. CASE table' = table
    BY <2>1, <2>2
  <2>3. ASSUME NEW l \in Loaders, Commit(l)
        PROVE  table[r] <= table'[r]
    BY <1>1, <2>3, CommitOrder
  <2>4. ASSUME NEW l \in Loaders, Load(l) \/ Interrupt(l), table' # table
        PROVE  Commit(l)
    BY <2>4 DEF Load, Interrupt, Claim, Open, Merge, MarkFailed, MapFails, Check,
       RecordFails, FileFails, Crash, Complete, CompleteUnheard
  <2>5. Environment \/ UNCHANGED vars => table' = table
    BY DEF Environment, Land, Expire, vars
  <2> QED BY <1>1, <2>2, <2>3, <2>4, <2>5 DEF Next
<1>2. ClaimInv /\ InOrder /\ [Next]_vars
        => [Calm => \A r \in Records : table[r] <= table'[r]]_vars
  BY <1>1
<1> QED BY <1>2, Claims, LoadedInOrder, PTL DEF Spec, OlderOnlyAfterTrouble
=============================================================================
