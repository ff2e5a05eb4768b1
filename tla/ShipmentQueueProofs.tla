------------------------- MODULE ShipmentQueueProofs -------------------------
(***************************************************************************)
(* Proofs about ShipmentQueue, for any set of keys, runs, lines and values *)
(***************************************************************************)
EXTENDS ShipmentQueue, TLAPS

\* What an upsert may do to a row.
LEMMA UpsertedRow ==
  ASSUME NEW r \in Row, NEW h \in Shipment
  PROVE  /\ Upserted(r, h) \in Row
         /\ Upserted(r, h).status \in {"absent", "pending", "failed"}
              => r.status \in {"absent", "pending", "failed"}
         /\ Upserted(r, h).status = "sent" => r.status = "sent"
         /\ Upserted(r, h).sos_shipment_id # 0 \/ r.status # "absent"
              => Upserted(r, h).sos_shipment_id = r.sos_shipment_id
         /\ r.status \notin {"absent", "pending"}
              => Upserted(r, h).status \in {r.status, "reconcile"}
         /\ r.status = "failed" => Upserted(r, h).status = "failed"
         /\ r.status \in {"absent", "pending"} => Upserted(r, h).status = "pending"
<1> USE DEF Row, Status, Hash
<1>1. CASE r.status = "absent"
  <2>1. Upserted(r, h) = [status |-> "pending", payload_hash |-> h,
                          attempts |-> 0, sos_shipment_id |-> 0,
                          last_error |-> FALSE, ripe |-> FALSE]
    BY <1>1 DEF Upserted, NoRow
  <2> QED BY <1>1, <2>1
<1>2. CASE r.status # "absent" /\ r.payload_hash = h
  BY <1>2 DEF Upserted
<1>3. CASE /\ r.status # "absent" /\ r.payload_hash # h
           /\ r.status \in {"sent", "processing", "reconcile"}
  <2>1. Upserted(r, h) = [r EXCEPT !.payload_hash = h, !.status = "reconcile",
                                   !.last_error = TRUE]
    BY <1>3 DEF Upserted
  <2> QED BY <1>3, <2>1
<1>4. CASE /\ r.status # "absent" /\ r.payload_hash # h
           /\ r.status \notin {"sent", "processing", "reconcile"}
  <2>1. Upserted(r, h) = [r EXCEPT !.payload_hash = h]
    BY <1>4 DEF Upserted
  <2> QED BY <1>4, <2>1
<1> QED BY <1>1, <1>2, <1>3, <1>4

\* What _finish_attempt may make of a row r.
FinishOf(r, status, id, f) ==
  /\ f \in Row
  /\ f.status \in {"sent", "failed", "reconcile"}
  /\ f.status = "failed" => r.status = "processing" /\ status = "failed"
  /\ f.status = "sent" => f = r \/ (r.status = "processing" /\ status = "sent")
  /\ f.sos_shipment_id = IF id # 0 THEN id ELSE r.sos_shipment_id

LEMMA FinishedRow ==
  ASSUME NEW r \in Row, NEW job \in Job, NEW id \in Nat,
         NEW status \in {"sent", "failed", "reconcile"}
  PROVE  FinishOf(r, status, id, Finished(r, job, status, id))
<1> PICK f : f = Finished(r, job, status, id)
  OBVIOUS
<1> SUFFICES FinishOf(r, status, id, f)
  OBVIOUS
<1> USE DEF FinishOf
<1> DEFINE stale == r.status # "processing" \/ r.payload_hash # job.payload_hash
<1>1. CASE r.status = "sent" /\ r.sos_shipment_id = id
  BY <1>1 DEF Finished, Row
<1>2. CASE ~(r.status = "sent" /\ r.sos_shipment_id = id)
  <2>1. f =
          [r EXCEPT !.status = IF stale THEN "reconcile" ELSE status,
                    !.last_error = stale \/ status # "sent",
                    !.sos_shipment_id = IF id # 0 THEN id ELSE r.sos_shipment_id]
    BY <1>2 DEF Finished, Row
  <2> QED BY <2>1 DEF Row, Status
<1> QED BY <1>1, <1>2

LEMMA MergedShipment ==
  ASSUME NEW k \in Keys, NEW s \in Shipment,
         source[k] \in Shipment \cup {NoShipment}
  PROVE  Imported(k, s) \in Shipment /\ Hashed(k, s) \in Shipment
BY DEF Imported, Hashed, Merge, Shipment, NoLines

\* Type correctness of a step of the importers.
LEMMA ImportType ==
  ASSUME IInv, Import
  PROVE  TypeOK'
<1>1. ASSUME NEW k \in Keys, NEW s \in Shipment, NEW queued \in BOOLEAN,
             ImportWarehouse(k, s, queued)
      PROVE  TypeOK'
  <2>1. Imported(k, s) \in Shipment /\ Hashed(k, s) \in Shipment
    BY MergedShipment DEF IInv, TypeOK
  <2>2. Upserted(row[k], Hashed(k, s)) \in Row
    BY <2>1, UpsertedRow DEF IInv, TypeOK
  <2> QED BY <1>1, <2>1, <2>2 DEF ImportWarehouse, IInv, TypeOK, remote, attempt
<1>2. ASSUME NEW k \in Keys, NEW s \in Shipment, ImportSutton(k, s)
      PROVE  TypeOK'
  <2>1. Imported(k, s) \in Shipment
    BY MergedShipment DEF IInv, TypeOK
  <2> QED BY <1>2, <2>1 DEF ImportSutton, Hash, IInv, TypeOK, remote, attempt
<1>3. ASSUME NEW k \in Keys, QueueSutton(k)
      PROVE  TypeOK'
  <2>1. Upserted(row[k], report[k]) \in Row
    BY <1>3, UpsertedRow DEF QueueSutton, Hash, IInv, TypeOK
  <2> QED BY <1>3, <2>1 DEF QueueSutton, Hash, IInv, TypeOK, remote, attempt
<1>4. ASSUME NEW k \in Keys, Ripen(k)
      PROVE  TypeOK'
  BY <1>4 DEF Ripen, Row, IInv, TypeOK, tables, remote, attempt
<1> QED BY <1>1, <1>2, <1>3, <1>4 DEF Import

-----------------------------------------------------------------------------
(* Steps that leave SOS and the runs alone *)

\* With SOS unchanged, so is what it has of each key.
LEMMA SameRemote ==
  ASSUME UNCHANGED remote
  PROVE  \A k : ShipmentsOf(k)' = ShipmentsOf(k) /\ Trace(k)' = Trace(k)
BY DEF remote, ShipmentsOf, Trace

\* A row may change as an upsert changes it.
SafeRow(k) ==
  /\ row'[k].status \in {"absent", "pending", "failed"}
       => row[k].status \in {"absent", "pending", "failed"}
  /\ row'[k].status = "sent" => row[k].status = "sent"
  /\ row'[k].sos_shipment_id # 0 \/ row[k].status # "absent"
       => row'[k].sos_shipment_id = row[k].sos_shipment_id

LEMMA RowStep ==
  ASSUME IInv, TypeOK', UNCHANGED <<remote, pc, attempt>>,
         \A k \in Keys : SafeRow(k)
  PROVE  IInv'
<1>1. KeyInv'
  BY SameRemote DEF IInv, KeyInv, SafeRow, Holds, Working, attempt
<1>2. RunInv'
  BY SameRemote DEF IInv, RunInv, Working, attempt
<1>3. ExclusiveClaims'
  BY DEF IInv, ExclusiveClaims, Working, attempt
<1>4. WireInv' /\ AtMostOneShipment'
  BY DEF IInv, WireInv, AtMostOneShipment, remote
<1> QED BY <1>1, <1>2, <1>3, <1>4 DEF IInv

LEMMA ImportStep ==
  ASSUME IInv, Import
  PROVE  IInv'
<1>1. UNCHANGED <<remote, pc, attempt>>
  BY DEF Import, ImportWarehouse, ImportSutton, QueueSutton, Ripen
<1>2. ASSUME NEW k \in Keys, NEW s \in Shipment, NEW queued \in BOOLEAN,
             ImportWarehouse(k, s, queued), NEW j \in Keys
      PROVE  SafeRow(j)
  <2>1. Hashed(k, s) \in Shipment
    BY MergedShipment DEF IInv, TypeOK
  <2> QED BY <1>2, <2>1, UpsertedRow DEF ImportWarehouse, SafeRow, IInv, TypeOK
<1>3. ASSUME NEW k \in Keys, NEW s \in Shipment, ImportSutton(k, s),
             NEW j \in Keys
      PROVE  SafeRow(j)
  BY <1>3 DEF ImportSutton, SafeRow
<1>4. ASSUME NEW k \in Keys, QueueSutton(k), NEW j \in Keys
      PROVE  SafeRow(j)
  BY <1>4, UpsertedRow DEF QueueSutton, SafeRow, IInv, TypeOK, Hash
<1>5. ASSUME NEW k \in Keys, Ripen(k), NEW j \in Keys
      PROVE  SafeRow(j)
  BY <1>5 DEF Ripen, SafeRow, IInv, TypeOK, Row
<1>6. \A j \in Keys : SafeRow(j)
  BY <1>2, <1>3, <1>4, <1>5 DEF Import
<1> QED BY <1>1, <1>6, ImportType, RowStep

LEMMA DirectLoadStep ==
  ASSUME IInv, NEW chosen \in SUBSET Keys, DirectLoad(chosen)
  PROVE  IInv'
<1>1. TypeOK'
  BY DEF DirectLoad, IInv, TypeOK, Row, Status, Hash, NoRow, tables, remote,
         attempt
<1>2. ASSUME NEW j \in Keys
      PROVE  SafeRow(j)
  BY DEF DirectLoad, SafeRow, NoRow
<1>3. UNCHANGED <<remote, pc, attempt>>
  BY DEF DirectLoad
<1> QED BY <1>1, <1>2, <1>3, RowStep

-----------------------------------------------------------------------------
(* Steps of a run before it posts *)

\* A run moves on without touching any row, SOS, or what it knows.
LEMMA QuietStep ==
  ASSUME IInv, NEW w \in Workers, NEW to \in {"idle", "claim", "record"},
         UNCHANGED <<tables, row, remote, attempt, interrupted>>,
         candidates' \in [Workers -> SUBSET Keys],
         pc' = [pc EXCEPT ![w] = to],
         Working(w) <=> to = "record",
         to = "record" => pc[w] # "complete"
  PROVE  IInv'
<1>1. TypeOK'
  BY DEF IInv, TypeOK, Pc, tables, remote, attempt
<1>2. \A v \in Workers : Working(v)' = Working(v)
  BY DEF IInv, TypeOK, Working
<1>3. KeyInv'
  BY <1>2, SameRemote DEF IInv, KeyInv, Holds, attempt
<1>4. RunInv'
  BY <1>2, SameRemote DEF IInv, RunInv, TypeOK, attempt
<1>5. ExclusiveClaims'
  BY <1>2 DEF IInv, ExclusiveClaims, attempt
<1>6. WireInv' /\ AtMostOneShipment'
  BY DEF IInv, WireInv, AtMostOneShipment, remote
<1> QED BY <1>1, <1>3, <1>4, <1>5, <1>6 DEF IInv

LEMMA QuietSteps ==
  ASSUME IInv, NEW w \in Workers,
         \/ SelectCandidates(w) \/ EndRun(w)
         \/ \E k \in Keys : SkipCandidate(w, k)
         \/ BuildFails(w) \/ SendFails(w) \/ TransportError(w)
  PROVE  IInv'
<1> USE DEF Goto, Working
<1>1. CASE SelectCandidates(w)
  BY <1>1, QuietStep DEF SelectCandidates, IInv, TypeOK
<1>2. CASE EndRun(w)
  BY <1>2, QuietStep DEF EndRun, IInv, TypeOK
<1>3. ASSUME NEW k \in Keys, SkipCandidate(w, k)
      PROVE  IInv'
  <2>1. pc' = [pc EXCEPT ![w] = "claim"]
    BY <1>3 DEF SkipCandidate, IInv, TypeOK
  <2> QED BY <1>3, <2>1, QuietStep DEF SkipCandidate, IInv, TypeOK
<1>4. CASE BuildFails(w)
  BY <1>4, QuietStep DEF BuildFails, IInv, TypeOK
<1>5. CASE SendFails(w)
  BY <1>5, QuietStep DEF SendFails, IInv, TypeOK
<1>6. CASE TransportError(w)
  BY <1>6, QuietStep DEF TransportError, IInv, TypeOK
<1> QED BY <1>1, <1>2, <1>3, <1>4, <1>5, <1>6

LEMMA ClaimStep ==
  ASSUME IInv, NEW w \in Workers, NEW k \in Keys, Claim(w, k)
  PROVE  IInv'
<1> USE DEF Claim, Goto
<1>1. TypeOK' /\ claimed'[w] \in Job
  <2>1. /\ row[k] \in Row /\ row[k].payload_hash \in Hash
        /\ row[k].attempts + 1 \in Nat
    BY DEF IInv, TypeOK, Row
  <2>2. [row[k] EXCEPT !.status = "processing",
                       !.attempts = row[k].attempts + 1,
                       !.last_error = FALSE] \in Row
    BY <2>1 DEF Row, Status
  <2>3. row' \in [Keys -> Row]
    BY <2>2 DEF IInv, TypeOK
  <2>4. [key |-> k, attempts |-> row[k].attempts + 1,
         payload_hash |-> row[k].payload_hash] \in Job
    BY <2>1 DEF Job
  <2>5. claimed' \in [Workers -> Job \cup {NoJob}] /\ claimed'[w] \in Job
    BY <2>4 DEF IInv, TypeOK
  <2> QED BY <2>3, <2>5 DEF IInv, TypeOK, Pc, tables, remote
<1>2. /\ \A j \in Keys : j # k => row'[j] = row[j]
      /\ row[k].status = "pending" /\ row'[k].status = "processing"
      /\ row'[k].sos_shipment_id = row[k].sos_shipment_id
      /\ claimed'[w].key = k
      /\ \A v \in Workers : v # w => /\ claimed'[v] = claimed[v]
                                    /\ Working(v)' = Working(v)
      /\ ~Working(w) /\ Working(w)'
  BY DEF IInv, TypeOK, Row, Working
<1>3. ~Trace(k) /\ \A v \in Workers : ~Holds(v, k)
  BY <1>2 DEF IInv, KeyInv
<1>4. KeyInv'
  <2>1. \A j \in Keys : ShipmentsOf(j)' = ShipmentsOf(j) /\ Trace(j)' = Trace(j)
    BY SameRemote
  <2>2. ASSUME NEW j \in Keys, j # k, NEW v \in Workers, Holds(v, j)'
        PROVE  Holds(v, j)
    BY <1>2, <2>2 DEF Holds
  <2> HIDE DEF Claim, Goto
  <2> QED BY <1>2, <2>1, <2>2 DEF IInv, KeyInv
<1>5. RunInv'
  <2> SUFFICES ASSUME NEW v \in Workers PROVE RunInv!(v)'
    BY DEF RunInv
  <2>1. CASE v = w
    BY <2>1, <1>1, <1>2, <1>3, SameRemote DEF IInv, RunInv, TypeOK, Working
  <2>2. CASE v # w
    BY <2>2, <1>2, SameRemote DEF IInv, RunInv, TypeOK, Working
  <2> QED BY <2>1, <2>2
<1>6. ExclusiveClaims'
  BY <1>2, <1>3 DEF IInv, ExclusiveClaims, Holds
<1>7. WireInv' /\ AtMostOneShipment'
  BY DEF IInv, WireInv, AtMostOneShipment, remote
<1> QED BY <1>1, <1>4, <1>5, <1>6, <1>7 DEF IInv

LEMMA BuildStep ==
  ASSUME IInv, NEW w \in Workers, BuildTemplate(w)
  PROVE  IInv'
<1> USE DEF BuildTemplate, Goto
<1>1. claimed[w].key \in Keys
  BY DEF IInv, RunInv, Working, Job
<1>2. TypeOK' /\ template'[w] \in Shipment
  BY <1>1 DEF IInv, TypeOK, Pc, tables, remote, Mappable
<1>3. \A v \in Workers : Working(v)' = Working(v)
  BY DEF IInv, TypeOK, Working
<1>4. KeyInv'
  BY <1>3, SameRemote DEF IInv, KeyInv, Holds
<1>5. RunInv'
  BY <1>2, <1>3, SameRemote DEF IInv, RunInv, TypeOK, Working
<1>6. ExclusiveClaims'
  BY <1>3 DEF IInv, ExclusiveClaims
<1>7. WireInv' /\ AtMostOneShipment'
  BY DEF IInv, WireInv, AtMostOneShipment, remote
<1> QED BY <1>2, <1>4, <1>5, <1>6, <1>7 DEF IInv

-----------------------------------------------------------------------------
(* Steps that change what SOS has or may get *)

\* What a run that waits or is about to send knows about its request.
LEMMA OwnRequest ==
  ASSUME IInv, NEW w \in Workers, pc[w] \in {"post", "await"}
  PROVE  /\ claimed[w].key \in Keys /\ RequestOf(w) \in Request
         /\ RequestOf(w).key = claimed[w].key
         /\ row[claimed[w].key].status \notin {"absent", "pending", "failed"}
         /\ \A v \in Workers : v # w => ~Holds(v, claimed[w].key)
<1>1. Working(w) /\ claimed[w] \in Job /\ template[w] \in Shipment
  BY DEF IInv, RunInv, Working
<1>2. claimed[w].key \in Keys /\ RequestOf(w) \in Request
      /\ RequestOf(w).key = claimed[w].key
  BY <1>1 DEF Job, RequestOf, Request
<1>3. Holds(w, claimed[w].key)
  BY <1>1 DEF Holds
<1> QED BY <1>1, <1>2, <1>3 DEF IInv, KeyInv, ExclusiveClaims, Holds

LEMMA SendStep ==
  ASSUME IInv, NEW w \in Workers, SendPost(w)
  PROVE  IInv'
<1> USE DEF SendPost, Goto
<1> DEFINE k == claimed[w].key
<1>0. pc[w] = "post"
  OBVIOUS
<1>1. TypeOK'
  BY <1>0, OwnRequest DEF IInv, TypeOK, Pc, tables, attempt
<1>2. \A v \in Workers : Working(v)' = Working(v)
  BY DEF IInv, TypeOK, Working
<1>3. ~Trace(k)
  BY <1>0 DEF IInv, RunInv, Working
<1>4. \A j : /\ ShipmentsOf(j)' = ShipmentsOf(j)
             /\ j # k => Trace(j)' = Trace(j)
  BY <1>0, OwnRequest DEF Trace, ShipmentsOf
<1>5. KeyInv'
  <2> SUFFICES ASSUME NEW j \in Keys PROVE KeyInv!(j)'
    BY DEF KeyInv
  <2>1. \A v \in Workers : Holds(v, j)' = Holds(v, j)
    BY <1>2 DEF Holds, attempt
  <2>2. CASE j = k
    BY <2>2, <1>0, <1>4, OwnRequest DEF IInv, KeyInv
  <2>3. CASE j # k
    BY <2>1, <2>3, <1>4 DEF IInv, KeyInv
  <2> QED BY <2>2, <2>3
<1>6. RunInv'
  <2> SUFFICES ASSUME NEW v \in Workers PROVE RunInv!(v)'
    BY DEF RunInv
  <2>1. CASE v = w
    BY <2>1, <1>0, <1>1, <1>2, <1>4 DEF IInv, RunInv, TypeOK, attempt
  <2>2. CASE v # w
    <3>1. pc'[v] = pc[v]
      BY <2>2
    <3>2. Working(v) => claimed[v].key # k
      BY <2>2, <1>0, OwnRequest DEF Holds
    <3> QED BY <3>1, <3>2, <1>2, <1>4 DEF IInv, RunInv, TypeOK, attempt
  <2> QED BY <2>1, <2>2
<1>7. ExclusiveClaims'
  BY <1>2 DEF IInv, ExclusiveClaims, attempt
<1>8. WireInv' /\ AtMostOneShipment'
  BY <1>0, <1>3, OwnRequest
     DEF IInv, WireInv, AtMostOneShipment, Trace, ShipmentsOf
<1> QED BY <1>1, <1>5, <1>6, <1>7, <1>8 DEF IInv

\* SOS takes a request off the wire, and creates its shipment or does not.
Handled(q) ==
  /\ q \in wire
  /\ wire' = wire \ {q}
  /\ Created(q) \/ UNCHANGED shipments

LEMMA AppendShipment ==
  ASSUME NEW S, NEW s \in Seq(S), NEW e \in S
  PROVE  /\ Append(s, e) \in Seq(S)
         /\ DOMAIN s = 1..Len(s) /\ Len(s) \in Nat
         /\ DOMAIN Append(s, e) = 1..(Len(s) + 1)
         /\ \A i \in DOMAIN s : Append(s, e)[i] = s[i]
         /\ Append(s, e)[Len(s) + 1] = e
OBVIOUS

\* Handling a request never adds a trace, and never a second shipment.
LEMMA HandledRequest ==
  ASSUME IInv, NEW q, Handled(q)
  PROVE  /\ wire' \subseteq Request
         /\ shipments' \in Seq([key : Keys, body : Shipment])
         /\ WireInv' /\ AtMostOneShipment'
         /\ \A j : /\ Trace(j)' => Trace(j)
                   /\ ShipmentsOf(j) \subseteq ShipmentsOf(j)'
         /\ UNCHANGED shipments => ~Trace(q.key)'
         /\ Created(q) => Len(shipments) + 1 \in ShipmentsOf(q.key)'
<1> DEFINE e == [key |-> q.key, body |-> q.body]
<1>1. /\ q \in wire /\ wire' = wire \ {q} /\ e.key = q.key
      /\ \A p \in wire : p.key = q.key => p = q
      /\ \A i \in DOMAIN shipments : shipments[i].key # q.key
      /\ e \in [key : Keys, body : Shipment]
      /\ shipments \in Seq([key : Keys, body : Shipment])
  BY DEF Handled, IInv, WireInv, TypeOK, Request
<1>2. CASE UNCHANGED shipments
  <2>1. ~Trace(q.key)'
    BY <1>1, <1>2 DEF Trace, ShipmentsOf
  <2>2. ~Created(q)
    BY <1>1, <1>2, AppendShipment DEF Created
  <2> QED BY <1>1, <1>2, <2>1, <2>2
          DEF Trace, ShipmentsOf, IInv, TypeOK, WireInv, AtMostOneShipment
<1>3. CASE Created(q)
  <2> DEFINE n == Len(shipments)
  <2>1. /\ shipments' = Append(shipments, e)
        /\ shipments' \in Seq([key : Keys, body : Shipment])
        /\ DOMAIN shipments = 1..n /\ n \in Nat
        /\ DOMAIN shipments' = 1..(n + 1)
        /\ \A i \in DOMAIN shipments : shipments'[i] = shipments[i]
        /\ shipments'[n + 1].key = q.key
    <3> DEFINE S == [key : Keys, body : Shipment]
    <3>1. shipments' = Append(shipments, e)
      BY <1>3 DEF Created
    <3>2. shipments \in Seq(S) /\ e \in S
      BY <1>1
    <3> HIDE DEF S, e
    <3>3. /\ Append(shipments, e) \in Seq(S)
          /\ DOMAIN shipments = 1..n /\ n \in Nat
          /\ DOMAIN Append(shipments, e) = 1..(n + 1)
          /\ \A i \in DOMAIN shipments : Append(shipments, e)[i] = shipments[i]
          /\ Append(shipments, e)[n + 1] = e
      BY <3>2, AppendShipment
    <3> USE DEF S, e
    <3> QED BY <3>1, <3>3, <1>1
  <2>2. shipments' # shipments
    <3>1. n + 1 \in DOMAIN shipments' /\ n + 1 \notin DOMAIN shipments
      BY <2>1
    <3> QED BY <3>1
  <2>3. WireInv'
    <3>1. \A p, r \in wire' : p.key = r.key => p = r
      BY <1>1 DEF IInv, WireInv
    <3>2. ASSUME NEW p \in wire', NEW i \in DOMAIN shipments'
          PROVE  shipments'[i].key # p.key
      BY <1>1, <2>1 DEF IInv, WireInv
    <3> QED BY <3>1, <3>2 DEF WireInv
  <2>4. AtMostOneShipment'
    <3> SUFFICES ASSUME NEW i \in DOMAIN shipments', NEW j \in DOMAIN shipments',
                        shipments'[i].key = shipments'[j].key
                 PROVE  i = j
      BY DEF AtMostOneShipment
    <3>1. CASE i \in DOMAIN shipments /\ j \in DOMAIN shipments
      BY <2>1, <3>1 DEF IInv, AtMostOneShipment
    <3>2. CASE i = n + 1 \/ j = n + 1
      BY <1>1, <2>1, <3>2
    <3> QED BY <2>1, <3>1, <3>2
  <2>5. /\ \A j : ShipmentsOf(j) \subseteq ShipmentsOf(j)'
        /\ n + 1 \in ShipmentsOf(q.key)'
    BY <2>1 DEF ShipmentsOf
  <2>6. ASSUME NEW j, Trace(j)'
        PROVE  Trace(j)
    <3>1. CASE j = q.key
      BY <1>1, <3>1 DEF Trace
    <3>2. CASE j # q.key
      BY <1>1, <2>1, <2>6, <3>2 DEF Trace, ShipmentsOf
    <3> QED BY <3>1, <3>2
  <2> QED BY <1>1, <2>1, <2>2, <2>3, <2>4, <2>5, <2>6 DEF IInv, TypeOK
<1> QED BY <1>2, <1>3 DEF Handled

\* The answers: the run keeps its row, SOS handled its request.
LEMMA AnswerStep ==
  ASSUME IInv, NEW w \in Workers,
         \/ AnswerAccepted(w) \/ AnswerUnclear(w)
         \/ AnswerRejected(w) \/ AnswerUnauthorized(w)
  PROVE  IInv'
<1> PICK q, k : q = RequestOf(w) /\ k = claimed[w].key
  OBVIOUS
<1> USE DEF AnswerAccepted, AnswerUnclear, AnswerRejected, AnswerUnauthorized,
            Answer, Goto
<1>1. /\ pc[w] = "await" /\ pc'[w] \in {"complete", "record", "post"}
      /\ \E to \in {"complete", "record", "post"} : pc' = [pc EXCEPT ![w] = to]
      /\ UNCHANGED <<tables, row, candidates, claimed, template, interrupted>>
  BY DEF IInv, TypeOK, attempt
<1>2. Handled(q) /\ q.key = k
  BY <1>1, OwnRequest DEF Handled
<1>3. /\ wire' \subseteq Request
      /\ shipments' \in Seq([key : Keys, body : Shipment])
      /\ WireInv' /\ AtMostOneShipment'
      /\ \A j : /\ Trace(j)' => Trace(j)
                /\ ShipmentsOf(j) \subseteq ShipmentsOf(j)'
      /\ UNCHANGED shipments => ~Trace(k)'
      /\ Created(q) => Len(shipments) + 1 \in ShipmentsOf(k)'
  BY <1>2, HandledRequest
<1>4. Len(shipments) + 1 \in Nat /\ Len(shipments) + 1 # 0
  BY AppendShipment DEF IInv, TypeOK
<1>5. TypeOK'
  <2>1. pc' \in [Workers -> Pc]
    BY <1>1 DEF IInv, TypeOK, Pc
  <2>2. wire' \subseteq Request /\ shipments' \in Seq([key : Keys, body : Shipment])
    BY <1>3
  <2>3. TypeOK
    BY DEF IInv
  <2>4. /\ shipment_id' = shipment_id
           \/ shipment_id' = [shipment_id EXCEPT ![w] = Len(shipments) + 1]
        /\ post_started' = post_started \/ post_started' = [post_started EXCEPT ![w] = FALSE]
        /\ recovered' = recovered \/ recovered' = [recovered EXCEPT ![w] = TRUE]
    BY DEF attempt
  <2>5. /\ shipment_id' \in [Workers -> Nat]
        /\ post_started' \in [Workers -> BOOLEAN]
        /\ recovered' \in [Workers -> BOOLEAN]
    <3> HIDE DEF AnswerAccepted, AnswerUnclear, AnswerRejected, AnswerUnauthorized
    <3>1. /\ shipment_id \in [Workers -> Nat]
          /\ post_started \in [Workers -> BOOLEAN]
          /\ recovered \in [Workers -> BOOLEAN]
      BY <2>3 DEF TypeOK
    <3>2. shipment_id' \in [Workers -> Nat]
      BY <1>4, <2>4, <3>1
    <3>3. post_started' \in [Workers -> BOOLEAN]
      BY <2>4, <3>1
    <3>4. recovered' \in [Workers -> BOOLEAN]
      BY <2>4, <3>1
    <3> QED BY <3>2, <3>3, <3>4
  <2> HIDE DEF AnswerAccepted, AnswerUnclear, AnswerRejected, AnswerUnauthorized
  <2> QED BY <1>1, <2>1, <2>2, <2>3, <2>5 DEF TypeOK, tables
<1>6. \A v \in Workers : Working(v)' = Working(v)
  BY <1>1 DEF IInv, TypeOK, Working
<1>7. KeyInv'
  BY <1>1, <1>3, <1>6 DEF IInv, KeyInv, Holds
<1>8. ExclusiveClaims'
  BY <1>1, <1>6 DEF IInv, ExclusiveClaims
<1>9. RunInv'
  <2> SUFFICES ASSUME NEW v \in Workers PROVE RunInv!(v)'
    BY DEF RunInv
  <2>1. CASE v # w
    <3>1. /\ pc'[v] = pc[v] /\ post_started'[v] = post_started[v]
          /\ shipment_id'[v] = shipment_id[v]
      BY <2>1 DEF IInv, TypeOK, attempt
    <3> QED BY <1>1, <1>3, <1>6, <3>1 DEF IInv, RunInv
  <2>2. CASE v = w
    <3>1. Working(w) /\ Working(w)' /\ claimed[w] \in Job
          /\ template[w] \in Shipment /\ post_started[w]
          /\ claimed'[w].key = k
      BY <1>1 DEF IInv, RunInv, Working
    <3>2. shipment_id[w] # 0 => shipment_id[w] \in ShipmentsOf(k)'
      BY <1>3, <3>1 DEF IInv, RunInv
    <3>3. CASE AnswerAccepted(w)
      BY <2>2, <3>3, <1>1, <1>3, <1>4, <3>1, <3>2 DEF IInv, RunInv, TypeOK
    <3>4. CASE AnswerUnclear(w)
      BY <2>2, <3>4, <1>1, <1>3, <3>1, <3>2 DEF IInv, RunInv, TypeOK, attempt
    <3>5. CASE AnswerRejected(w) \/ AnswerUnauthorized(w)
      BY <2>2, <3>5, <1>1, <1>3, <3>1, <3>2 DEF IInv, RunInv, TypeOK
    <3> QED BY <3>3, <3>4, <3>5
  <2> QED BY <2>1, <2>2
<1> QED BY <1>3, <1>5, <1>7, <1>8, <1>9 DEF IInv

LEMMA CreateUnheardStep ==
  ASSUME IInv, NEW q \in wire, CreateUnheard(q)
  PROVE  IInv'
<1> USE DEF CreateUnheard
<1>1. Handled(q)
  BY DEF Handled
<1>2. TypeOK'
  BY <1>1, HandledRequest DEF IInv, TypeOK, tables, attempt
<1>3. WireInv' /\ AtMostOneShipment'
  BY <1>1, HandledRequest
<1>4. \A j : /\ Trace(j)' => Trace(j)
             /\ ShipmentsOf(j) \subseteq ShipmentsOf(j)'
  BY <1>1, HandledRequest
<1>5. KeyInv' /\ RunInv' /\ ExclusiveClaims'
  BY <1>4 DEF IInv, KeyInv, RunInv, ExclusiveClaims, Holds, Working, attempt
<1> QED BY <1>2, <1>3, <1>5 DEF IInv

-----------------------------------------------------------------------------
(* Steps that save an outcome or lose it *)

\* A row that a run may leave behind: refused only without a trace, sent only
\* with its shipment.
Settled(k) ==
  /\ row'[k].status \in {"sent", "failed", "reconcile"}
  /\ row'[k].status = "failed" => ~Trace(k)
  /\ row'[k].status = "sent" => row'[k].sos_shipment_id # 0
  /\ row'[k].sos_shipment_id # 0 => row'[k].sos_shipment_id \in ShipmentsOf(k)

LEMMA FinishStep ==
  ASSUME IInv, NEW w \in Workers, NEW k, k = claimed[w].key,
         NEW status \in {"sent", "failed", "reconcile"},
         pc[w] \in {"complete", "record"},
         status = "sent" => pc[w] = "complete",
         status = "failed" => ~post_started[w],
         FinishRow(w, status)
  PROVE  /\ row' \in [Keys -> Row] /\ Settled(k)
         /\ \A j \in Keys : j # k => row'[j] = row[j]
<1>1. /\ claimed[w] \in Job /\ k \in Keys /\ row[k] \in Row
      /\ shipment_id[w] \in Nat /\ Holds(w, k)
  BY DEF IInv, RunInv, TypeOK, Working, Holds, Job
<1> PICK f : f = Finished(row[k], claimed[w], status, shipment_id[w])
  OBVIOUS
<1>2. row' = [row EXCEPT ![k] = f]
  BY DEF FinishRow
<1>3. FinishOf(row[k], status, shipment_id[w], f)
  BY <1>1, FinishedRow
<1>4. row'[k] = f /\ row' \in [Keys -> Row]
  BY <1>1, <1>2, <1>3 DEF FinishOf, IInv, TypeOK
<1>5. f.status = "failed" => ~Trace(k)
  BY <1>1, <1>3 DEF FinishOf, IInv, RunInv, Holds
<1>6. /\ f.status = "sent" => f.sos_shipment_id # 0
      /\ f.sos_shipment_id # 0 => f.sos_shipment_id \in ShipmentsOf(k)
  BY <1>1, <1>3 DEF FinishOf, IInv, RunInv, KeyInv
<1> QED BY <1>2, <1>3, <1>4, <1>5, <1>6 DEF FinishOf, Settled, IInv, TypeOK

\* A run lets go of its row, which it settled or left as it was.
LEMMA ReleaseStep ==
  ASSUME IInv, TypeOK', NEW w \in Workers, NEW to \in {"idle", "claim"},
         UNCHANGED remote, pc' = [pc EXCEPT ![w] = to], shipment_id'[w] = 0,
         \A v \in Workers \ {w} :
           /\ claimed'[v] = claimed[v] /\ template'[v] = template[v]
           /\ post_started'[v] = post_started[v]
           /\ shipment_id'[v] = shipment_id[v],
         \A j \in Keys : row'[j] = row[j] \/ (Holds(w, j) /\ Settled(j))
  PROVE  IInv'
<1>1. /\ ~Working(w)' /\ pc'[w] = to
      /\ \A v \in Workers \ {w} : pc'[v] = pc[v] /\ Working(v)' = Working(v)
  BY DEF IInv, TypeOK, Working
<1>2. KeyInv'
  <2> SUFFICES ASSUME NEW j \in Keys PROVE KeyInv!(j)'
    BY DEF KeyInv
  <2>1. \A v \in Workers : Holds(v, j)' => v # w /\ Holds(v, j)
    BY <1>1 DEF Holds
  <2>2. CASE row'[j] = row[j]
    BY <2>1, <2>2, SameRemote DEF IInv, KeyInv
  <2>3. CASE Holds(w, j) /\ Settled(j)
    <3>1. \A v \in Workers : ~Holds(v, j)'
      BY <2>1, <2>3 DEF IInv, ExclusiveClaims, Holds
    <3> QED BY <2>3, <3>1, SameRemote DEF Settled
  <2> QED BY <2>2, <2>3
<1>3. RunInv'
  <2> SUFFICES ASSUME NEW v \in Workers PROVE RunInv!(v)'
    BY DEF RunInv
  <2>1. CASE v = w
    BY <2>1, <1>1
  <2>2. CASE v # w
    BY <2>2, <1>1, SameRemote DEF IInv, RunInv
  <2> QED BY <2>1, <2>2
<1>4. ExclusiveClaims'
  BY <1>1 DEF IInv, ExclusiveClaims
<1>5. WireInv' /\ AtMostOneShipment'
  BY DEF IInv, WireInv, AtMostOneShipment, remote
<1> QED BY <1>2, <1>3, <1>4, <1>5 DEF IInv

LEMMA OutcomeSteps ==
  ASSUME IInv, NEW w \in Workers,
         \/ Complete(w) \/ Record(w) \/ RecordFails(w) \/ Crash(w)
  PROVE  IInv'
<1> PICK k : k = claimed[w].key
  OBVIOUS
<1> DEFINE Others == \A v \in Workers \ {w} :
                       /\ claimed'[v] = claimed[v] /\ template'[v] = template[v]
                       /\ post_started'[v] = post_started[v]
                       /\ shipment_id'[v] = shipment_id[v]
<1> USE DEF Goto
<1>1. ASSUME pc[w] \in {"complete", "record"}
      PROVE  Holds(w, k) /\ k \in Keys
  BY <1>1 DEF IInv, RunInv, Holds, Working, Job
<1>2. ASSUME NextCandidate(w)
      PROVE  Others /\ shipment_id'[w] = 0
  BY <1>2 DEF NextCandidate, IInv, TypeOK
<1>3. ASSUME NextCandidate(w), pc' = [pc EXCEPT ![w] = "claim"],
             row' \in [Keys -> Row], interrupted' \subseteq Keys,
             UNCHANGED <<tables, remote>>
      PROVE  TypeOK'
  BY <1>3 DEF NextCandidate, IInv, TypeOK, Pc, tables, remote
<1>4. ASSUME pc' = [pc EXCEPT ![w] = "claim"], NextCandidate(w), TypeOK',
             UNCHANGED remote,
             \A j \in Keys : row'[j] = row[j] \/ (Holds(w, j) /\ Settled(j))
      PROVE  IInv'
  <2>1. Others /\ shipment_id'[w] = 0
    BY <1>2, <1>4
  <2> QED BY <1>4, <2>1, ReleaseStep
<1>5. CASE Complete(w)
  <2>1. /\ row' \in [Keys -> Row] /\ Settled(k)
        /\ \A j \in Keys : j # k => row'[j] = row[j]
    BY <1>5, FinishStep DEF Complete
  <2> QED BY <1>1, <1>3, <1>4, <1>5, <2>1 DEF Complete, IInv, TypeOK
<1>6. CASE Record(w)
  <2>1. /\ row' \in [Keys -> Row] /\ Settled(k)
        /\ \A j \in Keys : j # k => row'[j] = row[j]
    BY <1>6, FinishStep DEF Record, FailureStatus
  <2> QED BY <1>1, <1>3, <1>4, <1>6, <2>1 DEF Record, IInv, TypeOK
<1>7. CASE RecordFails(w)
  BY <1>1, <1>3, <1>4, <1>7 DEF RecordFails, IInv, TypeOK
<1>8. CASE Crash(w)
  <2>1. Working(w) => k \in Keys
    BY DEF IInv, RunInv, Job
  <2>2. TypeOK'
    BY <1>8, <2>1 DEF Crash, IInv, TypeOK, Pc, tables, remote
  <2>3. Others /\ shipment_id'[w] = 0
    BY <1>8 DEF Crash, IInv, TypeOK
  <2>4. /\ UNCHANGED <<row, remote>>
        /\ pc' = [pc EXCEPT ![w] = "idle"]
    BY <1>8 DEF Crash
  <2> QED BY <2>2, <2>3, <2>4, ReleaseStep
<1> QED BY <1>5, <1>6, <1>7, <1>8

\* The first attempt to save fails, or saves and is told otherwise.
LEMMA CompleteFailsStep ==
  ASSUME IInv, NEW w \in Workers, CompleteFails(w)
  PROVE  IInv'
<1> PICK k : k = claimed[w].key
  OBVIOUS
<1> USE DEF CompleteFails, Goto
<1>1. Holds(w, k) /\ k \in Keys /\ post_started[w]
  BY DEF IInv, RunInv, Holds, Working, Job
<1>2. CASE UNCHANGED row
  <2>1. TypeOK'
    BY <1>2 DEF IInv, TypeOK, Pc, tables, remote, attempt
  <2>2. \A v \in Workers : Working(v)' = Working(v)
    BY DEF IInv, TypeOK, Working
  <2>3. KeyInv' /\ RunInv' /\ ExclusiveClaims'
    BY <1>1, <1>2, <2>2, SameRemote
       DEF IInv, KeyInv, RunInv, ExclusiveClaims, Holds, TypeOK, attempt
  <2> QED BY <2>1, <2>3 DEF IInv, WireInv, AtMostOneShipment, remote
<1>3. CASE FinishRow(w, "sent")
  <2>1. /\ row' \in [Keys -> Row] /\ Settled(k)
        /\ \A j \in Keys : j # k => row'[j] = row[j]
        /\ row'[k].status # "failed"
    <3>1. /\ row' \in [Keys -> Row] /\ Settled(k)
          /\ \A j \in Keys : j # k => row'[j] = row[j]
      BY <1>3, FinishStep
    <3>2. row'[k].status # "failed"
      <4> PICK f : f = Finished(row[k], claimed[w], "sent", shipment_id[w])
        OBVIOUS
      <4>1. f.status # "failed"
        <5>1. /\ row[k] \in Row /\ claimed[w] \in Job
              /\ shipment_id[w] \in Nat
          BY <1>1 DEF IInv, TypeOK, RunInv, Holds
        <5>2. FinishOf(row[k], "sent", shipment_id[w], f)
          BY <5>1, FinishedRow
        <5> QED BY <5>2 DEF FinishOf
      <4>2. row' = [row EXCEPT ![k] = f]
        BY <1>3 DEF FinishRow
      <4> QED BY <1>1, <4>1, <4>2 DEF IInv, TypeOK
    <3> QED BY <3>1, <3>2
  <2>2. TypeOK'
    BY <2>1 DEF IInv, TypeOK, Pc, tables, remote, attempt
  <2>3. \A v \in Workers : Working(v)' = Working(v)
    BY DEF IInv, TypeOK, Working
  <2>4. KeyInv'
    BY <1>1, <2>1, <2>3, SameRemote DEF IInv, KeyInv, Holds, Settled, attempt
  <2>5. RunInv' /\ ExclusiveClaims'
    BY <1>1, <2>3, SameRemote DEF IInv, RunInv, ExclusiveClaims, TypeOK, attempt
  <2> QED BY <2>2, <2>4, <2>5 DEF IInv, WireInv, AtMostOneShipment, remote
<1> QED BY <1>2, <1>3
-----------------------------------------------------------------------------
(* The inductive invariant, and what follows from it *)

LEMMA InitIInv == Init => IInv
<1> SUFFICES ASSUME Init PROVE IInv
  OBVIOUS
<1> USE DEF Init
<1>1. TypeOK
  <2>1. NoRow \in Row
    BY DEF NoRow, Row, Status, Hash
  <2>2. shipments \in Seq([key : Keys, body : Shipment])
    OBVIOUS
  <2> QED BY <2>1, <2>2 DEF TypeOK, Hash, Pc
<1>2. \A k : ShipmentsOf(k) = {} /\ ~Trace(k)
  <2>1. DOMAIN shipments = {} /\ wire = {}
    OBVIOUS
  <2> QED BY <2>1, Zenon DEF ShipmentsOf, Trace
<1>3. \A w \in Workers : ~Working(w)
  BY DEF Working
<1>4. KeyInv
  BY <1>2, <1>3 DEF KeyInv, Holds, NoRow
<1>5. RunInv /\ ExclusiveClaims
  BY <1>3 DEF RunInv, ExclusiveClaims
<1>6. WireInv /\ AtMostOneShipment
  BY DEF WireInv, AtMostOneShipment
<1> QED BY <1>1, <1>4, <1>5, <1>6 DEF IInv

LEMMA RunStep ==
  ASSUME IInv, NEW w \in Workers,
         SelectCandidates(w) \/ Local(w) \/ Remote(w) \/ Crash(w)
  PROVE  IInv'
<1>1. CASE SelectCandidates(w)
  BY <1>1, QuietSteps
<1>2. CASE Local(w)
  BY <1>2, QuietSteps, ClaimStep, SendStep, OutcomeSteps, CompleteFailsStep
     DEF Local
<1>3. CASE Remote(w)
  BY <1>3, QuietSteps, BuildStep, AnswerStep DEF Remote
<1>4. CASE Crash(w)
  BY <1>4, OutcomeSteps
<1> QED BY <1>1, <1>2, <1>3, <1>4

LEMMA StutterStep ==
  ASSUME IInv, UNCHANGED vars
  PROVE  IInv'
BY DEF vars, tables, remote, attempt, IInv, TypeOK, KeyInv, RunInv, WireInv,
       ExclusiveClaims, AtMostOneShipment, Holds, Working, Trace, ShipmentsOf

LEMMA NextStep == IInv /\ [Next]_vars => IInv'
<1> SUFFICES ASSUME IInv, [Next]_vars PROVE IInv'
  OBVIOUS
<1>1. CASE Import
  BY <1>1, ImportStep
<1>2. ASSUME NEW chosen \in SUBSET Keys, DirectLoad(chosen) PROVE IInv'
  BY <1>2, DirectLoadStep
<1>3. ASSUME NEW q \in wire, CreateUnheard(q) PROVE IInv'
  BY <1>3, CreateUnheardStep
<1>4. ASSUME NEW w \in Workers,
             SelectCandidates(w) \/ Local(w) \/ Remote(w) \/ Crash(w)
      PROVE  IInv'
  BY <1>4, RunStep
<1>5. CASE UNCHANGED vars
  BY <1>5, StutterStep
<1> QED BY <1>1, <1>2, <1>3, <1>4, <1>5 DEF Next

\* The invariant of the queue holds however many rows, overlapping runs and
\* importers there are.
THEOREM Invariance == Spec => []IInv
BY InitIInv, NextStep, PTL DEF Spec

\* Every variable keeps its shape.
THEOREM TypeCorrect == Spec => []TypeOK
<1>1. IInv => TypeOK
  BY DEF IInv
<1> QED BY <1>1, Invariance, PTL

\* SOS never gets two shipments of one row, whatever overlaps, crashes, lost
\* answers and imports process_shipment_sync meets.
THEOREM AtMostOnce == Spec => []AtMostOneShipment
<1>1. IInv => AtMostOneShipment
  BY DEF IInv
<1> QED BY <1>1, Invariance, PTL

\* A shipment that SOS has or may still create is never behind a row that reads
\* absent, pending or failed.
THEOREM NothingSilent == Spec => []NoSilentShipment
<1>1. IInv => NoSilentShipment
  BY DEF IInv, TypeOK, KeyInv, NoSilentShipment, Row, Status
<1> QED BY <1>1, Invariance, PTL

\* The id a sent row carries is that of a shipment SOS has of it.
THEOREM SentBacked == Spec => []SentIsBacked
<1>1. IInv => SentIsBacked
  BY DEF IInv, KeyInv, SentIsBacked
<1> QED BY <1>1, Invariance, PTL

-----------------------------------------------------------------------------
(* How one step may change a row *)

RowChange(k) ==
  \/ row'[k] = row[k]
  \/ row'[k] = [row[k] EXCEPT !.ripe = TRUE]
  \/ row'[k] = [NoRow EXCEPT !.status = "pending"] /\ Source[k] = "ksp"
  \/ \E h \in Shipment : row'[k] = Upserted(row[k], h)
                           /\ (Source[k] = "sutton" => QueueSutton(k))
  \/ \E w \in Workers : Claim(w, k)
  \/ \E w \in Workers, status \in {"sent", "failed", "reconcile"} :
       /\ Holds(w, k) /\ claimed[w] \in Job /\ shipment_id[w] \in Nat
       /\ row'[k] = Finished(row[k], claimed[w], status, shipment_id[w])

LEMMA FinishChange ==
  ASSUME IInv, NEW w \in Workers, NEW status \in {"sent", "failed", "reconcile"},
         Working(w), FinishRow(w, status), NEW k \in Keys
  PROVE  /\ RowChange(k)
         /\ Holds(w, k) =>
              row'[k] = Finished(row[k], claimed[w], status, shipment_id[w])
<1>1. /\ claimed[w] \in Job /\ claimed[w].key \in Keys /\ shipment_id[w] \in Nat
      /\ row \in [Keys -> Row]
  BY DEF IInv, TypeOK, RunInv, Job
<1>2. CASE k = claimed[w].key
  BY <1>1, <1>2 DEF FinishRow, RowChange, Holds
<1>3. CASE k # claimed[w].key
  BY <1>1, <1>3 DEF FinishRow, RowChange, Holds
<1> QED BY <1>2, <1>3

LEMMA StepChange ==
  ASSUME IInv, [Next]_vars, NEW k \in Keys
  PROVE  RowChange(k)
<1>0. row \in [Keys -> Row]
  BY DEF IInv, TypeOK
<1>1. CASE UNCHANGED row
  BY <1>1 DEF RowChange
<1>2. ASSUME NEW j \in Keys, NEW s \in Shipment, NEW queued \in BOOLEAN,
             ImportWarehouse(j, s, queued)
      PROVE  RowChange(k)
  <2>1. PICK h \in Shipment : h = Hashed(j, s)
    BY MergedShipment DEF IInv, TypeOK
  <2>2. row' = row \/ row' = [row EXCEPT ![j] = Upserted(row[j], h)]
    BY <1>2, <2>1 DEF ImportWarehouse
  <2>3. Source[j] # "sutton"
    BY <1>2 DEF ImportWarehouse
  <2> QED BY <1>0, <2>2, <2>3 DEF RowChange
<1>3. ASSUME NEW j \in Keys, QueueSutton(j) PROVE RowChange(k)
  <2>1. PICK h \in Shipment : h = report[j]
    BY <1>3 DEF QueueSutton, IInv, TypeOK, Hash
  <2>2. row' = [row EXCEPT ![j] = Upserted(row[j], h)]
    BY <1>3, <2>1 DEF QueueSutton
  <2> QED BY <1>0, <1>3, <2>2 DEF RowChange
<1>4. ASSUME NEW j \in Keys, Ripen(j) PROVE RowChange(k)
  BY <1>0, <1>4 DEF Ripen, RowChange
<1>5. ASSUME NEW chosen \in SUBSET Keys, DirectLoad(chosen) PROVE RowChange(k)
  BY <1>5 DEF DirectLoad, RowChange
<1>6. ASSUME NEW w \in Workers, NEW j \in Keys, Claim(w, j) PROVE RowChange(k)
  BY <1>0, <1>6 DEF Claim, RowChange
<1>7. ASSUME NEW w \in Workers, Complete(w) \/ CompleteFails(w) \/ Record(w)
      PROVE  RowChange(k)
  <2>1. Working(w)
    BY <1>7 DEF Complete, CompleteFails, Record, Goto, Working
  <2>2. \/ UNCHANGED row
        \/ \E status \in {"sent", "failed", "reconcile"} : FinishRow(w, status)
    BY <1>7 DEF Complete, CompleteFails, Record, FailureStatus
  <2> QED BY <1>1, <2>1, <2>2, FinishChange
<1>8. ASSUME NEW w \in Workers,
             \/ SelectCandidates(w) \/ Remote(w) \/ Crash(w) \/ EndRun(w)
             \/ \E j \in Keys : SkipCandidate(w, j)
             \/ SendPost(w) \/ SendFails(w) \/ RecordFails(w)
      PROVE  UNCHANGED row
  BY <1>8 DEF SelectCandidates, Remote, Crash, EndRun, SkipCandidate, SendPost,
     SendFails, RecordFails, BuildTemplate, BuildFails, AnswerAccepted,
     AnswerUnclear, AnswerRejected, AnswerUnauthorized, TransportError
<1>9. CASE Import
  BY <1>1, <1>2, <1>3, <1>4, <1>9 DEF Import, ImportSutton
<1>10. ASSUME NEW q \in wire, CreateUnheard(q) PROVE UNCHANGED row
  BY <1>10 DEF CreateUnheard
<1> QED BY <1>1, <1>5, <1>6, <1>7, <1>8, <1>9, <1>10 DEF Next, Local, vars

-----------------------------------------------------------------------------
(* What a row says of itself *)

Explained(r) == r.last_error <=> r.status \in {"failed", "reconcile"}

LEMMA UpsertedExplained ==
  ASSUME NEW r \in Row, NEW h \in Shipment, Explained(r)
  PROVE  Explained(Upserted(r, h))
<1> USE DEF Row, Status, Hash, Explained
<1>1. CASE r.status = "absent"
  <2>1. Upserted(r, h) = [status |-> "pending", payload_hash |-> h,
                          attempts |-> 0, sos_shipment_id |-> 0,
                          last_error |-> FALSE, ripe |-> FALSE]
    BY <1>1 DEF Upserted, NoRow
  <2> QED BY <2>1
<1>2. CASE r.status # "absent" /\ r.payload_hash = h
  BY <1>2 DEF Upserted
<1>3. CASE /\ r.status # "absent" /\ r.payload_hash # h
           /\ r.status \in {"sent", "processing", "reconcile"}
  <2>1. Upserted(r, h) = [r EXCEPT !.payload_hash = h, !.status = "reconcile",
                                   !.last_error = TRUE]
    BY <1>3 DEF Upserted
  <2> QED BY <1>3, <2>1
<1>4. CASE /\ r.status # "absent" /\ r.payload_hash # h
           /\ r.status \notin {"sent", "processing", "reconcile"}
  <2>1. Upserted(r, h) = [r EXCEPT !.payload_hash = h]
    BY <1>4 DEF Upserted
  <2> QED BY <1>4, <2>1
<1> QED BY <1>1, <1>2, <1>3, <1>4

LEMMA FinishedExplained ==
  ASSUME NEW r \in Row, NEW job \in Job, NEW id \in Nat,
         NEW status \in {"sent", "failed", "reconcile"}, Explained(r)
  PROVE  Explained(Finished(r, job, status, id))
<1> PICK stale \in BOOLEAN :
      stale = (r.status # "processing" \/ r.payload_hash # job.payload_hash)
  OBVIOUS
<1>1. CASE r.status = "sent" /\ r.sos_shipment_id = id
  BY <1>1 DEF Finished
<1>2. CASE ~(r.status = "sent" /\ r.sos_shipment_id = id)
  <2>1. PICK st \in {"sent", "failed", "reconcile"} :
          st = IF stale THEN "reconcile" ELSE status
    OBVIOUS
  <2>2. PICK e \in BOOLEAN : e = (stale \/ status # "sent")
    OBVIOUS
  <2>3. PICK i : i = IF id # 0 THEN id ELSE r.sos_shipment_id
    OBVIOUS
  <2>4. Finished(r, job, status, id) =
          [r EXCEPT !.status = st, !.last_error = e, !.sos_shipment_id = i]
    BY <1>2, <2>1, <2>2, <2>3 DEF Finished, Row
  <2>5. e <=> st \in {"failed", "reconcile"}
    BY <2>1, <2>2
  <2> QED BY <2>4, <2>5 DEF Row, Explained
<1> QED BY <1>1, <1>2

\* However imports, runs and failed commits meet in a row, it carries an error
\* exactly when it stopped short of being sent (shipment_sync_upsert,
\* _claim_attempt, _finish_attempt).
THEOREM ErrorsExplain == Spec => []ErrorExplainsHold
<1>1. Init => ErrorExplainsHold
  <2> SUFFICES ASSUME Init, NEW k \in Keys PROVE Explained(row[k])
    BY DEF ErrorExplainsHold, Explained
  <2>1. row[k] = NoRow /\ Explained(NoRow)
    BY DEF Init, Explained, NoRow
  <2> QED BY <2>1
<1>2. IInv /\ ErrorExplainsHold /\ [Next]_vars => ErrorExplainsHold'
  <2> SUFFICES ASSUME IInv, ErrorExplainsHold, [Next]_vars, NEW k \in Keys
               PROVE  Explained(row'[k])
    BY DEF ErrorExplainsHold, Explained
  <2>1. row[k] \in Row /\ row \in [Keys -> Row] /\ Explained(row[k])
    BY DEF IInv, TypeOK, ErrorExplainsHold, Explained
  <2>2. CASE row'[k] = [row[k] EXCEPT !.ripe = TRUE]
    BY <2>1, <2>2 DEF Explained, Row
  <2>3. CASE row'[k] = [NoRow EXCEPT !.status = "pending"]
    BY <2>3 DEF Explained, NoRow
  <2>4. ASSUME NEW w \in Workers, Claim(w, k) PROVE Explained(row'[k])
    BY <2>1, <2>4 DEF Explained, Row, Claim
  <2> QED BY <2>1, <2>2, <2>3, <2>4, StepChange, UpsertedExplained,
             FinishedExplained DEF RowChange
<1> QED BY <1>1, <1>2, Invariance, PTL DEF Spec

\* Who held a row goes on with it, leaves it settled, or was cut off.
LEMMA HoldersStep ==
  ASSUME IInv, [Next]_vars, NEW w \in Workers, NEW k \in Keys, Holds(w, k)
  PROVE  Holds(w, k)' \/ k \in interrupted' \/ row'[k].status # "processing"
<1>1. /\ Working(w) /\ claimed[w].key = k /\ claimed[w] \in Job
      /\ pc \in [Workers -> Pc] /\ claimed \in [Workers -> Job \cup {NoJob}]
      /\ shipment_id[w] \in Nat /\ row[k] \in Row
  BY DEF IInv, TypeOK, RunInv, Holds
<1>2. ASSUME claimed'[w] = claimed[w], pc'[w] \notin {"idle", "claim"}
      PROVE  Holds(w, k)'
  BY <1>1, <1>2 DEF Holds, Working
<1>3. CASE UNCHANGED <<pc, claimed>>
  BY <1>1, <1>2, <1>3 DEF Working
<1>4. ASSUME NEW v \in Workers, NEW to \in Pc \ {"idle", "claim"},
             pc' = [pc EXCEPT ![v] = to], UNCHANGED claimed
      PROVE  Holds(w, k)'
  BY <1>1, <1>2, <1>4 DEF Working
<1>5. ASSUME NEW v \in Workers, v # w, pc'[w] = pc[w], claimed'[w] = claimed[w]
      PROVE  Holds(w, k)'
  BY <1>1, <1>2, <1>5 DEF Working
<1>6. ASSUME NEW v \in Workers,
             SelectCandidates(v) \/ EndRun(v) \/ \E j \in Keys : Claim(v, j)
      PROVE  Holds(w, k)'
  <2>1. v # w
    BY <1>1, <1>6 DEF SelectCandidates, EndRun, Claim, Goto, Working
  <2>2. pc'[w] = pc[w] /\ claimed'[w] = claimed[w]
    BY <1>1, <1>6, <2>1 DEF SelectCandidates, EndRun, Claim, Goto, attempt
  <2> QED BY <1>5, <2>1, <2>2
<1>7. ASSUME NEW v \in Workers,
             \/ SendPost(v) \/ SendFails(v) \/ CompleteFails(v) \/ Remote(v)
      PROVE  Holds(w, k)'
  BY <1>4, <1>7 DEF SendPost, SendFails, CompleteFails, Remote, BuildTemplate,
     BuildFails, AnswerAccepted, AnswerUnclear, AnswerRejected,
     AnswerUnauthorized, TransportError, Answer, Goto, attempt, Pc
<1>8. ASSUME NEW v \in Workers, v # w,
             Complete(v) \/ Record(v) \/ RecordFails(v) \/ Crash(v)
      PROVE  Holds(w, k)'
  BY <1>1, <1>5, <1>8 DEF Complete, Record, RecordFails, Crash, Goto, NextCandidate
<1>9. CASE Complete(w) \/ Record(w)
  <2>1. PICK status \in {"sent", "failed", "reconcile"} : FinishRow(w, status)
    BY <1>9 DEF Complete, Record, FailureStatus
  <2>2. row'[k] = Finished(row[k], claimed[w], status, shipment_id[w])
    BY <1>1, <2>1, FinishChange
  <2>3. FinishOf(row[k], status, shipment_id[w], row'[k])
    BY <1>1, <2>2, FinishedRow
  <2> QED BY <1>1, <2>3 DEF FinishOf
<1>10. CASE RecordFails(w) \/ Crash(w)
  BY <1>1, <1>10 DEF RecordFails, Crash
<1>11. CASE \/ Import \/ (\E chosen \in SUBSET Keys : DirectLoad(chosen))
            \/ (\E q \in wire : CreateUnheard(q))
            \/ (\E v \in Workers, j \in Keys : SkipCandidate(v, j)) \/ UNCHANGED vars
  <2>1. UNCHANGED <<pc, claimed>>
    BY <1>11 DEF Import, ImportWarehouse, ImportSutton, QueueSutton, Ripen,
       DirectLoad, CreateUnheard, SkipCandidate, attempt, vars
  <2> QED BY <1>3, <2>1
<1> QED BY <1>6, <1>7, <1>8, <1>9, <1>10, <1>11 DEF Next, Local

\* A row that reads "processing" with no run at it is there only because a run
\* was stopped, or could not save the outcome, while it held that row.
THEOREM Stranded == Spec => []OnlyInterruptionsStrand
<1>1. Init => OnlyInterruptionsStrand
  BY DEF Init, OnlyInterruptionsStrand, NoRow
<1>2. IInv /\ OnlyInterruptionsStrand /\ [Next]_vars => OnlyInterruptionsStrand'
  <2> SUFFICES ASSUME IInv, OnlyInterruptionsStrand, [Next]_vars, NEW k \in Keys,
                      row'[k].status = "processing"
               PROVE  k \in interrupted' \/ \E w \in Workers : Holds(w, k)'
    BY DEF OnlyInterruptionsStrand
  <2>1. row[k] \in Row /\ interrupted \subseteq interrupted'
    <3>1. interrupted \subseteq interrupted'
      BY DEF Next, Import, ImportWarehouse, ImportSutton, QueueSutton, Ripen,
         DirectLoad, CreateUnheard, SelectCandidates, Local, Remote, Crash, Claim,
         SkipCandidate, EndRun, SendPost, SendFails, Complete, CompleteFails, Record,
         RecordFails, BuildTemplate, BuildFails, AnswerAccepted, AnswerUnclear,
         AnswerRejected, AnswerUnauthorized, TransportError, vars
    <3> QED BY <3>1 DEF IInv, TypeOK
  <2>2. ASSUME NEW w \in Workers, Claim(w, k) PROVE Holds(w, k)'
    BY <2>2 DEF Claim, Goto, Holds, Working, IInv, TypeOK
  <2>3. CASE row[k].status = "processing"
    BY <2>1, <2>3, HoldersStep DEF OnlyInterruptionsStrand
  <2>4. CASE row[k].status # "processing"
    <3>1. ASSUME NEW h \in Shipment, row'[k] = Upserted(row[k], h) PROVE FALSE
      BY <2>1, <2>4, <3>1, UpsertedRow DEF Row, Status
    <3>2. ASSUME NEW w \in Workers, NEW status \in {"sent", "failed", "reconcile"},
                 claimed[w] \in Job, shipment_id[w] \in Nat,
                 row'[k] = Finished(row[k], claimed[w], status, shipment_id[w])
          PROVE  FALSE
      <4>1. FinishOf(row[k], status, shipment_id[w], row'[k])
        BY <2>1, <3>2, FinishedRow
      <4> QED BY <2>1, <4>1 DEF FinishOf
    <3>3. row'[k] # [row[k] EXCEPT !.ripe = TRUE]
      BY <2>1, <2>4 DEF Row
    <3>4. row'[k] # [NoRow EXCEPT !.status = "pending"]
      BY DEF NoRow
    <3> QED BY <2>2, <2>4, <3>1, <3>2, <3>3, <3>4, StepChange DEF RowChange
  <2> QED BY <2>3, <2>4
<1> QED BY <1>1, <1>2, Invariance, PTL DEF Spec

-----------------------------------------------------------------------------
(* What SOS was sent of a Sutton report *)

\* Importing s anew leaves the tables as they are.
Absorbed(k, s) == Imported(k, s) = source[k]

\* What SOS has of the key, may still get, or is about to be sent.
Bodies(k) ==
  {shipments[i].body : i \in ShipmentsOf(k)}
    \cup {q.body : q \in {p \in wire : p.key = k}}
    \cup {template[w] : w \in {v \in Workers :
                                 Holds(v, k) /\ pc[v] \in {"post", "await"}}}

\* The queue row is about the last report that was queued; as long as no other
\* report waits, the tables say what that report says, and so does whatever SOS
\* may have of a row that is neither held nor refused.
SuttonOK(k) ==
  LET current == unqueued[k] \subseteq {row[k].payload_hash}
  IN /\ report[k] # NoHash => report[k] \in unqueued[k] /\ Absorbed(k, report[k])
     /\ row[k].status # "absent" /\ current => Absorbed(k, row[k].payload_hash)
     /\ row[k].status \in {"processing", "sent"} /\ current =>
          Bodies(k) \subseteq {source[k]}

\* The lines of a report replace those with the same key: importing it twice is
\* importing it once.
LEMMA ImportTwice ==
  ASSUME NEW k \in Keys, NEW s \in Shipment, source[k] \in Shipment \cup {NoShipment},
         source'[k] = Imported(k, s)
  PROVE  Absorbed(k, s)'
<1>1. NoShipment \notin Shipment
  BY ConstantsAssumption DEF Shipment
<1>2. \A o \in Shipment : Merge(Merge(o, s), s) = Merge(o, s)
  BY DEF Merge, Shipment
<1>3. Merge(s, s) = s
  <2>1. \A l \in Lines : (IF s.lines[l] = NoLine THEN s.lines[l] ELSE s.lines[l])
                         = s.lines[l]
    OBVIOUS
  <2>2. [l \in Lines |-> IF s.lines[l] = NoLine THEN s.lines[l] ELSE s.lines[l]]
          = s.lines
    BY <2>1 DEF Shipment
  <2>3. s = [header |-> s.header, lines |-> s.lines]
    BY DEF Shipment
  <2> QED BY <2>2, <2>3 DEF Merge
<1>4. source'[k] \in Shipment
  BY MergedShipment
<1> QED BY <1>1, <1>2, <1>3, <1>4 DEF Absorbed, Imported

LEMMA UpsertedHash ==
  ASSUME NEW r \in Row, NEW h \in Shipment
  PROVE  /\ Upserted(r, h).payload_hash = h
         /\ Upserted(r, h).status \in {"processing", "sent"} =>
              r.payload_hash = h /\ r.status = Upserted(r, h).status
<1> USE DEF Row, Status, Hash
<1>1. CASE r.status = "absent"
  <2>1. Upserted(r, h) = [status |-> "pending", payload_hash |-> h,
                          attempts |-> 0, sos_shipment_id |-> 0,
                          last_error |-> FALSE, ripe |-> FALSE]
    BY <1>1 DEF Upserted, NoRow
  <2> QED BY <2>1
<1>2. CASE r.status # "absent" /\ r.payload_hash = h
  BY <1>2 DEF Upserted
<1>3. CASE /\ r.status # "absent" /\ r.payload_hash # h
           /\ r.status \in {"sent", "processing", "reconcile"}
  <2>1. Upserted(r, h) = [r EXCEPT !.payload_hash = h, !.status = "reconcile",
                                   !.last_error = TRUE]
    BY <1>3 DEF Upserted
  <2> QED BY <1>3, <2>1
<1>4. CASE /\ r.status # "absent" /\ r.payload_hash # h
           /\ r.status \notin {"sent", "processing", "reconcile"}
  <2>1. Upserted(r, h) = [r EXCEPT !.payload_hash = h]
    BY <1>4 DEF Upserted
  <2> QED BY <1>4, <2>1
<1> QED BY <1>1, <1>2, <1>3, <1>4

LEMMA FinishedHash ==
  ASSUME NEW r \in Row, NEW job \in Job, NEW id \in Nat,
         NEW status \in {"sent", "failed", "reconcile"}
  PROVE  Finished(r, job, status, id).payload_hash = r.payload_hash
<1>1. CASE r.status = "sent" /\ r.sos_shipment_id = id
  BY <1>1 DEF Finished
<1>2. CASE ~(r.status = "sent" /\ r.sos_shipment_id = id)
  <2>1. \E st, e, i : Finished(r, job, status, id) =
          [r EXCEPT !.status = st, !.last_error = e, !.sos_shipment_id = i]
    BY <1>2 DEF Finished, Row
  <2> QED BY <2>1 DEF Row
<1> QED BY <1>1, <1>2

\* Run v is about to send for k, or waits for the answer.
Sends(v, k) == pc[v] \in {"post", "await"} /\ claimed[v].key = k

LEMMA BodiesIn ==
  ASSUME NEW k, NEW b
  PROVE  b \in Bodies(k) <=>
           \/ \E i \in DOMAIN shipments : shipments[i].key = k /\ shipments[i].body = b
           \/ \E q \in wire : q.key = k /\ q.body = b
           \/ \E v \in Workers : Sends(v, k) /\ template[v] = b
BY DEF Bodies, ShipmentsOf, Holds, Working, Sends

LEMMA BodiesInPrimed ==
  ASSUME NEW k, NEW b
  PROVE  b \in Bodies(k)' <=>
           \/ \E i \in DOMAIN shipments' : shipments'[i].key = k /\ shipments'[i].body = b
           \/ \E q \in wire' : q.key = k /\ q.body = b
           \/ \E v \in Workers : Sends(v, k)' /\ template'[v] = b
BY DEF Bodies, ShipmentsOf, Holds, Working, Sends

LEMMA QuietBodies ==
  ASSUME NEW k, UNCHANGED remote,
         \A v \in Workers : Sends(v, k)' => Sends(v, k) /\ template'[v] = template[v]
  PROVE  Bodies(k)' \subseteq Bodies(k)
BY BodiesIn, BodiesInPrimed DEF remote

LEMMA HandledBodies ==
  ASSUME IInv, NEW k, NEW q, Handled(q),
         \A v \in Workers : Sends(v, k)' => Sends(v, k) /\ template'[v] = template[v]
  PROVE  Bodies(k)' \subseteq Bodies(k)
<1>1. q \in wire /\ wire' \subseteq wire
  BY DEF Handled
<1>2. ASSUME NEW i \in DOMAIN shipments', shipments'[i].key = k
      PROVE  \/ i \in DOMAIN shipments /\ shipments'[i] = shipments[i]
             \/ q.key = k /\ shipments'[i].body = q.body
  <2>1. CASE UNCHANGED shipments
    BY <1>2, <2>1
  <2>2. CASE Created(q)
    <3> DEFINE e == [key |-> q.key, body |-> q.body]
               S == [key : Keys, body : Shipment]
               n == Len(shipments)
    <3>1. shipments \in Seq(S) /\ e \in S /\ shipments' = Append(shipments, e)
      BY <1>1, <2>2 DEF IInv, TypeOK, Request, Created
    <3>2. e.key = q.key /\ e.body = q.body
      OBVIOUS
    <3> HIDE DEF e, S
    <3>3. /\ DOMAIN shipments = 1..n /\ n \in Nat
          /\ DOMAIN shipments' = 1..(n + 1)
          /\ \A j \in DOMAIN shipments : shipments'[j] = shipments[j]
          /\ shipments'[n + 1] = e
      BY <3>1, AppendShipment
    <3>4. CASE i \in 1..n
      BY <3>3, <3>4
    <3>5. CASE i = n + 1
      BY <1>2, <3>2, <3>3, <3>5
    <3> QED BY <3>3, <3>4, <3>5
  <2> QED BY <2>1, <2>2 DEF Handled
<1> QED BY <1>1, <1>2, BodiesIn, BodiesInPrimed

LEMMA BodiesStep ==
  ASSUME IInv, [Next]_vars, NEW k \in Keys
  PROVE  \/ Bodies(k)' \subseteq Bodies(k)
         \/ UNCHANGED <<tables, row>> /\ Bodies(k)' \subseteq Bodies(k) \cup {source[k]}
<1>0. /\ pc \in [Workers -> Pc] /\ claimed \in [Workers -> Job \cup {NoJob}]
      /\ template \in [Workers -> Shipment \cup {NoShipment}]
  BY DEF IInv, TypeOK
<1>1. CASE UNCHANGED <<remote, pc, claimed, template>>
  BY <1>1, QuietBodies DEF Sends
<1>2. CASE \/ Import \/ (\E chosen \in SUBSET Keys : DirectLoad(chosen))
           \/ (\E v \in Workers, j \in Keys : SkipCandidate(v, j)) \/ UNCHANGED vars
  <2>1. UNCHANGED <<remote, pc, claimed, template>>
    BY <1>2 DEF Import, ImportWarehouse, ImportSutton, QueueSutton, Ripen,
       DirectLoad, SkipCandidate, attempt, vars
  <2> QED BY <1>1, <2>1
<1>3. ASSUME NEW w \in Workers, NEW to \in Pc \ {"post", "await"},
             pc' = [pc EXCEPT ![w] = to], UNCHANGED remote,
             \A v \in Workers \ {w} : claimed'[v] = claimed[v] /\ template'[v] = template[v]
      PROVE  Bodies(k)' \subseteq Bodies(k)
  BY <1>0, <1>3, QuietBodies DEF Sends
<1>4. ASSUME NEW w \in Workers,
             \/ SelectCandidates(w) \/ EndRun(w) \/ SendFails(w) \/ CompleteFails(w)
             \/ BuildFails(w) \/ TransportError(w)
      PROVE  Bodies(k)' \subseteq Bodies(k)
  <2>1. UNCHANGED <<remote, claimed, template>>
    BY <1>4 DEF SelectCandidates, EndRun, SendFails, CompleteFails, BuildFails,
       TransportError, attempt
  <2>2. \E to \in Pc \ {"post", "await"} : pc' = [pc EXCEPT ![w] = to]
    BY <1>4 DEF SelectCandidates, EndRun, SendFails, CompleteFails, BuildFails,
       TransportError, Goto, Pc
  <2> QED BY <1>3, <2>1, <2>2
<1>5. ASSUME NEW w \in Workers,
             Complete(w) \/ Record(w) \/ RecordFails(w) \/ Crash(w)
      PROVE  Bodies(k)' \subseteq Bodies(k)
  <2>1. \E to \in Pc \ {"post", "await"} : pc' = [pc EXCEPT ![w] = to]
    BY <1>5 DEF Complete, Record, RecordFails, Crash, Goto, Pc
  <2>2. /\ UNCHANGED remote
        /\ \A v \in Workers \ {w} : claimed'[v] = claimed[v] /\ template'[v] = template[v]
    BY <1>0, <1>5 DEF Complete, Record, RecordFails, Crash, NextCandidate
  <2> QED BY <1>3, <2>1, <2>2
<1>6. ASSUME NEW w \in Workers, NEW j \in Keys, Claim(w, j)
      PROVE  Bodies(k)' \subseteq Bodies(k)
  <2>1. pc' = [pc EXCEPT ![w] = "build"] /\ UNCHANGED remote /\ "build" \in Pc
    BY <1>6 DEF Claim, Goto, Pc
  <2>2. \A v \in Workers \ {w} : claimed'[v] = claimed[v] /\ template'[v] = template[v]
    BY <1>0, <1>6 DEF Claim
  <2> QED BY <1>3, <2>1, <2>2
<1>7. ASSUME NEW w \in Workers, SendPost(w)
      PROVE  Bodies(k)' \subseteq Bodies(k)
  <2>1. /\ pc[w] = "post" /\ pc' = [pc EXCEPT ![w] = "await"]
        /\ wire' = wire \cup {RequestOf(w)} /\ UNCHANGED <<shipments, claimed, template>>
    BY <1>7 DEF SendPost, Goto, attempt
  <2>2. RequestOf(w).key = claimed[w].key /\ RequestOf(w).body = template[w]
    BY DEF RequestOf
  <2>3. \A v \in Workers : Sends(v, k)' => Sends(v, k)
    BY <1>0, <2>1 DEF Sends
  <2>4. RequestOf(w).key = k => Sends(w, k)
    BY <2>1, <2>2 DEF Sends
  <2> QED BY <2>1, <2>2, <2>3, <2>4, BodiesIn, BodiesInPrimed
<1>8. ASSUME NEW w \in Workers, BuildTemplate(w)
      PROVE  UNCHANGED <<tables, row>> /\ Bodies(k)' \subseteq Bodies(k) \cup {source[k]}
  <2>1. /\ pc' = [pc EXCEPT ![w] = "post"] /\ UNCHANGED <<tables, row, remote, claimed>>
        /\ template' = [template EXCEPT ![w] = source[claimed[w].key]]
    BY <1>8 DEF BuildTemplate, Goto
  <2>2. \A v \in Workers \ {w} : /\ Sends(v, k)' => Sends(v, k)
                                 /\ template'[v] = template[v]
    BY <1>0, <2>1 DEF Sends
  <2>3. Sends(w, k)' => template'[w] = source[k]
    BY <1>0, <2>1 DEF Sends
  <2> QED BY <2>1, <2>2, <2>3, BodiesIn, BodiesInPrimed DEF remote
<1>9. ASSUME NEW w \in Workers,
             \/ AnswerAccepted(w) \/ AnswerUnclear(w)
             \/ AnswerRejected(w) \/ AnswerUnauthorized(w)
      PROVE  Bodies(k)' \subseteq Bodies(k)
  <2>1. /\ pc[w] = "await" /\ UNCHANGED <<claimed, template>>
        /\ \E to \in Pc : pc' = [pc EXCEPT ![w] = to]
        /\ Handled(RequestOf(w))
    BY <1>9 DEF AnswerAccepted, AnswerUnclear, AnswerRejected, AnswerUnauthorized,
       Answer, Goto, attempt, Handled, Pc
  <2>2. \A v \in Workers : Sends(v, k)' => Sends(v, k) /\ template'[v] = template[v]
    BY <1>0, <2>1 DEF Sends
  <2> QED BY <2>1, <2>2, HandledBodies
<1>10. ASSUME NEW q \in wire, CreateUnheard(q)
      PROVE  Bodies(k)' \subseteq Bodies(k)
  <2>1. Handled(q) /\ UNCHANGED <<pc, claimed, template>>
    BY <1>10 DEF CreateUnheard, Handled, attempt
  <2> QED BY <2>1, HandledBodies DEF Sends
<1> QED BY <1>2, <1>4, <1>5, <1>6, <1>7, <1>8, <1>9, <1>10 DEF Next, Local, Remote

\* Who changes the tables of a Sutton shipment.
LEMMA SuttonTables ==
  ASSUME IInv, [Next]_vars, NEW k \in Keys, Source[k] = "sutton"
  PROVE  \/ UNCHANGED <<source[k], report[k], unqueued[k]>> /\ ~QueueSutton(k)
         \/ \E s \in Shipment : ImportSutton(k, s)
         \/ QueueSutton(k)
<1>0. /\ source \in [Keys -> Shipment \cup {NoShipment}] /\ report \in [Keys -> Hash]
      /\ unqueued \in [Keys -> SUBSET Shipment]
  BY DEF IInv, TypeOK
<1>1. CASE UNCHANGED tables
  BY <1>1 DEF tables
<1>2. CASE Import
  <2>1. ASSUME NEW j \in Keys, NEW s \in Shipment, NEW queued \in BOOLEAN,
               ImportWarehouse(j, s, queued)
        PROVE  UNCHANGED <<source[k], report[k], unqueued[k]>>
    BY <1>0, <2>1 DEF ImportWarehouse
  <2>2. ASSUME NEW j \in Keys \ {k}, NEW s \in Shipment, ImportSutton(j, s)
        PROVE  UNCHANGED <<source[k], report[k], unqueued[k]>>
    BY <1>0, <2>2 DEF ImportSutton
  <2>3. ASSUME NEW j \in Keys \ {k}, QueueSutton(j)
        PROVE  UNCHANGED <<source[k], report[k], unqueued[k]>>
    BY <1>0, <2>3 DEF QueueSutton
  <2> QED BY <1>1, <1>2, <2>1, <2>2, <2>3 DEF Import, Ripen
<1>3. CASE ~Import
  BY <1>1, <1>3 DEF Next, DirectLoad, CreateUnheard, SelectCandidates, Local, Remote,
     Crash, Claim, SkipCandidate, EndRun, SendPost, SendFails, Complete, CompleteFails,
     Record, RecordFails, BuildTemplate, BuildFails, AnswerAccepted, AnswerUnclear,
     AnswerRejected, AnswerUnauthorized, TransportError, vars, tables
<1> QED BY <1>2, <1>3

\* A row that changes without a queued report is about the same report; one that
\* is taken up has been sent to nobody.
LEMMA SuttonRow ==
  ASSUME IInv, [Next]_vars, NEW k \in Keys, Source[k] = "sutton", ~QueueSutton(k)
  PROVE  /\ row'[k].payload_hash = row[k].payload_hash
         /\ row'[k].status # "absent" => row[k].status # "absent"
         /\ row'[k].status \in {"processing", "sent"} =>
              row[k].status \in {"processing", "sent"} \/ Bodies(k)' = {}
<1>1. row[k] \in Row /\ row \in [Keys -> Row]
  BY DEF IInv, TypeOK
<1>2. CASE row'[k] = row[k] \/ row'[k] = [row[k] EXCEPT !.ripe = TRUE]
  BY <1>1, <1>2 DEF Row
<1>3. ASSUME NEW w \in Workers, NEW status \in {"sent", "failed", "reconcile"},
             Holds(w, k), claimed[w] \in Job, shipment_id[w] \in Nat,
             row'[k] = Finished(row[k], claimed[w], status, shipment_id[w])
      PROVE  /\ row'[k].payload_hash = row[k].payload_hash
             /\ row[k].status # "absent"
             /\ row'[k].status \in {"processing", "sent"} =>
                  row[k].status \in {"processing", "sent"}
  <2>1. row[k].status # "absent"
    BY <1>3 DEF IInv, KeyInv
  <2>2. row'[k].payload_hash = row[k].payload_hash
    BY <1>1, <1>3, FinishedHash
  <2>3. FinishOf(row[k], status, shipment_id[w], row'[k])
    BY <1>1, <1>3, FinishedRow
  <2> QED BY <2>1, <2>2, <2>3 DEF FinishOf
<1>4. ASSUME NEW w \in Workers, Claim(w, k)
      PROVE  /\ row'[k].payload_hash = row[k].payload_hash
             /\ row[k].status # "absent" /\ Bodies(k)' = {}
  <2>1. row[k].status = "pending" /\ row'[k].payload_hash = row[k].payload_hash
    BY <1>1, <1>4 DEF Claim, Row
  <2>2. ~Trace(k) /\ \A v \in Workers : ~Holds(v, k)
    BY <2>1 DEF IInv, KeyInv
  <2>3. /\ pc' = [pc EXCEPT ![w] = "build"] /\ UNCHANGED remote
        /\ \A v \in Workers \ {w} : claimed'[v] = claimed[v]
    BY <1>4 DEF Claim, Goto, IInv, TypeOK
  <2>4. \A v \in Workers : ~Sends(v, k)'
    BY <2>2, <2>3 DEF Sends, Holds, Working, IInv, TypeOK
  <2>5. \A b : b \notin Bodies(k)'
    BY <2>2, <2>3, <2>4, BodiesInPrimed DEF Trace, ShipmentsOf, remote
  <2> QED BY <2>1, <2>5
<1> QED BY <1>2, <1>3, <1>4, StepChange DEF RowChange

LEMMA SuttonStep ==
  ASSUME IInv, [Next]_vars, NEW k \in Keys, Source[k] = "sutton", SuttonOK(k)
  PROVE  SuttonOK(k)'
<1>0. /\ source \in [Keys -> Shipment \cup {NoShipment}] /\ report \in [Keys -> Hash]
      /\ unqueued \in [Keys -> SUBSET Shipment] /\ row[k] \in Row
      /\ row \in [Keys -> Row]
  BY DEF IInv, TypeOK
<1>1. \/ Bodies(k)' \subseteq Bodies(k)
      \/ UNCHANGED <<tables, row>> /\ Bodies(k)' \subseteq Bodies(k) \cup {source[k]}
  BY BodiesStep
<1>2. CASE UNCHANGED <<source[k], report[k], unqueued[k]>> /\ ~QueueSutton(k)
  <2>1. \A s : Absorbed(k, s)' = Absorbed(k, s)
    BY <1>2 DEF Absorbed, Imported
  <2>2. Bodies(k)' \subseteq Bodies(k) \cup {source[k]}
    BY <1>1
  <2> QED BY <1>2, <2>1, <2>2, SuttonRow DEF SuttonOK
<1>3. ASSUME NEW s \in Shipment, ImportSutton(k, s)
      PROVE  SuttonOK(k)'
  <2>1. /\ source'[k] = Imported(k, s) /\ report'[k] = s
        /\ unqueued'[k] = unqueued[k] \cup {s} /\ row'[k] = row[k]
    BY <1>0, <1>3 DEF ImportSutton
  <2>2. Absorbed(k, s)'
    BY <1>0, <2>1, ImportTwice
  <2>3. CASE unqueued'[k] \subseteq {row[k].payload_hash}
    <3>1. s = row[k].payload_hash /\ unqueued[k] \subseteq {row[k].payload_hash}
      BY <2>1, <2>3
    <3>2. row[k].status # "absent" => source'[k] = source[k]
      BY <2>1, <3>1 DEF SuttonOK, Absorbed
    <3>3. Bodies(k)' \subseteq Bodies(k) \cup {source[k]}
      BY <1>1
    <3> QED BY <2>1, <2>2, <3>1, <3>2, <3>3 DEF SuttonOK
  <2>4. CASE ~(unqueued'[k] \subseteq {row[k].payload_hash})
    BY <2>1, <2>2, <2>4 DEF SuttonOK
  <2> QED BY <2>3, <2>4
<1>4. CASE QueueSutton(k)
  <2>1. PICK h \in Shipment : h = report[k] /\ h # NoHash
    BY <1>0, <1>4 DEF QueueSutton, Hash
  <2>2. /\ row'[k] = Upserted(row[k], h) /\ report'[k] = NoHash
        /\ unqueued'[k] = unqueued[k] \ {h} /\ source'[k] = source[k]
    BY <1>0, <1>4, <2>1 DEF QueueSutton
  <2>3. /\ row'[k].payload_hash = h
        /\ row'[k].status \in {"processing", "sent"} =>
             row[k].payload_hash = h /\ row[k].status = row'[k].status
    BY <1>0, <2>1, <2>2, UpsertedHash
  <2>4. Absorbed(k, h) /\ Absorbed(k, h)'
    BY <2>1, <2>2 DEF SuttonOK, Absorbed, Imported
  <2>5. unqueued'[k] \subseteq {h} => unqueued[k] \subseteq {h}
    BY <2>2
  <2>6. Bodies(k)' \subseteq Bodies(k) \cup {source[k]}
    BY <1>1
  <2> QED BY <2>2, <2>3, <2>4, <2>5, <2>6 DEF SuttonOK
<1> QED BY <1>2, <1>3, <1>4, SuttonTables

\* However reports, their queue rows and the runs meet (load of the Sutton report,
\* shipment_sync_upsert, process_shipment_sync): once every report is queued, a
\* Sutton row that reads "sent" has the shipment that the tables describe; a
\* report that came in between is held instead.
THEOREM SuttonMatches ==
  ASSUME NEW k \in Keys, Source[k] = "sutton"
  PROVE  Spec => [](row[k].status = "sent" /\ unqueued[k] = {}
                      => \A i \in ShipmentsOf(k) : shipments[i].body = source[k])
<1>1. Init => SuttonOK(k)
  BY DEF Init, SuttonOK, NoRow
<1>2. IInv /\ SuttonOK(k) /\ [Next]_vars => SuttonOK(k)'
  BY SuttonStep
<1>3. SuttonOK(k) => (row[k].status = "sent" /\ unqueued[k] = {}
                        => \A i \in ShipmentsOf(k) : shipments[i].body = source[k])
  BY DEF SuttonOK, Bodies
<1> QED BY <1>1, <1>2, <1>3, Invariance, PTL DEF Spec

\* So where all shipments come from Sutton reports, every sent row matches them.
COROLLARY AllSuttonMatch ==
  ASSUME \A k \in Keys : Source[k] = "sutton"
  PROVE  Spec => []SentMatchesSource
<1> DEFINE SuttonInv == \A k \in Keys : SuttonOK(k)
<1>1. Init => SuttonInv
  <2>1. ASSUME Init, NEW k \in Keys PROVE SuttonOK(k)
    BY <2>1 DEF Init, SuttonOK, NoRow
  <2> QED BY <2>1
<1>2. IInv /\ SuttonInv /\ [Next]_vars => SuttonInv'
  BY SuttonStep
<1>3. SuttonInv => SentMatchesSource
  BY DEF SentMatchesSource, SuttonOK, Bodies
<1> QED BY <1>1, <1>2, <1>3, Invariance, PTL DEF Spec

-----------------------------------------------------------------------------
(* ShipmentQueue implements AtMostOncePost, and never reopens a row: both  *)
(* follow from how a step may move a row and from the invariant.           *)

\* How one step may move a row: an attempt ends sent only with a shipment at
\* SOS and failed only without one, and what was attempted stays attempted.
RowMove(k) ==
  /\ row[k].status \in {"absent", "pending"}
       => row'[k].status \in {"absent", "pending", "processing"}
  /\ row[k].status = "processing"
       => \/ row'[k].status \in {"processing", "reconcile"}
          \/ row'[k].status = "sent" /\ ShipmentsOf(k) # {}
          \/ row'[k].status = "failed" /\ ShipmentsOf(k) = {}
  /\ row[k].status = "sent" => row'[k].status \in {"sent", "reconcile"}
  /\ row[k].status \in {"failed", "reconcile"}
       => row'[k].status = row[k].status
  /\ row[k].sos_shipment_id # 0
       => row'[k].sos_shipment_id = row[k].sos_shipment_id

\* Only row k moves, as far as the abstract specification can see.
OneMoves(k) ==
  /\ RowMove(k)
  /\ \A j \in Keys \ {k} :
       RowMove(j) /\ IntentOf(row'[j].status) = IntentOf(row[j].status)

LEMMA SameRow ==
  ASSUME TypeOK, NEW k \in Keys, row'[k] = row[k]
  PROVE  RowMove(k) /\ IntentOf(row'[k].status) = IntentOf(row[k].status)
BY DEF RowMove, TypeOK, Row, Status

\* When all rows but one are left alone, that one decides.
LEMMA OneRow ==
  ASSUME TypeOK, NEW k \in Keys, RowMove(k),
         \A j \in Keys \ {k} : row'[j] = row[j]
  PROVE  OneMoves(k)
BY SameRow DEF OneMoves

LEMMA UpsertMoves ==
  ASSUME TypeOK, NEW k \in Keys, NEW h \in Shipment,
         row' = [row EXCEPT ![k] = Upserted(row[k], h)],
         row[k].status = "absent" => row[k].sos_shipment_id = 0
  PROVE  OneMoves(k)
<1>1. row[k] \in Row /\ row'[k] = Upserted(row[k], h)
  BY DEF TypeOK
<1>2. RowMove(k)
  BY <1>1, UpsertedRow DEF RowMove, Row, Status
<1> QED BY <1>2, OneRow DEF TypeOK

LEMMA ImportMoves ==
  ASSUME IInv, Import
  PROVE  UNCHANGED shipments /\ \E k \in Keys : OneMoves(k)
<1>0. TypeOK
  BY DEF IInv
<1>1. UNCHANGED shipments
  BY DEF Import, ImportWarehouse, ImportSutton, QueueSutton, Ripen, remote
<1>2. \A k \in Keys : row[k].status = "absent" => row[k].sos_shipment_id = 0
  BY DEF IInv, KeyInv, Trace
<1>3. ASSUME NEW k \in Keys, NEW s \in Shipment, NEW queued \in BOOLEAN,
             ImportWarehouse(k, s, queued)
      PROVE  OneMoves(k)
  <2>1. Hashed(k, s) \in Shipment
    BY MergedShipment DEF IInv, TypeOK
  <2>2. CASE queued
    BY <1>0, <1>2, <1>3, <2>1, <2>2, UpsertMoves DEF ImportWarehouse
  <2>3. CASE ~queued
    BY <1>0, <1>3, <2>3, SameRow, OneRow DEF ImportWarehouse
  <2> QED BY <2>2, <2>3
<1>4. ASSUME NEW k \in Keys, NEW s \in Shipment, ImportSutton(k, s)
      PROVE  OneMoves(k)
  BY <1>0, <1>4, SameRow, OneRow DEF ImportSutton
<1>5. ASSUME NEW k \in Keys, QueueSutton(k)
      PROVE  OneMoves(k)
  <2>1. report[k] \in Shipment
    BY <1>5 DEF QueueSutton, IInv, TypeOK, Hash
  <2> QED BY <1>0, <1>2, <1>5, <2>1, UpsertMoves DEF QueueSutton
<1>6. ASSUME NEW k \in Keys, Ripen(k)
      PROVE  OneMoves(k)
  <2>1. RowMove(k) /\ \A j \in Keys \ {k} : row'[j] = row[j]
    BY <1>6 DEF Ripen, RowMove, IInv, TypeOK, Row, Status
  <2> QED BY <1>0, <2>1, OneRow
<1> QED BY <1>1, <1>3, <1>4, <1>5, <1>6 DEF Import

LEMMA DirectLoadMoves ==
  ASSUME IInv, NEW chosen \in SUBSET Keys, DirectLoad(chosen)
  PROVE  UNCHANGED shipments /\ \E k \in Keys : OneMoves(k)
<1>1. \A k \in Keys : row[k].status = "absent" => row[k].sos_shipment_id = 0
  BY DEF IInv, KeyInv, Trace
<1>2. ASSUME NEW k \in Keys
      PROVE  RowMove(k) /\ IntentOf(row'[k].status) = IntentOf(row[k].status)
  <2>1. CASE k \in chosen
    BY <1>1, <2>1 DEF DirectLoad, RowMove, IntentOf, NoRow
  <2>2. CASE k \notin chosen
    BY <2>2, SameRow DEF DirectLoad, IInv
  <2> QED BY <2>1, <2>2
<1>3. PICK k \in Keys : k \in chosen
  BY DEF DirectLoad
<1> QED BY <1>2, <1>3 DEF OneMoves, DirectLoad, remote

LEMMA ClaimMoves ==
  ASSUME IInv, NEW w \in Workers, NEW k \in Keys, Claim(w, k)
  PROVE  UNCHANGED shipments /\ OneMoves(k)
<1>1. RowMove(k) /\ \A j \in Keys \ {k} : row'[j] = row[j]
  BY DEF Claim, RowMove, IInv, TypeOK, Row
<1> QED BY <1>1, OneRow DEF Claim, remote, IInv

LEMMA FinishMoves ==
  ASSUME IInv, NEW w \in Workers, NEW status \in {"sent", "failed", "reconcile"},
         pc[w] \in {"complete", "record"},
         status = "sent" => pc[w] = "complete",
         status = "failed" => ~post_started[w],
         FinishRow(w, status)
  PROVE  \E k \in Keys : OneMoves(k)
<1> PICK k : k = claimed[w].key
  OBVIOUS
<1>1. /\ claimed[w] \in Job /\ k \in Keys /\ row[k] \in Row
      /\ shipment_id[w] \in Nat /\ Holds(w, k)
  BY DEF IInv, RunInv, TypeOK, Working, Holds, Job
<1>2. /\ row[k].status \notin {"absent", "pending", "failed"}
      /\ row[k].sos_shipment_id # 0 => row[k].sos_shipment_id \in ShipmentsOf(k)
  BY <1>1 DEF IInv, KeyInv
<1>3. /\ shipment_id[w] # 0 => shipment_id[w] \in ShipmentsOf(k)
      /\ status = "sent" => shipment_id[w] # 0
      /\ status = "failed" => ShipmentsOf(k) = {}
  BY <1>1 DEF IInv, RunInv, Trace, Holds
<1>4. \A i, j \in ShipmentsOf(k) : i = j
  BY DEF IInv, AtMostOneShipment, ShipmentsOf
<1> PICK f : f = Finished(row[k], claimed[w], status, shipment_id[w])
  OBVIOUS
<1>5. FinishOf(row[k], status, shipment_id[w], f)
  BY <1>1, FinishedRow
<1>6. row'[k] = f /\ \A j \in Keys \ {k} : row'[j] = row[j]
  BY <1>1 DEF FinishRow, IInv, TypeOK
<1>7. RowMove(k)
  <2>1. row[k].sos_shipment_id # 0 => f.sos_shipment_id = row[k].sos_shipment_id
    BY <1>2, <1>3, <1>4, <1>5 DEF FinishOf
  <2> QED BY <1>2, <1>3, <1>5, <1>6, <2>1 DEF FinishOf, RowMove
<1> QED BY <1>1, <1>6, <1>7, OneRow DEF IInv

\* A step of a run moves one row, or has SOS create one shipment.
LEMMA RunMoves ==
  ASSUME IInv, NEW w \in Workers,
         SelectCandidates(w) \/ Local(w) \/ Remote(w) \/ Crash(w)
  PROVE  \/ UNCHANGED <<row, shipments>>
         \/ UNCHANGED row /\ \E q \in wire : Created(q)
         \/ UNCHANGED shipments /\ \E k \in Keys : OneMoves(k)
<1>1. CASE SelectCandidates(w)
  BY <1>1 DEF SelectCandidates, remote
<1>2. CASE Crash(w)
  BY <1>2 DEF Crash, remote
<1>3. CASE Remote(w)
  BY <1>3 DEF Remote, BuildTemplate, BuildFails, AnswerAccepted, AnswerUnclear,
              AnswerRejected, AnswerUnauthorized, TransportError, Answer, remote
<1>4. CASE Local(w)
  <2>1. ASSUME NEW k \in Keys, Claim(w, k)
        PROVE  UNCHANGED shipments /\ OneMoves(k)
    BY <2>1, ClaimMoves
  <2>2. CASE \/ \E k \in Keys : SkipCandidate(w, k)
             \/ EndRun(w) \/ SendPost(w) \/ SendFails(w) \/ RecordFails(w)
    BY <2>2 DEF SkipCandidate, EndRun, SendPost, SendFails, RecordFails, remote
  <2>3. CASE Complete(w)
    BY <2>3, FinishMoves DEF Complete, Goto, remote
  <2>4. CASE Record(w)
    BY <2>4, FinishMoves DEF Record, FailureStatus, Goto, remote
  <2>5. CASE CompleteFails(w)
    <3>1. UNCHANGED shipments /\ pc[w] = "complete"
      BY <2>5 DEF CompleteFails, Goto, remote
    <3>2. CASE FinishRow(w, "sent")
      BY <3>1, <3>2, FinishMoves
    <3> QED BY <2>5, <3>1, <3>2 DEF CompleteFails
  <2> QED BY <1>4, <2>1, <2>2, <2>3, <2>4, <2>5 DEF Local
<1> QED BY <1>1, <1>2, <1>3, <1>4

LEMMA StepMoves ==
  ASSUME IInv, [Next]_vars
  PROVE  \/ UNCHANGED <<row, shipments>>
         \/ UNCHANGED row /\ \E q \in wire : Created(q)
         \/ UNCHANGED shipments /\ \E k \in Keys : OneMoves(k)
<1>1. CASE Import
  BY <1>1, ImportMoves
<1>2. ASSUME NEW chosen \in SUBSET Keys, DirectLoad(chosen)
      PROVE  UNCHANGED shipments /\ \E k \in Keys : OneMoves(k)
  BY <1>2, DirectLoadMoves
<1>3. ASSUME NEW q \in wire, CreateUnheard(q)
      PROVE  UNCHANGED row /\ (Created(q) \/ UNCHANGED shipments)
  BY <1>3 DEF CreateUnheard
<1>4. ASSUME NEW w \in Workers,
             SelectCandidates(w) \/ Local(w) \/ Remote(w) \/ Crash(w)
      PROVE  \/ UNCHANGED <<row, shipments>>
             \/ UNCHANGED row /\ \E q \in wire : Created(q)
             \/ UNCHANGED shipments /\ \E k \in Keys : OneMoves(k)
  BY <1>4, RunMoves
<1>5. CASE UNCHANGED vars
  BY <1>5 DEF vars, remote
<1> QED BY <1>1, <1>2, <1>3, <1>4, <1>5 DEF Next

-----------------------------------------------------------------------------
\* The program never makes an attempted row eligible again, never takes a row
\* out of review, and never replaces the id of its shipment.
THEOREM NoReopening == Spec => NeverReopened
<1> DEFINE Kept == \A k \in Keys :
      /\ row[k].status \notin {"absent", "pending"}
           => row'[k].status \notin {"absent", "pending"}
      /\ row[k].status \in {"failed", "reconcile"}
           => row'[k].status = row[k].status
      /\ row[k].sos_shipment_id # 0
           => row'[k].sos_shipment_id = row[k].sos_shipment_id
<1>1. IInv /\ [Next]_vars => [Kept]_vars
  <2> SUFFICES ASSUME IInv, [Next]_vars PROVE Kept
    OBVIOUS
  <2>1. \A k \in Keys : row[k] \in Row
    BY DEF IInv, TypeOK
  <2>2. CASE UNCHANGED row
    BY <2>2
  <2>3. ASSUME NEW k \in Keys, OneMoves(k)
        PROVE  Kept
    <3>1. \A j \in Keys : RowMove(j)
      BY <2>3 DEF OneMoves
    <3> QED BY <2>1, <3>1 DEF RowMove, Row, Status
  <2> QED BY <2>2, <2>3, StepMoves
<1> QED BY <1>1, Invariance, PTL DEF Spec, NeverReopened

-----------------------------------------------------------------------------
(* The refinement *)

Intents == [k \in Keys |-> IntentOf(row[k].status)]
Effects == [k \in Keys |-> ShipmentsOf(k)]

\* SOS creates a shipment of a row that is being posted or held, and has none.
LEMMA CreateMaps ==
  ASSUME IInv, NEW q \in wire, Created(q), UNCHANGED row
  PROVE  Post!Next
<1> PICK k : k = q.key
  OBVIOUS
<1> DEFINE n == Len(shipments)
           e == [key |-> q.key, body |-> q.body]
           S == [key : Keys, body : Shipment]
<1>1. k \in Keys /\ Trace(k) /\ ShipmentsOf(k) = {} /\ row[k] \in Row
  BY DEF IInv, TypeOK, WireInv, Request, Trace, ShipmentsOf
<1>2. IntentOf(row[k].status) \in {"posting", "held"}
  BY <1>1 DEF IInv, KeyInv, IntentOf, Row, Status
<1>3. shipments \in Seq(S) /\ e \in S /\ shipments' = Append(shipments, e)
      /\ e.key = k
  BY DEF IInv, TypeOK, Request, Created
<1>4. /\ DOMAIN shipments = 1..n /\ n \in Nat
      /\ DOMAIN shipments' = 1..(n + 1)
      /\ \A i \in DOMAIN shipments : shipments'[i] = shipments[i]
      /\ shipments'[n + 1] = e
  <2> HIDE DEF S, e
  <2>1. /\ DOMAIN shipments = 1..n /\ n \in Nat
        /\ DOMAIN Append(shipments, e) = 1..(n + 1)
        /\ \A i \in DOMAIN shipments : Append(shipments, e)[i] = shipments[i]
        /\ Append(shipments, e)[n + 1] = e
    BY <1>3, AppendShipment
  <2> QED BY <1>3, <2>1
<1> HIDE DEF e, S
<1>5. ShipmentsOf(k)' = {n + 1}
  BY <1>1, <1>3, <1>4 DEF ShipmentsOf
<1>6. \A j : j # k => ShipmentsOf(j)' = ShipmentsOf(j)
  BY <1>3, <1>4 DEF ShipmentsOf
<1>7. Effects' = [Effects EXCEPT ![k] = {n + 1}]
  BY <1>1, <1>5, <1>6 DEF Effects
<1>8. n + 1 \in Effects'[k] /\ Effects[k] = {} /\ UNCHANGED Intents
      /\ Intents[k] \in {"posting", "held"}
  BY <1>1, <1>2, <1>5 DEF Effects, Intents
<1>9. Post!Create(k)
  BY <1>7, <1>8 DEF Post!Create, Effects, Intents
<1> QED BY <1>1, <1>9 DEF Post!Next

\* A row that moves moves its intent, or nothing the specification sees.
LEMMA RowMaps ==
  ASSUME IInv, NEW k \in Keys, OneMoves(k), UNCHANGED shipments
  PROVE  Post!Next \/ UNCHANGED Post!vars
<1>1. UNCHANGED Effects
  BY DEF Effects, ShipmentsOf
<1> DEFINE to == IntentOf(row'[k].status)
<1>2. Intents' = [Intents EXCEPT ![k] = to]
  BY DEF Intents, OneMoves
<1>3. Intents[k] = IntentOf(row[k].status) /\ Effects[k] = ShipmentsOf(k)
  BY DEF Intents, Effects
<1>4. row[k].status \in Status
  BY DEF IInv, TypeOK, Row
<1>5. \/ to = Intents[k]
      \/ Intents[k] = "waiting" /\ to = "posting"
      \/ Intents[k] = "posting" /\ to = "sent" /\ Effects[k] # {}
      \/ Intents[k] = "posting" /\ to = "failed" /\ Effects[k] = {}
      \/ Intents[k] \in {"posting", "sent"} /\ to = "held"
  BY <1>3, <1>4 DEF OneMoves, RowMove, IntentOf, Status
<1> HIDE DEF to
<1>6. CASE to = Intents[k]
  <2>1. UNCHANGED Intents
    BY <1>2, <1>6 DEF Intents
  <2> QED BY <1>1, <2>1 DEF Post!vars, Intents, Effects
<1>7. CASE to # Intents[k]
  <2>1. \/ Post!Start(k) \/ Post!Complete(k) \/ Post!Fail(k) \/ Post!Hold(k)
    BY <1>1, <1>2, <1>5, <1>7 DEF Post!Start, Post!Complete, Post!Fail,
       Post!Hold, Post!Move, Intents, Effects
  <2> QED BY <2>1 DEF Post!Next
<1> QED BY <1>6, <1>7

\* The queue implements the at-most-once poster: intent is committed before the
\* POST, success is recorded only for a shipment that exists and refusal only
\* for none, and what is held stays held.
THEOREM Refinement == Spec => PostSpec
<1>1. Init => Post!Init
  BY DEF Init, Post!Init, IntentOf, NoRow, ShipmentsOf
<1>2. IInv /\ [Next]_vars => [Post!Next]_(Post!vars)
  <2> SUFFICES ASSUME IInv, [Next]_vars
               PROVE  Post!Next \/ UNCHANGED Post!vars
    OBVIOUS
  <2>1. CASE UNCHANGED <<row, shipments>>
    BY <2>1 DEF Post!vars, ShipmentsOf
  <2>2. ASSUME NEW q \in wire, UNCHANGED row, Created(q)
        PROVE  Post!Next
    BY <2>2, CreateMaps
  <2>3. ASSUME NEW k \in Keys, UNCHANGED shipments, OneMoves(k)
        PROVE  Post!Next \/ UNCHANGED Post!vars
    BY <2>3, RowMaps
  <2> QED BY <2>1, <2>2, <2>3, StepMoves
<1> QED BY <1>1, <1>2, Invariance, PTL DEF Spec, PostSpec, Post!Spec
=============================================================================
