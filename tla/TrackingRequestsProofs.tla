------------------------ MODULE TrackingRequestsProofs ------------------------
(***************************************************************************)
(* Proofs about TrackingRequests, for any workers, operations, references, *)
(* containers and shipments, and any failures: what holds however many     *)
(* workers are at it, and what holds where the lock lets one work at a     *)
(* time.                                                                   *)
(***************************************************************************)
EXTENDS TrackingRequests, TLAPS, FiniteSetTheorems

-----------------------------------------------------------------------------
(* The types, in three parts *)

TableTypes ==
  rows \in [Ops -> Row] /\ mappings \subseteq [ship : Shipments, op : ContainerOps]

OtherTypes ==
  /\ lock \in Workers \cup {NoLock}
  /\ requests \subseteq Request /\ posts \subseteq Request
  /\ tracking \in [Shipments -> {"none", "empty", "loaded", "stopped"}]
  /\ refused \subseteq References
  /\ sent \in [Ops -> 0 .. MaxPosts] /\ marked \subseteq Ops
  /\ crashes \in 0 .. MaxCrashes

LocalTypes ==
  /\ pc \in [Workers -> Pc]
  /\ op \in [Workers -> Ops \cup {NoOp}]
  /\ was \in [Workers -> Status]
  /\ found \in [Workers -> Request \cup {NoReq}]
  /\ state \in [Workers -> {"open", "failed", "resolved"}]
  /\ target \in [Workers -> Shipments \cup {NoShip}]

LEMMA Types == TypeOK <=> TableTypes /\ OtherTypes /\ LocalTypes
BY DEF TypeOK, TableTypes, OtherTypes, LocalTypes

LEMMA TypesPrimed == TypeOK' <=> TableTypes' /\ OtherTypes' /\ LocalTypes'
BY DEF TypeOK, TableTypes, OtherTypes, LocalTypes

LEMMA NoReqNoRequest == NoReq \notin Request
BY ConstantsAssumption DEF Request

\* Nothing happens to worker w.
Same(w) == UNCHANGED <<pc[w], op[w], was[w], found[w], state[w], target[w]>>

-----------------------------------------------------------------------------
(* The moves of a worker *)

LEMMA GotoStep ==
  ASSUME LocalTypes, NEW w \in Workers, NEW to \in Pc, Goto(w, to)
  PROVE  /\ LocalTypes' /\ \A v \in Workers \ {w} : Same(v)
         /\ pc'[w] = to /\ op'[w] = op[w] /\ was'[w] = was[w]
         /\ found'[w] = found[w] /\ state'[w] = state[w] /\ target'[w] = target[w]
BY DEF LocalTypes, Goto, Same

LEMMA FollowStep ==
  ASSUME LocalTypes, NEW w \in Workers, NEW to \in Pc, NEW r \in Request,
         Follow(w, r, to)
  PROVE  /\ LocalTypes' /\ \A v \in Workers \ {w} : Same(v)
         /\ pc'[w] = to /\ op'[w] = op[w] /\ was'[w] = was[w]
         /\ found'[w] = r /\ state'[w] = state[w] /\ target'[w] = target[w]
BY DEF LocalTypes, Follow, Same

LEMMA AimStep ==
  ASSUME LocalTypes, NEW w \in Workers, NEW to \in Pc, NEW s \in Shipments,
         Aim(w, s, to)
  PROVE  /\ LocalTypes' /\ \A v \in Workers \ {w} : Same(v)
         /\ pc'[w] = to /\ op'[w] = op[w] /\ was'[w] = was[w]
         /\ found'[w] = found[w] /\ state'[w] = state[w] /\ target'[w] = s
BY DEF LocalTypes, Aim, Same

LEMMA ReadStep ==
  ASSUME LocalTypes, NEW w \in Workers, NEW to \in Pc, NEW r \in Request,
         Read(w, r, to)
  PROVE  /\ LocalTypes' /\ \A v \in Workers \ {w} : Same(v)
         /\ pc'[w] = to /\ op'[w] = op[w] /\ was'[w] = was[w]
         /\ found'[w] = r /\ target'[w] = target[w]
<1>1. PICK x \in {"open", "failed", "resolved"} : state' = [state EXCEPT ![w] = x]
  BY DEF Read
<1>2. LocalTypes'
  BY <1>1 DEF LocalTypes, Read
<1>3. \A v \in Workers \ {w} : Same(v)
  BY <1>1 DEF LocalTypes, Read, Same
<1> QED BY <1>2, <1>3 DEF LocalTypes, Read

LEMMA LeaveStep ==
  ASSUME LocalTypes, NEW w \in Workers, Leave(w)
  PROVE  /\ LocalTypes' /\ \A v \in Workers \ {w} : Same(v)
         /\ pc'[w] \in {"containers", "feed"} /\ op'[w] = NoOp
         /\ found'[w] = NoReq /\ target'[w] = NoShip
<1>1. PICK x \in {"containers", "feed"} : pc' = [pc EXCEPT ![w] = x]
  BY DEF Leave
<1>2. x \in Pc /\ "absent" \in Status
  BY DEF Pc, Status
<1>3. LocalTypes'
  BY <1>1, <1>2 DEF LocalTypes, Leave
<1>4. \A v \in Workers \ {w} : Same(v)
  BY <1>1 DEF LocalTypes, Leave, Same
<1> QED BY <1>1, <1>3, <1>4 DEF LocalTypes, Leave

\* The row of w's operation.
LEMMA UpdateStep ==
  ASSUME TableTypes, NEW w \in Workers, op[w] \in Ops,
         NEW st \in Status, NEW r \in Request \cup {NoReq},
         NEW s \in Shipments \cup {NoShip}, Update(w, st, r, s)
  PROVE  /\ rows' \in [Ops -> Row]
         /\ \A p \in Ops \ {op[w]} : rows'[p] = rows[p]
         /\ rows'[op[w]].status = st /\ rows'[op[w]].attempts = 0
         /\ rows'[op[w]].rid = IF r = NoReq THEN rows[op[w]].rid ELSE r
         /\ rows'[op[w]].ship = IF s = NoShip THEN rows[op[w]].ship ELSE s
<1> DEFINE o == op[w]
<1>1. PICK x : x = [status |-> st, attempts |-> 0,
                    rid |-> IF r = NoReq THEN rows[o].rid ELSE r,
                    ship |-> IF s = NoShip THEN rows[o].ship ELSE s]
  OBVIOUS
<1>2. rows' = [rows EXCEPT ![o] = x]
  BY <1>1 DEF Update
<1>3. rows \in [Ops -> Row]
  BY DEF TableTypes
<1>4. rows[o].rid \in Request \cup {NoReq} /\ rows[o].ship \in Shipments \cup {NoShip}
  <2>1. rows[o] \in Row
    BY <1>3
  <2> QED BY <2>1 DEF Row
<1>5. x \in Row
  BY <1>1, <1>4 DEF Row
<1>6. rows' \in [Ops -> Row] /\ rows'[o] = x
  BY <1>2, <1>3, <1>5
<1>7. \A p \in Ops \ {o} : rows'[p] = rows[p]
  BY <1>2, <1>3
<1> QED BY <1>1, <1>6, <1>7

\* A failure is counted.
LEMMA DeferRow ==
  ASSUME TableTypes, NEW w \in Workers, op[w] \in Ops, Defer(w)
  PROVE  /\ rows' \in [Ops -> Row]
         /\ \A p \in Ops \ {op[w]} : rows'[p] = rows[p]
         /\ rows'[op[w]].attempts = rows[op[w]].attempts + 1
         /\ rows'[op[w]].rid = rows[op[w]].rid /\ rows'[op[w]].ship = rows[op[w]].ship
         /\ rows'[op[w]].status = IF rows[op[w]].attempts >= ReviewAfter
                                  THEN "NEEDS_REVIEW" ELSE rows[op[w]].status
<1> DEFINE o == op[w]
<1>1. PICK x : x = [rows[o] EXCEPT !.attempts = @ + 1,
                      !.status = IF rows[o].attempts >= ReviewAfter
                                 THEN "NEEDS_REVIEW" ELSE @]
  OBVIOUS
<1>2. rows \in [Ops -> Row] /\ rows[o] \in Row
  BY DEF TableTypes
<1>3. x \in Row /\ x.attempts = rows[o].attempts + 1 /\ x.rid = rows[o].rid
      /\ x.ship = rows[o].ship
      /\ x.status = IF rows[o].attempts >= ReviewAfter
                    THEN "NEEDS_REVIEW" ELSE rows[o].status
  <2>1. PICK y \in Row : y = rows[o]
    BY <1>2
  <2>2. PICK st \in Status : st = IF y.attempts >= ReviewAfter THEN "NEEDS_REVIEW"
                                  ELSE y.status
    <3>1. y.status \in Status /\ "NEEDS_REVIEW" \in Status
      BY DEF Row, Status
    <3> QED BY <3>1
  <2>3. PICK n \in Nat : n = y.attempts + 1
    BY DEF Row
  <2>4. x = [y EXCEPT !.attempts = n, !.status = st]
    BY <1>1, <2>1, <2>2, <2>3 DEF Row
  <2>5. x \in Row /\ x.attempts = n /\ x.rid = y.rid /\ x.ship = y.ship /\ x.status = st
    BY <2>4 DEF Row
  <2> QED BY <2>1, <2>2, <2>3, <2>5
<1>4. rows' = [rows EXCEPT ![o] = x]
  BY <1>1, <1>2 DEF Defer, Row
<1>5. rows' \in [Ops -> Row] /\ rows'[o] = x
  BY <1>2, <1>3, <1>4
<1>6. \A p \in Ops \ {o} : rows'[p] = rows[p]
  BY <1>2, <1>4
<1> QED BY <1>3, <1>5, <1>6

LEMMA TheIn ==
  ASSUME NEW S, S # {}
  PROVE  The(S) \in S
BY DEF The

LEMMA TheOne ==
  ASSUME NEW S, Cardinality(S) = 1
  PROVE  S # {} /\ The(S) \in S
<1>1. S # {}
  <2>1. Cardinality({}) = 0
    BY FS_EmptySet
  <2> QED BY <2>1
<1> QED BY <1>1, TheIn

-----------------------------------------------------------------------------
(* However many workers *)

LEMMA HandKept ==
  ASSUME NEW v \in Workers, Same(v), HandOK(v), mappings \subseteq mappings'
  PROVE  HandOK(v)'
BY DEF Same, HandOK, Idle

\* Where a worker that is at something stands.
LEMMA Busy ==
  ASSUME Inv, NEW w \in Workers
  PROVE  /\ TypeOK /\ TableTypes /\ OtherTypes /\ LocalTypes /\ HandOK(w)
         /\ pc[w] \notin Idle => op[w] \in Ops /\ rows[op[w]] \in Row
<1>1. TypeOK /\ TableTypes /\ OtherTypes /\ LocalTypes /\ HandOK(w)
  BY Types DEF Inv
<1>2. pc[w] \notin Idle => op[w] \in Ops
  BY <1>1 DEF HandOK, LocalTypes
<1> QED BY <1>1, <1>2 DEF TableTypes

LEMMA WorkerInv ==
  ASSUME Inv, TypeOK', NEW w, \A v \in Workers \ {w} : Same(v),
         w \in Workers => HandOK(w)',
         mappings \subseteq mappings', LinkedIsExclusive',
         \A m, n \in mappings' : m.op = n.op => m = n
  PROVE  Inv'
<1>1. ASSUME NEW v \in Workers PROVE HandOK(v)'
  <2>1. CASE v = w
    BY <2>1
  <2>2. CASE v # w
    <3>1. Same(v) /\ HandOK(v)
      BY <2>2 DEF Inv
    <3> QED BY <3>1, HandKept
  <2> QED BY <2>1, <2>2
<1> QED BY <1>1 DEF Inv

\* No row gets a shipment or becomes LINKED.
LEMMA RowInv ==
  ASSUME Inv, TypeOK', NEW w, \A v \in Workers \ {w} : Same(v),
         w \in Workers => HandOK(w)', UNCHANGED mappings,
         \A p \in Ops : /\ rows'[p].ship = rows[p].ship
                        /\ rows'[p].status = "LINKED" => rows[p].status = "LINKED"
  PROVE  Inv'
<1>1. LinkedIsExclusive'
  BY DEF Inv, LinkedIsExclusive, Ops
<1>2. \A m, n \in mappings' : m.op = n.op => m = n
  BY DEF Inv
<1> QED BY <1>1, <1>2, WorkerInv

LEMMA QuietInv ==
  ASSUME Inv, LocalTypes', NEW w \in Workers, \A v \in Workers \ {w} : Same(v),
         HandOK(w)', Reading
  PROVE  Inv'
<1>1. UNCHANGED <<rows, mappings>>
  BY DEF Reading, table
<1>2. TypeOK'
  BY TypesPrimed, Types DEF Reading, table, provider, history, TableTypes,
     OtherTypes, Inv
<1> QED BY <1>1, <1>2, RowInv

\* The types where only the row of w's operation and w itself move.
LEMMA DatabaseTypes ==
  ASSUME Inv, Database, LocalTypes', rows' \in [Ops -> Row]
  PROVE  TypeOK'
BY TypesPrimed, Types DEF Database, provider, history, TableTypes, OtherTypes, Inv

\* The operation is put off, fails or is left to a person.
Ended(w, st) == Update(w, st, NoReq, NoShip) /\ Leave(w) /\ Database

LEMMA EndedInv ==
  ASSUME Inv, NEW w \in Workers, pc[w] \notin Idle,
         NEW st \in {"PENDING", "FAILED", "NEEDS_REVIEW"}, Ended(w, st)
  PROVE  Inv'
<1>1. /\ TableTypes /\ LocalTypes /\ op[w] \in Ops
      /\ Update(w, st, NoReq, NoShip) /\ Leave(w) /\ Database /\ st \in Status
  BY Busy DEF Ended, Status, Active
<1>2. /\ rows' \in [Ops -> Row]
      /\ \A p \in Ops \ {op[w]} : rows'[p] = rows[p]
      /\ rows'[op[w]].status = st /\ rows'[op[w]].ship = rows[op[w]].ship
  BY <1>1, UpdateStep
<1>3. /\ LocalTypes' /\ \A v \in Workers \ {w} : Same(v)
      /\ pc'[w] \in {"containers", "feed"} /\ op'[w] = NoOp
  BY <1>1, LeaveStep
<1>4. HandOK(w)'
  BY <1>3 DEF HandOK, Idle
<1>5. UNCHANGED mappings
  BY <1>1 DEF Database
<1>6. \A p \in Ops : /\ rows'[p].ship = rows[p].ship
                     /\ rows'[p].status = "LINKED" => rows[p].status = "LINKED"
  BY <1>2
<1>7. TypeOK'
  BY <1>1, <1>2, <1>3, DatabaseTypes
<1> QED BY <1>3, <1>4, <1>5, <1>6, <1>7, RowInv

LEMMA ReviewInv ==
  ASSUME Inv, NEW w \in Workers, pc[w] \notin Idle, Review(w)
  PROVE  Inv'
BY EndedInv DEF Review, Ended

LEMMA DeferInv ==
  ASSUME Inv, NEW w \in Workers, pc[w] \notin Idle, Defer(w)
  PROVE  Inv'
<1>1. /\ TableTypes /\ LocalTypes /\ op[w] \in Ops /\ Leave(w) /\ Database
  BY Busy DEF Defer
<1>2. /\ rows' \in [Ops -> Row]
      /\ \A p \in Ops \ {op[w]} : rows'[p] = rows[p]
      /\ rows'[op[w]].status \in {"NEEDS_REVIEW", rows[op[w]].status}
      /\ rows'[op[w]].ship = rows[op[w]].ship
  BY <1>1, DeferRow
<1>3. /\ LocalTypes' /\ \A v \in Workers \ {w} : Same(v)
      /\ pc'[w] \in {"containers", "feed"} /\ op'[w] = NoOp
  BY <1>1, LeaveStep
<1>4. HandOK(w)'
  BY <1>3 DEF HandOK, Idle
<1>5. UNCHANGED mappings
  BY <1>1 DEF Database
<1>6. \A p \in Ops : /\ rows'[p].ship = rows[p].ship
                     /\ rows'[p].status = "LINKED" => rows[p].status = "LINKED"
  BY <1>2
<1>7. TypeOK'
  BY <1>1, <1>2, <1>3, DatabaseTypes
<1> QED BY <1>3, <1>4, <1>5, <1>6, <1>7, RowInv

\* The operation knows its request, and the worker goes on with it.
LEMMA KnownInv ==
  ASSUME Inv, NEW w \in Workers, pc[w] \notin Idle, NEW r \in Request,
         Update(w, "PENDING", r, NoShip), Database,
         NEW to \in {"request", "resolve"}, Read(w, r, to) \/ Follow(w, r, to)
  PROVE  Inv'
<1>1. /\ TableTypes /\ LocalTypes /\ op[w] \in Ops /\ HandOK(w)
      /\ "PENDING" \in Status /\ to \in Pc /\ r # NoReq
  BY Busy, NoReqNoRequest DEF Status, Active, Pc
<1>2. /\ rows' \in [Ops -> Row]
      /\ \A p \in Ops \ {op[w]} : rows'[p] = rows[p]
      /\ rows'[op[w]].status = "PENDING" /\ rows'[op[w]].ship = rows[op[w]].ship
  BY <1>1, UpdateStep
<1>3. /\ LocalTypes' /\ \A v \in Workers \ {w} : Same(v)
      /\ pc'[w] = to /\ op'[w] = op[w] /\ found'[w] = r
  BY <1>1, ReadStep, FollowStep
<1>4. HandOK(w)'
  BY <1>1, <1>3, ConstantsAssumption DEF HandOK, Idle
<1>5. UNCHANGED mappings
  BY DEF Database
<1>6. \A p \in Ops : /\ rows'[p].ship = rows[p].ship
                     /\ rows'[p].status = "LINKED" => rows[p].status = "LINKED"
  BY <1>2
<1>7. TypeOK'
  BY <1>2, <1>3, DatabaseTypes
<1> QED BY <1>3, <1>4, <1>5, <1>6, <1>7, RowInv

LEMMA GoInv ==
  ASSUME Inv, NEW w \in Workers, pc[w] \notin Idle, Reading,
         NEW to \in {"search", "bills", "submit", "map", "close"}, Goto(w, to),
         to = "bills" => op[w] \in ShipmentOps,
         to = "map" => op[w] \in ContainerOps /\ target[w] # NoShip,
         to = "close" => op[w] \in ShipmentOps /\ target[w] # NoShip
  PROVE  Inv'
<1>1. LocalTypes /\ op[w] \in Ops /\ to \in Pc
  BY Busy DEF Pc
<1>2. /\ LocalTypes' /\ \A v \in Workers \ {w} : Same(v)
      /\ pc'[w] = to /\ op'[w] = op[w] /\ target'[w] = target[w]
  BY <1>1, GotoStep
<1>3. HandOK(w)'
  BY <1>1, <1>2, ConstantsAssumption DEF HandOK, Idle
<1> QED BY <1>2, <1>3, QuietInv

LEMMA FollowInv ==
  ASSUME Inv, NEW w \in Workers, pc[w] \notin Idle, Reading,
         NEW r \in Request, NEW to \in {"request", "resolve"},
         Follow(w, r, to) \/ Read(w, r, to)
  PROVE  Inv'
<1>1. LocalTypes /\ op[w] \in Ops /\ to \in Pc
  BY Busy DEF Pc
<1>2. /\ LocalTypes' /\ \A v \in Workers \ {w} : Same(v)
      /\ pc'[w] = to /\ op'[w] = op[w] /\ found'[w] = r
  BY <1>1, FollowStep, ReadStep
<1>3. HandOK(w)'
  BY <1>1, <1>2, ConstantsAssumption, NoReqNoRequest DEF HandOK, Idle
<1> QED BY <1>2, <1>3, QuietInv

LEMMA AimInv ==
  ASSUME Inv, NEW w \in Workers, pc[w] \notin Idle, Reading,
         NEW s \in Shipments, NEW to \in {"map", "discover"}, Aim(w, s, to),
         to = "map" => op[w] \in ContainerOps
  PROVE  Inv'
<1>1. LocalTypes /\ op[w] \in Ops /\ to \in Pc
  BY Busy DEF Pc
<1>2. /\ LocalTypes' /\ \A v \in Workers \ {w} : Same(v)
      /\ pc'[w] = to /\ op'[w] = op[w] /\ target'[w] = s
  BY <1>1, AimStep
<1>3. HandOK(w)'
  BY <1>1, <1>2, ConstantsAssumption DEF HandOK, Idle
<1> QED BY <1>2, <1>3, QuietInv

\* The requests that rows know.
LEMMA RidsIn ==
  ASSUME TableTypes, NEW S \in SUBSET Ops
  PROVE  Rids(S) \subseteq Request
<1>1. \A p \in S : rows[p].rid \in Request \cup {NoReq}
  <2>1. \A p \in S : rows[p] \in Row
    BY DEF TableTypes
  <2> QED BY <2>1 DEF Row
<1> QED BY <1>1 DEF Rids

LEMMA StartWorkerInv ==
  ASSUME Inv, NEW w \in Workers, StartWorker(w)
  PROVE  Inv'
<1>1. /\ pc[w] = "off" /\ Goto(w, "shipments") /\ lock' = w
      /\ UNCHANGED <<table, provider, history, crashes>>
  BY DEF StartWorker, At
<1>2. /\ LocalTypes /\ HandOK(w) /\ TableTypes /\ OtherTypes /\ "shipments" \in Pc
  BY Busy DEF Pc
<1>3. /\ LocalTypes' /\ \A v \in Workers \ {w} : Same(v)
      /\ pc'[w] = "shipments" /\ op'[w] = op[w]
  BY <1>1, <1>2, GotoStep
<1>4. HandOK(w)'
  BY <1>1, <1>2, <1>3 DEF HandOK, Idle
<1>5. TypeOK'
  BY <1>1, <1>2, <1>3, TypesPrimed DEF table, provider, history, TableTypes, OtherTypes
<1> QED BY <1>1, <1>3, <1>4, <1>5, RowInv DEF table

LEMMA NothingDueInv ==
  ASSUME Inv, NEW w \in Workers, NothingDue(w) \/ Feed(w)
  PROVE  Inv'
<1>1. PICK to \in Idle : Goto(w, to)
  BY DEF NothingDue, Feed, Idle
<1>2. /\ LocalTypes /\ HandOK(w) /\ to \in Pc /\ pc[w] \in Idle /\ Reading
  BY Busy DEF NothingDue, Feed, At, Pc, Idle
<1>3. /\ LocalTypes' /\ \A v \in Workers \ {w} : Same(v)
      /\ pc'[w] = to /\ op'[w] = op[w]
  BY <1>1, <1>2, GotoStep
<1>4. HandOK(w)'
  BY <1>2, <1>3 DEF HandOK, Idle
<1> QED BY <1>2, <1>3, <1>4, QuietInv

\* Where an operation is taken up.
Entry(o) ==
  IF o \in ShipmentOps /\ rows[o].ship # NoShip THEN "discover"
  ELSE IF rows[o].rid # NoReq THEN "request"
  ELSE IF o \in ShipmentOps THEN "legacy" ELSE "list"

LEMMA NextOpStep ==
  ASSUME LocalTypes, TableTypes, NEW w \in Workers, NEW o \in Ops, NextOp(w, o)
  PROVE  /\ LocalTypes' /\ \A v \in Workers \ {w} : Same(v)
         /\ pc'[w] = Entry(o) /\ op'[w] = o /\ was'[w] = rows[o].status
         /\ found'[w] = rows[o].rid /\ target'[w] = rows[o].ship
         /\ Reading /\ pc[w] \in Idle \ {"off"}
         /\ rows[o].status \in Active \cup (IF o \in ShipmentOps THEN {"LINKED"} ELSE {})
<1>1. PICK x : x = Entry(o)
  OBVIOUS
<1>2. PICK r : r = rows[o]
  OBVIOUS
<1>3. /\ op' = [op EXCEPT ![w] = o]
      /\ was' = [was EXCEPT ![w] = r.status]
      /\ found' = [found EXCEPT ![w] = r.rid]
      /\ target' = [target EXCEPT ![w] = r.ship]
      /\ pc' = [pc EXCEPT ![w] = x]
      /\ UNCHANGED state
  BY <1>1, <1>2 DEF NextOp, Entry
<1>4. x \in Pc /\ r \in Row
  BY <1>1, <1>2 DEF Entry, Pc, TableTypes
<1>5. r.status \in Status /\ r.rid \in Request \cup {NoReq} /\ r.ship \in Shipments \cup {NoShip}
  BY <1>4 DEF Row
<1>6. LocalTypes'
  BY <1>3, <1>4, <1>5 DEF LocalTypes
<1>7. \A v \in Workers \ {w} : Same(v)
  BY <1>3 DEF LocalTypes, Same
<1>8. pc'[w] = x /\ op'[w] = o /\ was'[w] = r.status /\ found'[w] = r.rid /\ target'[w] = r.ship
  BY <1>3 DEF LocalTypes
<1>9. /\ Reading /\ pc[w] \in Idle \ {"off"}
      /\ rows[o].status \in Active \cup (IF o \in ShipmentOps THEN {"LINKED"} ELSE {})
  BY DEF NextOp, At, Idle
<1> QED BY <1>1, <1>2, <1>6, <1>7, <1>8, <1>9

LEMMA NextOpInv ==
  ASSUME Inv, NEW w \in Workers, NEW o \in Ops, NextOp(w, o)
  PROVE  Inv'
<1>1. /\ LocalTypes' /\ \A v \in Workers \ {w} : Same(v)
      /\ pc'[w] = Entry(o) /\ op'[w] = o
      /\ found'[w] = rows[o].rid /\ target'[w] = rows[o].ship /\ Reading
  BY Busy, NextOpStep
<1>2. o # NoOp /\ (o \in ShipmentOps \/ o \in ContainerOps)
  BY ConstantsAssumption DEF Ops
<1>3. HandOK(w)'
  BY <1>1, <1>2 DEF HandOK, Entry, Idle
<1> QED BY <1>1, <1>3, QuietInv

LEMMA LegacyRequestInv ==
  ASSUME Inv, NEW w \in Workers, LegacyRequest(w)
  PROVE  Inv'
<1> DEFINE others == Others(op[w], ContainerOps)
<1>1. pc[w] = "legacy" /\ pc[w] \notin Idle /\ TableTypes
  BY Busy DEF LegacyRequest, At, Idle
<1>2. Rids(others) \subseteq Request
  BY <1>1, RidsIn DEF Others, Ops
<1>3. CASE Cardinality(Rids(others)) = 1 /\ Follow(w, The(Rids(others)), "request") /\ Reading
  <2> HIDE DEF others
  <2>1. The(Rids(others)) \in Request
    BY <1>2, <1>3, TheOne
  <2> QED BY <1>1, <1>3, <2>1, FollowInv
<1>4. CASE Goto(w, "search") /\ Reading
  BY <1>1, <1>4, GoInv
<1>5. CASE Review(w)
  BY <1>1, <1>5, ReviewInv
<1> QED BY <1>3, <1>4, <1>5 DEF LegacyRequest

LEMMA ListContainersInv ==
  ASSUME Inv, NEW w \in Workers, ListContainers(w)
  PROVE  Inv'
<1>1. /\ pc[w] = "list" /\ pc[w] \notin Idle /\ op[w] \in ContainerOps
  BY Busy DEF ListContainers, At, Idle, HandOK
<1>2. \/ \E active \in SUBSET Shipments :
           Cardinality(active) = 1 /\ Aim(w, The(active), "map") /\ Reading
      \/ Review(w)
      \/ Goto(w, "search") /\ Reading
  BY DEF ListContainers
<1>3. CASE Review(w)
  BY <1>1, <1>3, ReviewInv
<1>4. CASE Goto(w, "search") /\ Reading
  BY <1>1, <1>4, GoInv
<1>5. ASSUME NEW active \in SUBSET Shipments,
             Cardinality(active) = 1, Aim(w, The(active), "map"), Reading
      PROVE  Inv'
  <2>1. The(active) \in Shipments
    BY <1>5, TheOne
  <2> QED BY <1>1, <1>5, <2>1, AimInv
<1> QED BY <1>2, <1>3, <1>4, <1>5

LEMMA SearchInv ==
  ASSUME Inv, NEW w \in Workers, Search(w)
  PROVE  Inv'
<1> DEFINE listed == {r \in requests : r.ref = Ref(w)}
           own == {r \in listed : r.by = op[w]}
           owners == IF IsShipment(w) THEN {} ELSE Others(op[w], ShipmentOps)
<1>1. /\ pc[w] = "search" /\ pc[w] \notin Idle /\ TableTypes /\ OtherTypes
  BY Busy DEF Search, At, Idle
<1>2. listed \subseteq Request /\ own \subseteq Request /\ Rids(owners) \subseteq Request
  <2>1. owners \in SUBSET Ops
    BY DEF Others, Ops
  <2>2. listed \subseteq Request
    BY <1>1 DEF OtherTypes
  <2> HIDE DEF owners
  <2> QED BY <1>1, <2>1, <2>2, RidsIn
<1>3. \/ Cardinality(own) = 1 /\ Record(w, The(own))
      \/ Cardinality(listed) = 1 /\ Record(w, The(listed))
      \/ /\ Rids(owners) # {}
         /\ Update(w, "PENDING", The(Rids(owners)), NoShip)
         /\ Follow(w, The(Rids(owners)), "request") /\ Database
      \/ Review(w)
      \/ Reading /\ Goto(w, "bills") /\ IsShipment(w)
      \/ Reading /\ Goto(w, "submit")
  BY DEF Search
<1> HIDE DEF listed, own, owners
<1>4. ASSUME NEW r \in Request, Record(w, r) PROVE Inv'
  BY <1>1, <1>4, KnownInv DEF Record
<1>5. CASE \/ Cardinality(own) = 1 /\ Record(w, The(own))
           \/ Cardinality(listed) = 1 /\ Record(w, The(listed))
  BY <1>2, <1>4, <1>5, TheOne
<1>6. CASE /\ Rids(owners) # {}
           /\ Update(w, "PENDING", The(Rids(owners)), NoShip)
           /\ Follow(w, The(Rids(owners)), "request") /\ Database
  <2>1. The(Rids(owners)) \in Request
    BY <1>2, <1>6, TheIn
  <2> QED BY <1>1, <1>6, <2>1, KnownInv
<1>7. CASE Review(w)
  BY <1>1, <1>7, ReviewInv
<1>8. CASE Reading /\ Goto(w, "bills") /\ IsShipment(w)
  BY <1>1, <1>8, GoInv DEF IsShipment
<1>9. CASE Reading /\ Goto(w, "submit")
  BY <1>1, <1>9, GoInv
<1> QED BY <1>3, <1>5, <1>6, <1>7, <1>8, <1>9

LEMMA ListShipmentsInv ==
  ASSUME Inv, NEW w \in Workers, ListShipments(w)
  PROVE  Inv'
<1>1. /\ pc[w] = "bills" /\ pc[w] \notin Idle /\ op[w] \in Ops
  BY Busy DEF ListShipments, At, Idle
<1>2. ShipmentOf[Ref(w)] \in Shipments
  BY <1>1, ConstantsAssumption DEF Ref
<1> QED BY <1>1, <1>2, GoInv, AimInv, ReviewInv DEF ListShipments

\* A row that is marked, and nothing else of the table.
LEMMA SubmitInv ==
  ASSUME Inv, NEW w \in Workers, Submit(w)
  PROVE  Inv'
<1>1. /\ pc[w] = "submit" /\ pc[w] \notin Idle /\ op[w] \in Ops
      /\ TableTypes /\ LocalTypes /\ OtherTypes /\ HandOK(w)
      /\ "SUBMITTING" \in Status /\ "post" \in Pc
  BY Busy DEF Submit, At, Idle, Status, Active, Pc
<1>2. CASE Review(w)
  BY <1>1, <1>2, ReviewInv
<1>3. CASE /\ Update(w, "SUBMITTING", NoReq, NoShip)
           /\ marked' = marked \cup {op[w]}
           /\ Goto(w, "post")
           /\ UNCHANGED <<mappings, lock, provider, sent, crashes>>
  <2>1. /\ rows' \in [Ops -> Row]
        /\ \A p \in Ops \ {op[w]} : rows'[p] = rows[p]
        /\ rows'[op[w]].status = "SUBMITTING" /\ rows'[op[w]].ship = rows[op[w]].ship
    BY <1>1, <1>3, UpdateStep
  <2>2. /\ LocalTypes' /\ \A v \in Workers \ {w} : Same(v)
        /\ pc'[w] = "post" /\ op'[w] = op[w]
    BY <1>1, <1>3, GotoStep
  <2>3. HandOK(w)'
    BY <1>1, <2>2, ConstantsAssumption DEF HandOK, Idle
  <2>4. \A p \in Ops : /\ rows'[p].ship = rows[p].ship
                       /\ rows'[p].status = "LINKED" => rows[p].status = "LINKED"
    BY <2>1
  <2>5. TypeOK'
    BY <1>1, <1>3, <2>1, <2>2, TypesPrimed DEF provider, TableTypes, OtherTypes
  <2> QED BY <1>3, <2>2, <2>3, <2>4, <2>5, RowInv
<1> QED BY <1>2, <1>3 DEF Submit

\* The POST that a worker makes.
Message(w) == [ref |-> Ref(w), by |-> op[w], nth |-> sent[op[w]] + 1]

LEMMA PostStep ==
  ASSUME Inv, NEW w \in Workers, Post(w)
  PROVE  /\ Inv' /\ pc[w] = "post" /\ op[w] \in Ops
         /\ Message(w) \in Request /\ posts' = posts \cup {Message(w)}
         /\ \A v \in Workers \ {w} : Same(v)
         /\ pc'[w] = "await" /\ op'[w] = op[w] /\ found'[w] = Message(w)
         /\ sent'[op[w]] = sent[op[w]] + 1
         /\ \A p \in Ops \ {op[w]} : sent'[p] = sent[p]
         /\ UNCHANGED <<table, requests, tracking, refused, marked>>
<1> PICK m : m = Message(w)
  OBVIOUS
<1>1. /\ pc[w] = "post" /\ sent[op[w]] < MaxPosts /\ posts' = posts \cup {m}
      /\ Follow(w, m, "await") /\ sent' = [sent EXCEPT ![op[w]] = @ + 1]
      /\ UNCHANGED <<table, lock, requests, tracking, refused, marked, crashes>>
  BY DEF Post, At, Message
<1>2. /\ op[w] \in Ops /\ TableTypes /\ LocalTypes /\ OtherTypes /\ HandOK(w)
      /\ "await" \in Pc
  BY <1>1, Busy DEF Idle, Pc
<1>3. sent \in [Ops -> 0 .. MaxPosts] /\ MaxPosts \in Nat
  BY <1>2, ConstantsAssumption DEF OtherTypes
<1>4. m \in Request
  <2>1. RefOf[op[w]] \in References /\ sent[op[w]] + 1 \in 1 .. MaxPosts
    BY <1>1, <1>2, <1>3, ConstantsAssumption
  <2> QED BY <1>2, <2>1 DEF Message, Ref, Request
<1>5. /\ LocalTypes' /\ \A v \in Workers \ {w} : Same(v)
      /\ pc'[w] = "await" /\ op'[w] = op[w] /\ found'[w] = m
  BY <1>1, <1>2, <1>4, FollowStep
<1>6. /\ sent' \in [Ops -> 0 .. MaxPosts] /\ sent'[op[w]] = sent[op[w]] + 1
      /\ \A p \in Ops \ {op[w]} : sent'[p] = sent[p]
  <2>1. PICK n : n = sent[op[w]] + 1
    OBVIOUS
  <2>2. n \in 0 .. MaxPosts /\ sent' = [sent EXCEPT ![op[w]] = n]
    BY <1>1, <1>2, <1>3, <2>1
  <2> QED BY <1>3, <1>2, <2>1, <2>2
<1>7. HandOK(w)'
  BY <1>2, <1>4, <1>5, ConstantsAssumption, NoReqNoRequest DEF HandOK, Idle
<1>8. TypeOK'
  BY <1>1, <1>2, <1>4, <1>5, <1>6, TypesPrimed DEF table, TableTypes, OtherTypes
<1>9. Inv'
  BY <1>1, <1>5, <1>7, <1>8, RowInv DEF table
<1> QED BY <1>1, <1>2, <1>4, <1>5, <1>6, <1>9

LEMMA AnsweredInv ==
  ASSUME Inv, NEW w \in Workers, Answered(w)
  PROVE  Inv'
<1>1. /\ pc[w] \notin Idle /\ OtherTypes /\ found[w] \in requests /\ Record(w, found[w])
  BY Busy DEF Answered, At, Idle
<1>2. PICK r \in Request : r = found[w]
  BY <1>1 DEF OtherTypes
<1> QED BY <1>1, <1>2, KnownInv DEF Record

LEMMA GetRequestInv ==
  ASSUME Inv, NEW w \in Workers, GetRequest(w)
  PROVE  Inv'
<1>1. pc[w] = "request" /\ pc[w] \notin Idle /\ LocalTypes /\ HandOK(w)
  BY Busy DEF GetRequest, At, Idle
<1>2. PICK r \in Request : r = found[w]
  BY <1>1 DEF LocalTypes, HandOK
<1>3. CASE Record(w, r)
  BY <1>1, <1>3, KnownInv DEF Record
<1>4. CASE Read(w, r, "resolve") /\ Reading
  BY <1>1, <1>4, FollowInv
<1> QED BY <1>2, <1>3, <1>4 DEF GetRequest

LEMMA ResolveRequestInv ==
  ASSUME Inv, NEW w \in Workers, ResolveRequest(w)
  PROVE  Inv'
<1>1. pc[w] = "resolve" /\ pc[w] \notin Idle /\ LocalTypes /\ HandOK(w)
  BY Busy DEF ResolveRequest, At, Idle
<1>2. PICK st \in {"PENDING", "FAILED"} :
        st = IF state[w] = "failed" THEN "FAILED" ELSE "PENDING"
  OBVIOUS
<1>3. CASE Ended(w, st)
  BY <1>1, <1>3, EndedInv
<1>4. CASE Aim(w, ShipmentOf[found[w].ref], "discover") /\ Reading
  <2>1. PICK r \in Request : r = found[w]
    BY <1>1 DEF LocalTypes, HandOK
  <2>2. ShipmentOf[r.ref] \in Shipments
    BY ConstantsAssumption DEF Request
  <2> QED BY <1>1, <1>4, <2>1, <2>2, AimInv
<1> QED BY <1>2, <1>3, <1>4 DEF ResolveRequest, Ended

LEMMA DiscoverInv ==
  ASSUME Inv, NEW w \in Workers, Discover(w)
  PROVE  Inv'
<1>1. /\ pc[w] = "discover" /\ pc[w] \notin Idle /\ op[w] \in Ops /\ target[w] # NoShip
  BY Busy DEF Discover, At, Idle, HandOK
<1>2. \/ Review(w)
      \/ IsShipment(w) /\ Goto(w, "close") /\ Reading
      \/ ~IsShipment(w) /\ Goto(w, "map") /\ Reading
      \/ Ended(w, "PENDING")
  BY DEF Discover, Ended
<1> QED BY <1>1, <1>2, ReviewInv, GoInv, EndedInv DEF IsShipment, Ops

\* A journey that is not taken is bound.
LEMMA BindLinks ==
  ASSUME Inv, UNCHANGED rows, NEW s \in Shipments, NEW o \in ContainerOps,
         Bind(s, o), ~Conflicts(s, o)
  PROVE  /\ LinkedIsExclusive' /\ mappings \subseteq mappings'
         /\ \A m, n \in mappings' : m.op = n.op => m = n
         /\ mappings' \subseteq [ship : Shipments, op : ContainerOps]
         /\ [ship |-> s, op |-> o] \in mappings'
<1> DEFINE new == [ship |-> s, op |-> o]
<1>1. mappings' = mappings \cup {new}
  BY DEF Bind
<1>2. \A m \in mappings : m # new =>
        m.op # o /\ (m.ship = s => NumberOf[m.op] # NumberOf[o])
  BY DEF Conflicts
<1>3. new.op = o /\ new.ship = s
  OBVIOUS
<1>4. mappings \subseteq [ship : Shipments, op : ContainerOps] /\ LinkedIsExclusive
      /\ \A m, n \in mappings : m.op = n.op => m = n
  BY DEF Inv, TypeOK
<1> HIDE DEF new
<1>5. \A m, n \in mappings' : m.op = n.op => m = n
  BY <1>1, <1>2, <1>3, <1>4
<1>6. \A m, n \in mappings' :
        m.ship = n.ship /\ NumberOf[m.op] = NumberOf[n.op] => m = n
  BY <1>1, <1>2, <1>3, <1>4 DEF LinkedIsExclusive
<1>7. ASSUME NEW c \in ContainerOps, rows[c].status = "LINKED"
      PROVE  {m \in mappings' : m.op = c} = {[ship |-> rows[c].ship, op |-> c]}
  <2>1. {m \in mappings : m.op = c} = {[ship |-> rows[c].ship, op |-> c]}
    BY <1>4, <1>7 DEF LinkedIsExclusive
  <2>2. CASE c # o
    BY <1>1, <1>3, <2>1, <2>2
  <2>3. CASE c = o
    <3>1. PICK m \in mappings : m.op = c
      BY <2>1
    <3>2. m = new
      BY <1>2, <2>3, <3>1
    <3> QED BY <1>1, <2>1, <3>2
  <2> QED BY <2>2, <2>3
<1>8. LinkedIsExclusive'
  BY <1>4, <1>6, <1>7 DEF LinkedIsExclusive
<1>9. new \in [ship : Shipments, op : ContainerOps]
  BY DEF new
<1> QED BY <1>1, <1>4, <1>5, <1>8, <1>9 DEF new

LEMMA LinkContainerInv ==
  ASSUME Inv, NEW w \in Workers, LinkContainer(w)
  PROVE  Inv'
<1>1. /\ pc[w] = "map" /\ pc[w] \notin Idle /\ op[w] \in ContainerOps
      /\ target[w] # NoShip /\ TableTypes /\ LocalTypes /\ OtherTypes
      /\ "close" \in Pc
  BY Busy DEF LinkContainer, At, Idle, HandOK, Pc
<1>2. CASE Review(w)
  BY <1>1, <1>2, ReviewInv
<1>3. CASE /\ ~Conflicts(target[w], op[w])
           /\ Bind(target[w], op[w]) /\ Goto(w, "close")
           /\ UNCHANGED <<rows, lock, provider, history, crashes>>
  <2>1. PICK s \in Shipments, o \in ContainerOps : s = target[w] /\ o = op[w]
    BY <1>1 DEF LocalTypes
  <2>2. /\ LinkedIsExclusive' /\ mappings \subseteq mappings'
        /\ \A m, n \in mappings' : m.op = n.op => m = n
        /\ mappings' \subseteq [ship : Shipments, op : ContainerOps]
        /\ [ship |-> s, op |-> o] \in mappings'
    BY <1>3, <2>1, BindLinks
  <2>3. /\ LocalTypes' /\ \A v \in Workers \ {w} : Same(v)
        /\ pc'[w] = "close" /\ op'[w] = op[w] /\ target'[w] = target[w]
    BY <1>1, <1>3, GotoStep
  <2>4. HandOK(w)'
    BY <1>1, <2>1, <2>2, <2>3, ConstantsAssumption DEF HandOK, Idle, Ops
  <2>5. TypeOK'
    BY <1>1, <1>3, <2>2, <2>3, TypesPrimed DEF provider, history, TableTypes, OtherTypes
  <2> QED BY <2>2, <2>3, <2>4, <2>5, WorkerInv
<1> QED BY <1>2, <1>3 DEF LinkContainer

\* What is closed is LINKED to the shipment that the mapping names.
LEMMA CloseInv ==
  ASSUME Inv, NEW w \in Workers, Close(w)
  PROVE  Inv'
<1>1. /\ pc[w] = "close" /\ pc[w] \notin Idle /\ op[w] \in Ops /\ HandOK(w)
      /\ target[w] # NoShip /\ TableTypes /\ LocalTypes /\ OtherTypes
      /\ "LINKED" \in Status
  BY Busy DEF Close, At, Idle, HandOK, Status
<1>2. CASE Review(w)
  BY <1>1, <1>2, ReviewInv
<1>3. CASE /\ ~(IsShipment(w) /\ \E p \in ShipmentOps \ {op[w]} : rows[p].ship = target[w])
           /\ Update(w, "LINKED", NoReq, target[w]) /\ Leave(w) /\ Database
  <2>1. PICK s \in Shipments, o \in Ops : s = target[w] /\ o = op[w]
    BY <1>1 DEF LocalTypes
  <2>2. /\ rows' \in [Ops -> Row]
        /\ \A p \in Ops \ {o} : rows'[p] = rows[p]
        /\ rows'[o].status = "LINKED" /\ rows'[o].ship = s
    BY <1>1, <1>3, <2>1, UpdateStep
  <2>3. /\ LocalTypes' /\ \A v \in Workers \ {w} : Same(v)
        /\ pc'[w] \in {"containers", "feed"} /\ op'[w] = NoOp
    BY <1>1, <1>3, LeaveStep
  <2>4. HandOK(w)'
    BY <2>3 DEF HandOK, Idle
  <2>5. UNCHANGED mappings
    BY <1>3 DEF Database
  <2>6. LinkedIsExclusive /\ \A m, n \in mappings : m.op = n.op => m = n
    BY DEF Inv
  <2>7. ASSUME NEW c \in ContainerOps, rows'[c].status = "LINKED"
        PROVE  {m \in mappings : m.op = c} = {[ship |-> rows'[c].ship, op |-> c]}
    <3>1. CASE c # o
      BY <2>2, <2>6, <2>7, <3>1 DEF LinkedIsExclusive, Ops
    <3>2. CASE c = o
      <4> DEFINE new == [ship |-> s, op |-> c]
      <4>1. new \in mappings
        BY <1>1, <2>1, <3>2 DEF HandOK
      <4>2. new.op = c
        OBVIOUS
      <4>3. {m \in mappings : m.op = c} = {new}
        <5> HIDE DEF new
        <5> QED BY <2>6, <4>1, <4>2
      <4> QED BY <2>2, <3>2, <4>3
    <3> QED BY <3>1, <3>2
  <2>8. \A a, b \in ShipmentOps :
          rows'[a].ship = rows'[b].ship /\ rows'[a].ship # NoShip => a = b
    BY <1>3, <2>1, <2>2, <2>6 DEF LinkedIsExclusive, IsShipment, Ops
  <2>9. LinkedIsExclusive'
    BY <2>5, <2>6, <2>7, <2>8 DEF LinkedIsExclusive
  <2>10. TypeOK'
    BY <1>3, <2>2, <2>3, DatabaseTypes
  <2> QED BY <2>3, <2>4, <2>5, <2>6, <2>9, <2>10, WorkerInv
<1> QED BY <1>2, <1>3 DEF Close

LEMMA RequestFailsInv ==
  ASSUME Inv, NEW w \in Workers, RequestFails(w)
  PROVE  Inv'
<1>1. pc[w] \notin Idle /\ Defer(w)
  BY DEF RequestFails, Idle
<1> QED BY <1>1, DeferInv

LEMMA CrashStep ==
  ASSUME Inv, NEW w \in Workers, Crash(w)
  PROVE  /\ Inv' /\ \A v \in Workers \ {w} : Same(v)
         /\ pc'[w] = "off" /\ UNCHANGED <<table, provider, history>>
<1>1. /\ TypeOK /\ TableTypes /\ LocalTypes /\ OtherTypes
      /\ "off" \in Pc /\ "absent" \in Status
  BY Busy DEF Pc, Status
<1>2. /\ crashes < MaxCrashes /\ crashes' = crashes + 1
      /\ lock' \in {NoLock, lock}
      /\ UNCHANGED <<table, provider, history>>
  BY DEF Crash
<1>3. LocalTypes'
  BY <1>1 DEF Crash, LocalTypes
<1>4. /\ \A v \in Workers \ {w} : Same(v)
      /\ pc'[w] = "off" /\ op'[w] = NoOp
  BY <1>1 DEF Crash, LocalTypes, Same
<1>5. HandOK(w)'
  BY <1>4 DEF HandOK, Idle
<1>6. TypeOK'
  BY <1>1, <1>2, <1>3, ConstantsAssumption, TypesPrimed
  DEF table, provider, history, TableTypes, OtherTypes
<1>7. Inv'
  BY <1>2, <1>4, <1>5, <1>6, RowInv DEF table
<1> QED BY <1>2, <1>4, <1>7

\* The others leave the workers alone.
LEMMA ElsewhereInv ==
  ASSUME Inv, TypeOK', UNCHANGED <<locals, mappings>>,
         \A p \in Ops : /\ rows'[p].ship = rows[p].ship
                        /\ rows'[p].status = "LINKED" => rows[p].status = "LINKED"
  PROVE  Inv' /\ \A v \in Workers : Same(v)
<1>1. \A v \in Workers : Same(v)
  BY DEF locals, Same
<1>2. NoOp \notin Workers
  BY ConstantsAssumption
<1> QED BY <1>1, <1>2, RowInv

LEMMA DropInv ==
  ASSUME Inv, NEW w \in Workers, DropConnection(w)
  PROVE  Inv' /\ \A v \in Workers : Same(v)
<1>1. /\ crashes < MaxCrashes /\ crashes' = crashes + 1 /\ lock' = NoLock
      /\ UNCHANGED <<table, provider, history, locals>>
  BY DEF DropConnection
<1>2. TypeOK
  BY DEF Inv
<1>3. TypeOK'
  BY <1>1, <1>2, ConstantsAssumption DEF TypeOK, table, provider, history, locals
<1> QED BY <1>1, <1>3, ElsewhereInv DEF table

\* Odoo asks.
Asked(o) ==
  /\ rows[o].status = "absent" /\ rows' = [rows EXCEPT ![o].status = "QUEUED"]
  /\ UNCHANGED <<mappings, lock, provider, history, locals, crashes>>

LEMMA AskStep ==
  ASSUME \/ \E o \in ContainerOps : Initiate(o)
         \/ \E o \in ShipmentOps : StartShipment(o)
  PROVE  \E o \in Ops : Asked(o)
<1>1. CASE \E o \in ContainerOps : Initiate(o)
  BY <1>1 DEF Initiate, Asked, Ops
<1>2. CASE \E o \in ShipmentOps : StartShipment(o)
  BY <1>2 DEF StartShipment, Asked, Ops
<1> QED BY <1>1, <1>2

LEMMA AskedStep ==
  ASSUME Inv, NEW o \in Ops, Asked(o)
  PROVE  /\ Inv' /\ \A v \in Workers : Same(v)
         /\ \A p \in Ops \ {o} : rows'[p] = rows[p]
         /\ rows'[o].status = "QUEUED" /\ rows'[o].rid = rows[o].rid
         /\ rows'[o].ship = rows[o].ship
         /\ rows[o].status = "absent" /\ rows'[o].attempts = rows[o].attempts
         /\ UNCHANGED <<provider, history>>
<1>1. /\ rows' = [rows EXCEPT ![o].status = "QUEUED"] /\ rows[o].status = "absent"
      /\ UNCHANGED <<mappings, lock, provider, history, locals, crashes>>
  BY DEF Asked
<1>2. TypeOK /\ rows \in [Ops -> Row] /\ rows[o] \in Row
  BY DEF Inv, TypeOK
<1>3. PICK x : x = [rows[o] EXCEPT !.status = "QUEUED"]
  OBVIOUS
<1>4. /\ x \in Row /\ x.status = "QUEUED" /\ x.rid = rows[o].rid /\ x.ship = rows[o].ship
      /\ x.attempts = rows[o].attempts
  BY <1>2, <1>3 DEF Row, Status, Active
<1>5. rows' = [rows EXCEPT ![o] = x]
  BY <1>1, <1>2, <1>3
<1>6. rows' \in [Ops -> Row] /\ rows'[o] = x /\ \A p \in Ops \ {o} : rows'[p] = rows[p]
  BY <1>2, <1>4, <1>5
<1>7. TypeOK'
  BY <1>1, <1>2, <1>6 DEF TypeOK, provider, history, locals
<1>8. \A p \in Ops : /\ rows'[p].ship = rows[p].ship
                     /\ rows'[p].status = "LINKED" => rows[p].status = "LINKED"
  BY <1>4, <1>6
<1> QED BY <1>1, <1>4, <1>6, <1>7, <1>8, ElsewhereInv

LEMMA MapByHandStep ==
  ASSUME Inv, NEW s \in Shipments, NEW o \in ContainerOps, MapByHand(s, o)
  PROVE  /\ Inv' /\ \A v \in Workers : Same(v)
         /\ UNCHANGED <<rows, provider, history>>
<1>1. /\ ~Conflicts(s, o) /\ Bind(s, o)
      /\ UNCHANGED <<rows, lock, provider, history, locals, crashes>>
  BY DEF MapByHand
<1>2. /\ LinkedIsExclusive' /\ mappings \subseteq mappings'
      /\ \A m, n \in mappings' : m.op = n.op => m = n
      /\ mappings' \subseteq [ship : Shipments, op : ContainerOps]
  BY <1>1, BindLinks
<1>3. TypeOK'
  BY <1>1, <1>2 DEF Inv, TypeOK, provider, history, locals
<1>4. \A v \in Workers : Same(v)
  BY <1>1 DEF locals, Same
<1>5. NoOp \notin Workers
  BY ConstantsAssumption
<1> QED BY <1>1, <1>2, <1>3, <1>4, <1>5, WorkerInv

\* Terminal49, and what is under way to it.
Terminal49 ==
  \/ \E m \in posts : Arrive(m) \/ Vanish(m)
  \/ \E ref \in References : Resolve(ref)
  \/ \E ref \in HandRefs : RequestByHand(ref)
  \/ \E s \in Shipments : Load(s) \/ Stop(s)

LEMMA Terminal49Inv ==
  ASSUME Inv, Terminal49
  PROVE  /\ Inv' /\ \A v \in Workers : Same(v)
         /\ UNCHANGED <<table, history>> /\ requests \subseteq requests'
<1>1. TypeOK
  BY DEF Inv
<1>2. ASSUME UNCHANGED <<table, lock, history, locals, crashes>>,
             requests' \subseteq Request, posts' \subseteq Request,
             tracking' \in [Shipments -> {"none", "empty", "loaded", "stopped"}],
             refused' \subseteq References
      PROVE  Inv' /\ \A v \in Workers : Same(v)
  <2>1. TypeOK'
    BY <1>1, <1>2 DEF TypeOK, table, history, locals
  <2> QED BY <1>2, <2>1, ElsewhereInv DEF table
<1>3. CASE \E m \in posts : Arrive(m) \/ Vanish(m)
  BY <1>1, <1>2, <1>3 DEF Arrive, Vanish, TypeOK
<1>4. CASE \E ref \in References : Resolve(ref)
  BY <1>1, <1>2, <1>4 DEF Resolve, TypeOK
<1>5. CASE \E ref \in HandRefs : RequestByHand(ref)
  <2>1. PICK ref \in HandRefs : RequestByHand(ref)
    BY <1>5
  <2>2. [ref |-> ref, by |-> ByHand, nth |-> 1] \in Request
    BY ConstantsAssumption DEF Request
  <2> QED BY <1>1, <1>2, <2>1, <2>2 DEF RequestByHand, TypeOK
<1>6. CASE \E s \in Shipments : Load(s) \/ Stop(s)
  BY <1>1, <1>2, <1>6 DEF Load, Stop, Develop, TypeOK
<1> QED BY <1>3, <1>4, <1>5, <1>6 DEF Terminal49

-----------------------------------------------------------------------------

LEMMA InitInv == Init => Inv
<1> SUFFICES ASSUME Init PROVE Inv
  OBVIOUS
<1>1. NoRow \in Row
  BY DEF NoRow, Row, Status
<1>2. TypeOK
  BY <1>1, ConstantsAssumption DEF Init, TypeOK, NoLock, Pc, Status
<1>3. LinkedIsExclusive
  BY DEF Init, LinkedIsExclusive, NoRow, Ops
<1>4. \A w \in Workers : HandOK(w)
  BY DEF Init, HandOK, Idle
<1> QED BY <1>2, <1>3, <1>4 DEF Init, Inv

LEMMA WorkInv ==
  ASSUME Inv, NEW w \in Workers, Work(w)
  PROVE  Inv'
BY LegacyRequestInv, ListContainersInv, SearchInv, ListShipmentsInv, SubmitInv,
   PostStep, AnsweredInv, GetRequestInv, ResolveRequestInv, DiscoverInv,
   LinkContainerInv, CloseInv, RequestFailsInv, NothingDueInv DEF Work

\* The steps by who takes them.
LEMMA Steps ==
  ASSUME Next
  PROVE  \/ \E o \in Ops : Asked(o)
         \/ \E s \in Shipments, o \in ContainerOps : MapByHand(s, o)
         \/ Terminal49
         \/ \E w \in Workers :
              \/ StartWorker(w) \/ NothingDue(w) \/ Work(w)
              \/ Crash(w) \/ DropConnection(w)
              \/ \E o \in Ops : NextOp(w, o)
BY AskStep DEF Next, Terminal49

LEMMA StepInv ==
  ASSUME Inv, [Next]_vars
  PROVE  Inv'
<1>1. CASE UNCHANGED vars
  <2>1. UNCHANGED <<table, lock, provider, history, locals, crashes>>
    BY <1>1 DEF vars
  <2>2. TypeOK'
    BY <2>1 DEF Inv, TypeOK, table, provider, history, locals
  <2> QED BY <2>1, <2>2, ElsewhereInv DEF table
<1>2. CASE Next
  <2>1. CASE \E o \in Ops : Asked(o)
    BY <2>1, AskedStep
  <2>2. CASE \E s \in Shipments, o \in ContainerOps : MapByHand(s, o)
    BY <2>2, MapByHandStep
  <2>3. CASE Terminal49
    BY <2>3, Terminal49Inv
  <2>4. ASSUME NEW w \in Workers,
               \/ StartWorker(w) \/ NothingDue(w) \/ Work(w)
               \/ Crash(w) \/ DropConnection(w)
               \/ \E o \in Ops : NextOp(w, o)
        PROVE  Inv'
    BY <2>4, StartWorkerInv, NothingDueInv, WorkInv, CrashStep, DropInv, NextOpInv
  <2> QED BY <1>2, <2>1, <2>2, <2>3, <2>4, Steps
<1> QED BY <1>1, <1>2

\* However many workers are at it, lock or no lock: what has the status LINKED
\* (Store.mapping, Initiator, ShipmentWorker) is bound, a journey to one Odoo
\* container and a container to one journey, and a shipment to one operation.
THEOREM Linked == Spec => []LinkedIsExclusive
<1>1. Inv /\ [Next]_vars => Inv'
  BY StepInv
<1>2. Inv => LinkedIsExclusive
  BY DEF Inv
<1> QED BY InitInv, <1>1, <1>2, PTL DEF Spec

-----------------------------------------------------------------------------
(* One worker at a time *)

LEMMA WorkKept ==
  ASSUME NEW v \in Workers, Same(v), WorkOK(v), requests \subseteq requests',
         UNCHANGED history,
         pc[v] \notin Idle => rows'[op[v]] = rows[op[v]],
         \A p \in Ops : rows'[p].status \in Submitted => rows[p].status \in Submitted
  PROVE  WorkOK(v)'
<1>1. CASE pc[v] \in Idle
  BY <1>1 DEF Same, WorkOK
<1>2. CASE pc[v] \notin Idle
  <2> DEFINE o == op[v]
  <2>1. /\ op'[v] = o /\ pc'[v] = pc[v] /\ was'[v] = was[v] /\ found'[v] = found[v]
        /\ rows'[o] = rows[o] /\ marked' = marked /\ sent' = sent
    BY <1>2 DEF Same, history
  <2>2. o \in ShipmentOps => \A c \in Rivals(o) :
          rows'[c].status \in Submitted => rows[c].status \in Submitted
    BY DEF Rivals, Ops
  <2> QED BY <1>2, <2>1, <2>2 DEF WorkOK
<1> QED BY <1>1, <1>2

\* Rows, requests and history are as they were.
LEMMA QuietIInv ==
  ASSUME IInv, Inv', UNCHANGED <<rows, provider, history>>,
         NEW w, \A v \in Workers \ {w} : Same(v), w \in Workers => WorkOK(w)'
  PROVE  IInv'
<1>1. requests' = requests /\ posts' = posts /\ marked' = marked /\ sent' = sent
  BY DEF provider, history
<1>2. ASSUME NEW v \in Workers PROVE WorkOK(v)'
  <2>1. CASE v = w
    BY <2>1
  <2>2. CASE v # w
    <3>1. Same(v) /\ WorkOK(v)
      BY <2>2 DEF IInv
    <3> QED BY <1>1, <3>1, WorkKept
  <2> QED BY <2>1, <2>2
<1>3. \A o \in Ops : RowOK(o)'
  BY <1>1 DEF IInv, RowOK
<1>4. PostsOK'
  BY <1>1 DEF IInv, PostsOK
<1>5. \A o \in marked' : Rivals(o) \cap marked' = {}
  BY <1>1 DEF IInv
<1> QED BY <1>2, <1>3, <1>4, <1>5 DEF IInv

\* Where the worker is alone, the others are off.
LEMMA Alone ==
  ASSUME Exclusive, NEW w \in Workers, pc[w] \notin Idle,
         NEW v \in Workers \ {w}, Same(v)
  PROVE  WorkOK(v)'
<1>1. pc[v] = "off" /\ pc'[v] = pc[v]
  BY DEF Exclusive, Idle, Same
<1> QED BY <1>1 DEF WorkOK, Idle

\* Only the row of w's operation has changed.
LEMMA OwnIInv ==
  ASSUME IInv, Exclusive, NEW w \in Workers, pc[w] \notin Idle, Inv',
         UNCHANGED <<provider, history>>,
         \A p \in Ops \ {op[w]} : rows'[p] = rows[p],
         \A v \in Workers \ {w} : Same(v),
         \A p \in {op[w]} : RowOK(p)', WorkOK(w)'
  PROVE  IInv'
<1>1. requests' = requests /\ posts' = posts /\ marked' = marked /\ sent' = sent
  BY DEF provider, history
<1>2. \A v \in Workers : WorkOK(v)'
  BY Alone
<1>3. ASSUME NEW p \in Ops PROVE RowOK(p)'
  <2>1. CASE p = op[w]
    BY <2>1
  <2>2. CASE p # op[w]
    <3>1. RowOK(p) /\ rows'[p] = rows[p]
      BY <2>2 DEF IInv
    <3> QED BY <1>1, <3>1 DEF RowOK
  <2> QED BY <2>1, <2>2
<1>4. PostsOK'
  BY <1>1 DEF IInv, PostsOK
<1>5. \A o \in marked' : Rivals(o) \cap marked' = {}
  BY <1>1 DEF IInv
<1> QED BY <1>2, <1>3, <1>4, <1>5 DEF IInv

\* What is known of the operation that w is at.
LEMMA AtWork ==
  ASSUME IInv, NEW w \in Workers, pc[w] \notin Idle
  PROVE  /\ Inv /\ HandOK(w) /\ WorkOK(w) /\ op[w] \in Ops /\ RowOK(op[w])
         /\ TableTypes /\ OtherTypes /\ LocalTypes
         /\ rows[op[w]] \in Row /\ rows[op[w]].attempts \in Nat
         /\ rows[op[w]].status \in Active \cup {"LINKED"}
         /\ rows[op[w]].rid \in Request \cup {NoReq}
<1>1. Inv /\ WorkOK(w)
  BY DEF IInv
<1>2. /\ HandOK(w) /\ op[w] \in Ops /\ rows[op[w]] \in Row
      /\ TableTypes /\ OtherTypes /\ LocalTypes
  BY <1>1, Busy
<1>3. RowOK(op[w])
  BY <1>2 DEF IInv
<1> QED BY <1>1, <1>2, <1>3 DEF WorkOK, Row

LEMMA EndedIInv ==
  ASSUME IInv, Exclusive, NEW w \in Workers, pc[w] \notin Idle,
         NEW st \in {"PENDING", "FAILED", "NEEDS_REVIEW"}, Ended(w, st),
         st # "NEEDS_REVIEW" => rows[op[w]].rid # NoReq
  PROVE  IInv'
<1>1. /\ Inv /\ TableTypes /\ LocalTypes /\ op[w] \in Ops /\ RowOK(op[w])
      /\ Update(w, st, NoReq, NoShip) /\ Leave(w) /\ Database /\ st \in Status
  BY AtWork DEF Ended, Status, Active
<1>2. /\ \A p \in Ops \ {op[w]} : rows'[p] = rows[p]
      /\ rows'[op[w]].status = st /\ rows'[op[w]].attempts = 0
      /\ rows'[op[w]].rid = rows[op[w]].rid
  BY <1>1, UpdateStep
<1>3. \A v \in Workers \ {w} : Same(v)
  BY <1>1, LeaveStep
<1>4. UNCHANGED <<provider, history>>
  BY <1>1 DEF Database
<1>5. ASSUME NEW p \in {op[w]} PROVE RowOK(p)'
  BY <1>1, <1>2, <1>4, ConstantsAssumption DEF RowOK, provider, history
<1>6. WorkOK(w)'
  <2>1. pc'[w] \in Idle
    BY <1>1, LeaveStep DEF Idle
  <2> QED BY <2>1 DEF WorkOK
<1>7. Inv'
  BY <1>1, EndedInv
<1> QED BY <1>2, <1>3, <1>4, <1>5, <1>6, <1>7, OwnIInv

LEMMA ReviewIInv ==
  ASSUME IInv, Exclusive, NEW w \in Workers, pc[w] \notin Idle, Review(w)
  PROVE  IInv'
BY EndedIInv DEF Review, Ended

LEMMA DeferIInv ==
  ASSUME IInv, Exclusive, NEW w \in Workers, pc[w] \notin Idle, Defer(w)
  PROVE  IInv'
<1>1. /\ Inv /\ TableTypes /\ LocalTypes /\ op[w] \in Ops /\ RowOK(op[w])
      /\ Leave(w) /\ Database
      /\ rows[op[w]].attempts \in Nat /\ rows[op[w]].status \in Active \cup {"LINKED"}
  BY AtWork DEF Defer
<1>2. /\ \A p \in Ops \ {op[w]} : rows'[p] = rows[p]
      /\ rows'[op[w]].attempts = rows[op[w]].attempts + 1
      /\ rows'[op[w]].rid = rows[op[w]].rid /\ rows'[op[w]].ship = rows[op[w]].ship
      /\ rows'[op[w]].status = IF rows[op[w]].attempts >= ReviewAfter
                               THEN "NEEDS_REVIEW" ELSE rows[op[w]].status
  BY <1>1, DeferRow
<1>3. \A v \in Workers \ {w} : Same(v)
  BY <1>1, LeaveStep
<1>4. UNCHANGED <<provider, history>>
  BY <1>1 DEF Database
<1>5. ASSUME NEW p \in {op[w]} PROVE RowOK(p)'
  BY <1>1, <1>2, <1>4, ConstantsAssumption DEF RowOK, provider, history
<1>6. WorkOK(w)'
  <2>1. pc'[w] \in Idle
    BY <1>1, LeaveStep DEF Idle
  <2> QED BY <2>1 DEF WorkOK
<1>7. Inv'
  BY <1>1, DeferInv
<1> QED BY <1>2, <1>3, <1>4, <1>5, <1>6, <1>7, OwnIInv

LEMMA KnownIInv ==
  ASSUME IInv, Exclusive, NEW w \in Workers, pc[w] \notin Idle,
         NEW r \in requests, r.ref = RefOf[op[w]],
         Update(w, "PENDING", r, NoShip), Database,
         NEW to \in {"request", "resolve"}, Read(w, r, to) \/ Follow(w, r, to)
  PROVE  IInv'
<1>1. /\ Inv /\ TableTypes /\ LocalTypes /\ op[w] \in Ops /\ RowOK(op[w])
      /\ r \in Request /\ "PENDING" \in Status /\ to \in Pc /\ r # NoReq
  BY AtWork, NoReqNoRequest DEF OtherTypes, Status, Active, Pc
<1>2. /\ \A p \in Ops \ {op[w]} : rows'[p] = rows[p]
      /\ rows'[op[w]].status = "PENDING" /\ rows'[op[w]].attempts = 0
      /\ rows'[op[w]].rid = r
  BY <1>1, UpdateStep
<1>3. /\ \A v \in Workers \ {w} : Same(v)
      /\ pc'[w] = to /\ op'[w] = op[w] /\ found'[w] = r
  BY <1>1, ReadStep, FollowStep
<1>4. UNCHANGED <<provider, history>>
  BY DEF Database
<1>5. ASSUME NEW p \in {op[w]} PROVE RowOK(p)'
  BY <1>1, <1>2, <1>4, ConstantsAssumption DEF RowOK, provider, history
<1>6. WorkOK(w)'
  BY <1>1, <1>2, <1>3, <1>4 DEF WorkOK, Active, provider
<1>7. Inv'
  BY <1>1, KnownInv
<1> QED BY <1>2, <1>3, <1>4, <1>5, <1>6, <1>7, OwnIInv

\* The worker has only moved on.
LEMMA MoveIInv ==
  ASSUME IInv, Inv', Reading, NEW w \in Workers,
         \A v \in Workers \ {w} : Same(v), WorkOK(w)'
  PROVE  IInv'
BY QuietIInv DEF Reading, table

LEMMA StartIInv ==
  ASSUME IInv, NEW w \in Workers, StartWorker(w) \/ NothingDue(w) \/ Feed(w)
  PROVE  IInv'
<1>1. Inv'
  BY StartWorkerInv, NothingDueInv DEF IInv
<1>2. PICK to \in Idle : Goto(w, to)
  BY DEF StartWorker, NothingDue, Feed, Idle
<1>3. LocalTypes /\ to \in Pc
  BY Busy DEF IInv, Idle, Pc
<1>4. pc'[w] = to /\ \A v \in Workers \ {w} : Same(v)
  BY <1>2, <1>3, GotoStep
<1>5. WorkOK(w)'
  BY <1>4 DEF WorkOK
<1>6. UNCHANGED <<rows, provider, history>>
  BY DEF StartWorker, NothingDue, Feed, Reading, table
<1> QED BY <1>1, <1>4, <1>5, <1>6, QuietIInv

LEMMA NextOpIInv ==
  ASSUME IInv, NEW w \in Workers, NEW o \in Ops, NextOp(w, o)
  PROVE  IInv'
<1>1. Inv /\ Inv' /\ RowOK(o)
  BY NextOpInv DEF IInv
<1>2. /\ \A v \in Workers \ {w} : Same(v)
      /\ pc'[w] = Entry(o) /\ op'[w] = o /\ was'[w] = rows[o].status
      /\ found'[w] = rows[o].rid /\ Reading
      /\ rows[o].status \in Active \cup (IF o \in ShipmentOps THEN {"LINKED"} ELSE {})
  BY <1>1, Busy, NextOpStep
<1>3. UNCHANGED <<rows, requests, marked, sent>>
  BY <1>2 DEF Reading, table, provider, history
<1>4. o \in ShipmentOps \/ o \in ContainerOps
  BY DEF Ops
<1>5. Entry(o) \in {"legacy", "list"} =>
        rows[o].rid = NoReq /\ rows[o].status \in {"QUEUED", "SUBMITTING"}
  BY <1>1, <1>2, <1>4 DEF Entry, RowOK, Active
<1>6. Entry(o) \in {"legacy", "list", "request", "discover"}
      /\ (Entry(o) = "discover" => o \in ShipmentOps)
      /\ (Entry(o) = "request" => rows[o].rid # NoReq)
  BY DEF Entry
<1>7. WorkOK(w)'
  <2>1. rows'[op'[w]] = rows[o]
    BY <1>2, <1>3
  <2>2. o \in ShipmentOps => o \notin ContainerOps
    BY ConstantsAssumption
  <2> HIDE DEF Entry
  <2> QED BY <1>1, <1>2, <1>3, <1>5, <1>6, <2>1, <2>2 DEF WorkOK, RowOK
<1> QED BY <1>1, <1>2, <1>7, MoveIInv

\* The requests that rows know are there, and for their reference.
LEMMA RidsThere ==
  ASSUME IInv, NEW S \in SUBSET Ops, NEW ref, \A p \in S : RefOf[p] = ref
  PROVE  \A r \in Rids(S) : r \in requests /\ r.ref = ref
<1>1. \A p \in S : rows[p].rid # NoReq => rows[p].rid \in requests /\ rows[p].rid.ref = ref
  BY DEF IInv, RowOK
<1> QED BY <1>1 DEF Rids

LEMMA LegacyRequestIInv ==
  ASSUME IInv, Exclusive, NEW w \in Workers, LegacyRequest(w)
  PROVE  IInv'
<1> DEFINE others == Others(op[w], ContainerOps)
<1>1. /\ pc[w] = "legacy" /\ pc[w] \notin Idle /\ Inv'
  BY LegacyRequestInv DEF LegacyRequest, At, Idle, IInv
<1>2. /\ WorkOK(w) /\ LocalTypes /\ op[w] \in ShipmentOps
      /\ "search" \in Pc /\ "request" \in Pc
  BY <1>1, AtWork DEF HandOK, Pc
<1>3. CASE Cardinality(Rids(others)) = 1 /\ Follow(w, The(Rids(others)), "request") /\ Reading
  <2>1. others \in SUBSET Ops /\ \A p \in others : RefOf[p] = RefOf[op[w]]
    BY DEF Others, Ops
  <2> HIDE DEF others
  <2>2. PICK r \in Rids(others) : r = The(Rids(others))
    BY <1>3, TheOne
  <2>3. r \in requests /\ r.ref = RefOf[op[w]]
    BY <2>1, RidsThere
  <2>4. r \in Request
    BY <1>1, <2>3, AtWork DEF OtherTypes
  <2>5. /\ \A v \in Workers \ {w} : Same(v)
        /\ pc'[w] = "request" /\ op'[w] = op[w] /\ found'[w] = r
    BY <1>2, <1>3, <2>2, <2>4, FollowStep
  <2>6. UNCHANGED <<rows, requests>>
    BY <1>3 DEF Reading, table, provider
  <2>7. WorkOK(w)'
    BY <1>1, <1>2, <2>3, <2>5, <2>6 DEF WorkOK
  <2> QED BY <1>1, <1>3, <2>5, <2>7, MoveIInv
<1>4. CASE others = {} /\ Goto(w, "search") /\ Reading
  <2>1. /\ \A v \in Workers \ {w} : Same(v)
        /\ pc'[w] = "search" /\ op'[w] = op[w] /\ was'[w] = was[w]
    BY <1>2, <1>4, GotoStep
  <2>2. \A c \in Rivals(op[w]) : rows[c].status \notin Submitted
    BY <1>2, <1>4 DEF Rivals, Others
  <2>3. UNCHANGED rows
    BY <1>4 DEF Reading, table
  <2>4. WorkOK(w)'
    BY <1>1, <1>2, <2>1, <2>2, <2>3 DEF WorkOK
  <2> QED BY <1>1, <1>4, <2>1, <2>4, MoveIInv
<1>5. CASE Review(w)
  BY <1>1, <1>5, ReviewIInv
<1> QED BY <1>3, <1>4, <1>5 DEF LegacyRequest

LEMMA ListContainersIInv ==
  ASSUME IInv, Exclusive, NEW w \in Workers, ListContainers(w)
  PROVE  IInv'
<1>1. /\ pc[w] = "list" /\ pc[w] \notin Idle /\ Inv'
  BY ListContainersInv DEF ListContainers, At, Idle, IInv
<1>2. /\ WorkOK(w) /\ LocalTypes /\ op[w] \in ContainerOps /\ op[w] \notin ShipmentOps
      /\ "search" \in Pc /\ "map" \in Pc
  BY <1>1, AtWork, ConstantsAssumption DEF HandOK, Pc
<1>3. \/ \E active \in SUBSET Shipments :
           Cardinality(active) = 1 /\ Aim(w, The(active), "map") /\ Reading
      \/ Review(w)
      \/ Goto(w, "search") /\ Reading
  BY DEF ListContainers
<1>4. CASE Review(w)
  BY <1>1, <1>4, ReviewIInv
<1>5. CASE Goto(w, "search") /\ Reading
  <2>1. /\ \A v \in Workers \ {w} : Same(v)
        /\ pc'[w] = "search" /\ op'[w] = op[w] /\ was'[w] = was[w]
    BY <1>2, <1>5, GotoStep
  <2>2. UNCHANGED rows
    BY <1>5 DEF Reading, table
  <2>3. WorkOK(w)'
    BY <1>1, <1>2, <2>1, <2>2 DEF WorkOK
  <2> QED BY <1>1, <1>5, <2>1, <2>3, MoveIInv
<1>6. ASSUME NEW active \in SUBSET Shipments,
             Cardinality(active) = 1, Aim(w, The(active), "map"), Reading
      PROVE  IInv'
  <2>1. The(active) \in Shipments
    BY <1>6, TheOne
  <2>2. /\ \A v \in Workers \ {w} : Same(v)
        /\ pc'[w] = "map" /\ op'[w] = op[w]
    BY <1>2, <1>6, <2>1, AimStep
  <2>3. UNCHANGED rows
    BY <1>6 DEF Reading, table
  <2>4. WorkOK(w)'
    BY <1>1, <1>2, <2>2, <2>3 DEF WorkOK
  <2> QED BY <1>1, <1>6, <2>2, <2>4, MoveIInv
<1> QED BY <1>3, <1>4, <1>5, <1>6

\* No request of the reference, and no operation of the other kind that looks
\* as if it had been sent: none has.
LEMMA NoneMarked ==
  ASSUME IInv, NEW o \in Ops, {r \in requests : r.ref = RefOf[o]} = {},
         \A p \in Rivals(o) : rows[p].status \notin Submitted
  PROVE  Rivals(o) \cap marked = {}
<1> SUFFICES ASSUME NEW p \in Rivals(o), p \in marked
             PROVE  FALSE
  OBVIOUS
<1>1. p \in Ops /\ RefOf[p] = RefOf[o]
  BY DEF Rivals, Ops
<1>2. RowOK(p) /\ rows[p].status \in Status
  <2>1. rows[p] \in Row
    BY <1>1 DEF IInv, Inv, TypeOK
  <2> QED BY <1>1, <2>1 DEF IInv, Row
<1>3. rows[p].status = "FAILED"
  BY <1>2 DEF RowOK, Submitted, Status, Active
<1>4. rows[p].rid \in requests /\ rows[p].rid.ref = RefOf[o]
  BY <1>1, <1>2, <1>3 DEF RowOK
<1> QED BY <1>4

LEMMA SearchIInv ==
  ASSUME IInv, Exclusive, NEW w \in Workers, Search(w)
  PROVE  IInv'
<1> DEFINE listed == {r \in requests : r.ref = Ref(w)}
           own == {r \in listed : r.by = op[w]}
           owners == IF IsShipment(w) THEN {} ELSE Others(op[w], ShipmentOps)
<1>1. /\ pc[w] = "search" /\ pc[w] \notin Idle /\ Inv'
  BY SearchInv DEF Search, At, Idle, IInv
<1>2. /\ WorkOK(w) /\ LocalTypes /\ op[w] \in Ops /\ "bills" \in Pc /\ "submit" \in Pc
  BY <1>1, AtWork DEF Pc
<1>3. \A r \in listed : r \in requests /\ r.ref = RefOf[op[w]]
  BY DEF Ref
<1>4. \A r \in Rids(owners) : r \in requests /\ r.ref = RefOf[op[w]]
  <2>1. owners \in SUBSET Ops /\ \A p \in owners : RefOf[p] = RefOf[op[w]]
    BY DEF Others, Ops
  <2> HIDE DEF owners
  <2> QED BY <2>1, RidsThere
<1>5. \/ Cardinality(own) = 1 /\ Record(w, The(own))
      \/ Cardinality(listed) = 1 /\ Record(w, The(listed))
      \/ /\ Rids(owners) # {}
         /\ Update(w, "PENDING", The(Rids(owners)), NoShip)
         /\ Follow(w, The(Rids(owners)), "request") /\ Database
      \/ Review(w)
      \/ /\ listed = {} /\ owners = {} /\ Reading
         /\ \E to \in {"bills", "submit"} : Goto(w, to)
  BY DEF Search
<1>6. CASE \/ Cardinality(own) = 1 /\ Record(w, The(own))
           \/ Cardinality(listed) = 1 /\ Record(w, The(listed))
  <2>1. PICK r \in listed : Record(w, r)
    <3>1. own \subseteq listed
      OBVIOUS
    <3> HIDE DEF own, listed
    <3> QED BY <1>6, <3>1, TheOne
  <2> HIDE DEF listed, own
  <2> QED BY <1>1, <1>3, <2>1, KnownIInv DEF Record
<1>7. CASE /\ Rids(owners) # {}
           /\ Update(w, "PENDING", The(Rids(owners)), NoShip)
           /\ Follow(w, The(Rids(owners)), "request") /\ Database
  <2> HIDE DEF owners
  <2>1. PICK r \in Rids(owners) : r = The(Rids(owners))
    BY <1>7, TheIn
  <2> QED BY <1>1, <1>4, <1>7, <2>1, KnownIInv
<1>8. CASE Review(w)
  BY <1>1, <1>8, ReviewIInv
<1>9. CASE /\ listed = {} /\ owners = {} /\ Reading
           /\ \E to \in {"bills", "submit"} : Goto(w, to)
  <2>1. PICK to \in {"bills", "submit"} : Goto(w, to)
    BY <1>9
  <2>2. /\ \A v \in Workers \ {w} : Same(v)
        /\ pc'[w] = to /\ op'[w] = op[w] /\ was'[w] = was[w]
    BY <1>2, <2>1, GotoStep
  <2>3. \A p \in Rivals(op[w]) : rows[p].status \notin Submitted
    BY <1>1, <1>2, <1>9 DEF WorkOK, Rivals, Others, IsShipment
  <2>4. Rivals(op[w]) \cap marked = {}
    BY <1>2, <1>9, <2>3, NoneMarked DEF Ref
  <2>5. UNCHANGED <<rows, marked>>
    BY <1>9 DEF Reading, table, history
  <2>6. WorkOK(w)'
    BY <1>1, <1>2, <2>2, <2>4, <2>5 DEF WorkOK
  <2> QED BY <1>1, <1>9, <2>2, <2>6, MoveIInv
<1> QED BY <1>5, <1>6, <1>7, <1>8, <1>9

LEMMA ListShipmentsIInv ==
  ASSUME IInv, Exclusive, NEW w \in Workers, ListShipments(w)
  PROVE  IInv'
<1>1. /\ pc[w] = "bills" /\ pc[w] \notin Idle /\ Inv'
  BY ListShipmentsInv DEF ListShipments, At, Idle, IInv
<1>2. /\ WorkOK(w) /\ LocalTypes /\ op[w] \in ShipmentOps /\ op[w] \notin ContainerOps
      /\ "submit" \in Pc /\ "discover" \in Pc
  BY <1>1, AtWork, ConstantsAssumption DEF HandOK, Pc
<1>3. PICK s \in Shipments : s = ShipmentOf[Ref(w)]
  BY <1>2, ConstantsAssumption DEF Ref, Ops
<1>4. CASE Review(w)
  BY <1>1, <1>4, ReviewIInv
<1>5. CASE Reading /\ (Goto(w, "submit") \/ Aim(w, s, "discover"))
  <2>1. /\ \A v \in Workers \ {w} : Same(v)
        /\ pc'[w] \in {"submit", "discover"} /\ op'[w] = op[w] /\ was'[w] = was[w]
    BY <1>2, <1>5, GotoStep, AimStep
  <2>2. UNCHANGED <<rows, marked>>
    BY <1>5 DEF Reading, table, history
  <2>3. WorkOK(w)'
    BY <1>1, <1>2, <2>1, <2>2 DEF WorkOK
  <2> QED BY <1>1, <1>5, <2>1, <2>3, MoveIInv
<1> QED BY <1>3, <1>4, <1>5 DEF ListShipments

\* Rivalry goes both ways, and an operation is not its own rival.
LEMMA RivalsBoth ==
  ASSUME NEW o \in Ops, NEW p \in Rivals(o)
  PROVE  p \in Ops /\ p # o /\ o \in Rivals(p)
BY ConstantsAssumption DEF Rivals, Ops

\* What is marked looked as if it had never been sent, and had not.
LEMMA SubmitStep ==
  ASSUME IInv, NEW w \in Workers, Submit(w)
  PROVE  /\ pc[w] = "submit" /\ pc[w] \notin Idle /\ op[w] \in Ops /\ Inv'
         /\ \/ Review(w)
            \/ /\ op[w] \notin marked /\ sent[op[w]] = 0
               /\ rows[op[w]].rid = NoReq
               /\ marked' = marked \cup {op[w]}
               /\ \A p \in Ops \ {op[w]} : rows'[p] = rows[p]
               /\ rows'[op[w]].status = "SUBMITTING" /\ rows'[op[w]].attempts = 0
               /\ rows'[op[w]].rid = rows[op[w]].rid
               /\ \A v \in Workers \ {w} : Same(v)
               /\ pc'[w] = "post" /\ op'[w] = op[w]
               /\ UNCHANGED <<provider, sent>>
<1>1. /\ pc[w] = "submit" /\ pc[w] \notin Idle /\ Inv'
  BY SubmitInv DEF Submit, At, Idle, IInv
<1>2. /\ WorkOK(w) /\ TableTypes /\ LocalTypes /\ OtherTypes /\ op[w] \in Ops /\ RowOK(op[w])
      /\ "SUBMITTING" \in Status /\ "post" \in Pc
  BY <1>1, AtWork DEF Status, Active, Pc
<1>3. CASE /\ was[w] # "SUBMITTING"
           /\ Update(w, "SUBMITTING", NoReq, NoShip)
           /\ marked' = marked \cup {op[w]}
           /\ Goto(w, "post")
           /\ UNCHANGED <<mappings, lock, provider, sent, crashes>>
  <2>1. rows[op[w]].status = "QUEUED" /\ rows[op[w]].rid = NoReq
    BY <1>1, <1>2, <1>3 DEF WorkOK
  <2>2. op[w] \notin marked /\ sent[op[w]] = 0
    <3>1. sent[op[w]] \in Nat
      BY <1>2, ConstantsAssumption DEF OtherTypes
    <3> QED BY <1>2, <2>1, <3>1 DEF RowOK
  <2>3. /\ \A p \in Ops \ {op[w]} : rows'[p] = rows[p]
        /\ rows'[op[w]].status = "SUBMITTING" /\ rows'[op[w]].attempts = 0
        /\ rows'[op[w]].rid = rows[op[w]].rid
    BY <1>2, <1>3, UpdateStep
  <2>4. /\ \A v \in Workers \ {w} : Same(v)
        /\ pc'[w] = "post" /\ op'[w] = op[w]
    BY <1>2, <1>3, GotoStep
  <2> QED BY <1>1, <1>2, <1>3, <2>1, <2>2, <2>3, <2>4
<1> QED BY <1>1, <1>2, <1>3 DEF Submit

LEMMA SubmitIInv ==
  ASSUME IInv, Exclusive, NEW w \in Workers, Submit(w)
  PROVE  IInv'
<1>1. pc[w] = "submit" /\ pc[w] \notin Idle /\ op[w] \in Ops /\ Inv'
  BY SubmitStep
<1> PICK o \in Ops : o = op[w]
  BY <1>1
<1>2. CASE Review(w)
  BY <1>1, <1>2, ReviewIInv
<1>3. CASE /\ o \notin marked /\ sent[o] = 0
           /\ rows[o].rid = NoReq
           /\ marked' = marked \cup {o}
           /\ \A p \in Ops \ {o} : rows'[p] = rows[p]
           /\ rows'[o].status = "SUBMITTING" /\ rows'[o].attempts = 0
           /\ rows'[o].rid = rows[o].rid
           /\ \A v \in Workers \ {w} : Same(v)
           /\ pc'[w] = "post" /\ op'[w] = o
           /\ UNCHANGED <<provider, sent>>
  <2>1. WorkOK(w) /\ RowOK(o) /\ requests' = requests /\ posts' = posts
    BY <1>1, <1>3, AtWork DEF provider
  <2>2. Rivals(o) \cap marked = {}
    BY <1>1, <2>1 DEF WorkOK
  <2>3. ASSUME NEW p \in Ops PROVE RowOK(p)'
    <3>1. CASE p = o
      BY <1>3, <2>1, <3>1, ConstantsAssumption DEF RowOK
    <3>2. CASE p # o
      <4>1. RowOK(p) /\ rows'[p] = rows[p] /\ (p \in marked' <=> p \in marked)
        BY <1>3, <3>2 DEF IInv
      <4> QED BY <1>3, <2>1, <4>1 DEF RowOK
    <3> QED BY <3>1, <3>2
  <2>4. PostsOK'
    BY <1>3, <2>1 DEF IInv, PostsOK
  <2>5. Rivals(o) \cap marked' = {}
    BY <1>3, <2>2, RivalsBoth
  <2>6. ASSUME NEW p \in marked' PROVE Rivals(p) \cap marked' = {}
    <3>1. CASE p = o
      BY <2>5, <3>1
    <3>2. CASE p # o
      <4>1. p \in marked /\ Rivals(p) \cap marked = {} /\ p \in Ops
        BY <1>3, <3>2 DEF IInv, Inv, TypeOK
      <4>2. o \notin Rivals(p)
        BY <2>2, <4>1, RivalsBoth
      <4> QED BY <1>3, <4>1, <4>2
    <3> QED BY <3>1, <3>2
  <2>7. WorkOK(w)'
    BY <1>3, <2>1, <2>5 DEF WorkOK, Active
  <2>8. \A v \in Workers : WorkOK(v)'
    BY <1>1, <1>3, <2>7, Alone
  <2> QED BY <1>1, <2>3, <2>4, <2>6, <2>8 DEF IInv
<1> QED BY <1>2, <1>3, SubmitStep

\* The only POST of an operation.
LEMMA PostIInv ==
  ASSUME IInv, Exclusive, NEW w \in Workers, Post(w)
  PROVE  IInv'
<1> PICK o : o = op[w]
  OBVIOUS
<1> PICK m : m = Message(w)
  OBVIOUS
<1>1. /\ Inv' /\ pc[w] = "post" /\ o \in Ops
      /\ posts' = posts \cup {m}
      /\ \A v \in Workers \ {w} : Same(v)
      /\ pc'[w] = "await" /\ op'[w] = o /\ found'[w] = m
      /\ sent'[o] = sent[o] + 1
      /\ \A p \in Ops \ {o} : sent'[p] = sent[p]
      /\ UNCHANGED <<table, requests, tracking, refused, marked>>
  BY PostStep DEF IInv
<1>2. /\ pc[w] \notin Idle /\ WorkOK(w) /\ RowOK(o)
      /\ UNCHANGED <<rows, requests, marked>>
  BY <1>1, AtWork DEF Idle, table
<1>3. /\ sent[o] = 0 /\ o \in marked /\ rows[o].status = "SUBMITTING"
      /\ rows[o].rid = NoReq
  BY <1>1, <1>2 DEF WorkOK
<1>4. m = First(o) /\ m.by = o /\ sent'[o] = 1
  BY <1>1, <1>3 DEF Message, First, Ref
<1>5. PostsOK'
  <2>1. PostsOK /\ ByHand \notin Ops
    BY ConstantsAssumption DEF IInv
  <2>2. \A r \in posts \cup requests : r.by # o
    BY <1>1, <1>3, <2>1 DEF PostsOK
  <2> QED BY <1>1, <1>4, <2>1, <2>2 DEF PostsOK
<1>6. ASSUME NEW p \in Ops PROVE RowOK(p)'
  <2>1. RowOK(p)
    BY DEF IInv
  <2> QED BY <1>1, <1>2, <1>3, <1>4, <2>1 DEF RowOK
<1>7. WorkOK(w)'
  BY <1>1, <1>2, <1>3, <1>4 DEF WorkOK, Active
<1>8. \A v \in Workers : WorkOK(v)'
  BY <1>1, <1>2, <1>7, Alone
<1>9. \A p \in marked' : Rivals(p) \cap marked' = {}
  BY <1>2 DEF IInv
<1> QED BY <1>1, <1>5, <1>6, <1>8, <1>9 DEF IInv

LEMMA AnsweredIInv ==
  ASSUME IInv, Exclusive, NEW w \in Workers, Answered(w)
  PROVE  IInv'
<1>1. /\ pc[w] = "await" /\ pc[w] \notin Idle
      /\ found[w] \in requests /\ Record(w, found[w])
  BY DEF Answered, At, Idle
<1>2. found[w] = First(op[w])
  BY <1>1, AtWork DEF WorkOK
<1>3. PICK r \in requests : r = found[w]
  BY <1>1
<1>4. r.ref = RefOf[op[w]]
  BY <1>2, <1>3 DEF First
<1> QED BY <1>1, <1>3, <1>4, KnownIInv DEF Record

LEMMA GetRequestIInv ==
  ASSUME IInv, Exclusive, NEW w \in Workers, GetRequest(w)
  PROVE  IInv'
<1>1. /\ pc[w] = "request" /\ pc[w] \notin Idle /\ Inv'
  BY GetRequestInv DEF GetRequest, At, Idle, IInv
<1>2. /\ WorkOK(w) /\ LocalTypes /\ OtherTypes /\ op[w] \in Ops /\ "resolve" \in Pc
  BY <1>1, AtWork DEF Pc
<1>3. PICK r \in requests : r = found[w] /\ r.ref = RefOf[op[w]]
  BY <1>1, <1>2 DEF WorkOK
<1>4. CASE Record(w, r)
  BY <1>1, <1>3, <1>4, KnownIInv DEF Record
<1>5. CASE ~IsShipment(w) /\ Read(w, r, "resolve") /\ Reading
  <2>1. r \in Request
    BY <1>2 DEF OtherTypes
  <2>2. /\ \A v \in Workers \ {w} : Same(v)
        /\ pc'[w] = "resolve" /\ op'[w] = op[w] /\ found'[w] = r
    BY <1>2, <1>5, <2>1, ReadStep
  <2>3. rows[op[w]].rid = r
    BY <1>1, <1>2, <1>3, <1>5 DEF WorkOK, IsShipment
  <2>4. UNCHANGED rows
    BY <1>5 DEF Reading, table
  <2>5. WorkOK(w)'
    BY <1>1, <1>2, <2>2, <2>3, <2>4 DEF WorkOK
  <2> QED BY <1>1, <1>5, <2>2, <2>5, MoveIInv
<1> QED BY <1>3, <1>4, <1>5 DEF GetRequest

LEMMA ResolveRequestIInv ==
  ASSUME IInv, Exclusive, NEW w \in Workers, ResolveRequest(w)
  PROVE  IInv'
<1>1. /\ pc[w] = "resolve" /\ pc[w] \notin Idle /\ Inv'
  BY ResolveRequestInv DEF ResolveRequest, At, Idle, IInv
<1>2. /\ WorkOK(w) /\ HandOK(w) /\ LocalTypes /\ op[w] \in Ops /\ "discover" \in Pc
  BY <1>1, AtWork DEF Pc
<1>3. rows[op[w]].rid = found[w] /\ found[w] # NoReq
  BY <1>1, <1>2 DEF WorkOK, HandOK
<1>4. PICK st \in {"PENDING", "FAILED"} :
        st = IF state[w] = "failed" THEN "FAILED" ELSE "PENDING"
  OBVIOUS
<1>5. CASE Ended(w, st)
  BY <1>1, <1>3, <1>5, EndedIInv
<1>6. CASE Aim(w, ShipmentOf[found[w].ref], "discover") /\ Reading
  <2>1. PICK r \in Request : r = found[w]
    BY <1>2, <1>3 DEF LocalTypes
  <2>2. ShipmentOf[r.ref] \in Shipments
    BY ConstantsAssumption DEF Request
  <2>3. /\ \A v \in Workers \ {w} : Same(v)
        /\ pc'[w] = "discover" /\ op'[w] = op[w]
    BY <1>2, <1>6, <2>1, <2>2, AimStep
  <2>4. UNCHANGED rows
    BY <1>6 DEF Reading, table
  <2>5. WorkOK(w)'
    BY <1>1, <1>2, <1>3, <2>3, <2>4 DEF WorkOK
  <2> QED BY <1>1, <1>6, <2>3, <2>5, MoveIInv
<1> QED BY <1>4, <1>5, <1>6 DEF ResolveRequest, Ended

LEMMA DiscoverIInv ==
  ASSUME IInv, Exclusive, NEW w \in Workers, Discover(w)
  PROVE  IInv'
<1>1. /\ pc[w] = "discover" /\ pc[w] \notin Idle /\ Inv'
  BY DiscoverInv DEF Discover, At, Idle, IInv
<1>2. /\ WorkOK(w) /\ LocalTypes /\ op[w] \in Ops /\ "map" \in Pc /\ "close" \in Pc
  BY <1>1, AtWork DEF Pc
<1>3. \/ Review(w)
      \/ \E to \in {"map", "close"} : Goto(w, to) /\ Reading
      \/ ~IsShipment(w) /\ Ended(w, "PENDING")
  BY DEF Discover, Ended
<1>4. CASE Review(w)
  BY <1>1, <1>4, ReviewIInv
<1>5. ASSUME NEW to \in {"map", "close"}, Goto(w, to), Reading PROVE IInv'
  <2>1. /\ \A v \in Workers \ {w} : Same(v)
        /\ pc'[w] = to /\ op'[w] = op[w]
    BY <1>2, <1>5, GotoStep
  <2>2. UNCHANGED rows
    BY <1>5 DEF Reading, table
  <2>3. WorkOK(w)'
    BY <1>1, <1>2, <2>1, <2>2 DEF WorkOK
  <2> QED BY <1>1, <1>5, <2>1, <2>3, MoveIInv
<1>6. CASE ~IsShipment(w) /\ Ended(w, "PENDING")
  <2>1. rows[op[w]].rid # NoReq
    BY <1>1, <1>2, <1>6 DEF WorkOK, IsShipment, Ops
  <2> QED BY <1>1, <1>6, <2>1, EndedIInv
<1> QED BY <1>3, <1>4, <1>5, <1>6

LEMMA LinkContainerIInv ==
  ASSUME IInv, Exclusive, NEW w \in Workers, LinkContainer(w)
  PROVE  IInv'
<1>1. /\ pc[w] = "map" /\ pc[w] \notin Idle /\ Inv'
  BY LinkContainerInv DEF LinkContainer, At, Idle, IInv
<1>2. WorkOK(w) /\ LocalTypes /\ "close" \in Pc
  BY <1>1, AtWork DEF Pc
<1>3. CASE Review(w)
  BY <1>1, <1>3, ReviewIInv
<1>4. CASE Goto(w, "close") /\ UNCHANGED <<rows, lock, provider, history, crashes>>
  <2>1. /\ \A v \in Workers \ {w} : Same(v)
        /\ pc'[w] = "close" /\ op'[w] = op[w]
    BY <1>2, <1>4, GotoStep
  <2>2. WorkOK(w)'
    BY <1>1, <1>2, <1>4, <2>1 DEF WorkOK
  <2> QED BY <1>1, <1>4, <2>1, <2>2, QuietIInv
<1> QED BY <1>3, <1>4 DEF LinkContainer

LEMMA CloseIInv ==
  ASSUME IInv, Exclusive, NEW w \in Workers, Close(w)
  PROVE  IInv'
<1>1. /\ pc[w] = "close" /\ pc[w] \notin Idle /\ Inv'
  BY CloseInv DEF Close, At, Idle, IInv
<1>2. /\ HandOK(w) /\ TableTypes /\ LocalTypes /\ op[w] \in Ops /\ RowOK(op[w])
      /\ "LINKED" \in Status
  BY <1>1, AtWork DEF Status
<1>3. CASE Review(w)
  BY <1>1, <1>3, ReviewIInv
<1>4. CASE Update(w, "LINKED", NoReq, target[w]) /\ Leave(w) /\ Database
  <2>1. PICK s \in Shipments : s = target[w] /\ s # NoShip
    BY <1>1, <1>2 DEF LocalTypes, HandOK
  <2>2. /\ \A p \in Ops \ {op[w]} : rows'[p] = rows[p]
        /\ rows'[op[w]].status = "LINKED" /\ rows'[op[w]].attempts = 0
        /\ rows'[op[w]].ship = s /\ rows'[op[w]].rid = rows[op[w]].rid
    BY <1>2, <1>4, <2>1, UpdateStep
  <2>3. \A v \in Workers \ {w} : Same(v)
    BY <1>2, <1>4, LeaveStep
  <2>4. UNCHANGED <<provider, history>>
    BY <1>4 DEF Database
  <2>5. ASSUME NEW p \in {op[w]} PROVE RowOK(p)'
    BY <1>2, <2>1, <2>2, <2>4, ConstantsAssumption DEF RowOK, provider, history
  <2>6. WorkOK(w)'
    <3>1. pc'[w] \in Idle
      BY <1>2, <1>4, LeaveStep DEF Idle
    <3> QED BY <3>1 DEF WorkOK
  <2> QED BY <1>1, <2>2, <2>3, <2>4, <2>5, <2>6, OwnIInv
<1> QED BY <1>3, <1>4 DEF Close

LEMMA RequestFailsIInv ==
  ASSUME IInv, Exclusive, NEW w \in Workers, RequestFails(w)
  PROVE  IInv'
<1>1. pc[w] \notin Idle /\ Defer(w)
  BY DEF RequestFails, Idle
<1> QED BY <1>1, DeferIInv

LEMMA CrashIInv ==
  ASSUME IInv, NEW w \in Workers, Crash(w) \/ DropConnection(w)
  PROVE  IInv'
<1>1. CASE Crash(w)
  <2>1. /\ Inv' /\ \A v \in Workers \ {w} : Same(v)
        /\ pc'[w] = "off" /\ UNCHANGED <<rows, provider, history>>
    BY <1>1, CrashStep DEF IInv, table
  <2>2. WorkOK(w)'
    BY <2>1 DEF WorkOK, Idle
  <2> QED BY <2>1, <2>2, QuietIInv
<1>2. CASE DropConnection(w)
  <2>1. Inv' /\ \A v \in Workers : Same(v)
    BY <1>2, DropInv DEF IInv
  <2>2. UNCHANGED <<rows, provider, history>>
    BY <1>2 DEF DropConnection, table
  <2>3. NoOp \notin Workers
    BY ConstantsAssumption
  <2> QED BY <2>1, <2>2, <2>3, QuietIInv
<1> QED BY <1>1, <1>2

\* Odoo asks only for what is not there, and no worker is at that.
LEMMA AskedIInv ==
  ASSUME IInv, NEW o \in Ops, Asked(o)
  PROVE  IInv'
<1>1. /\ Inv' /\ \A v \in Workers : Same(v)
      /\ \A p \in Ops \ {o} : rows'[p] = rows[p]
      /\ rows'[o].status = "QUEUED" /\ rows'[o].rid = rows[o].rid
      /\ rows[o].status = "absent" /\ rows'[o].attempts = rows[o].attempts
      /\ UNCHANGED <<provider, history>>
  BY AskedStep DEF IInv
<1>2. UNCHANGED <<requests, posts, sent, marked>>
  BY <1>1 DEF provider, history
<1>3. ASSUME NEW p \in Ops PROVE RowOK(p)'
  <2>1. RowOK(p)
    BY DEF IInv
  <2>2. CASE p = o
    BY <1>1, <1>2, <2>1, <2>2 DEF RowOK
  <2>3. CASE p # o
    BY <1>1, <1>2, <2>1, <2>3 DEF RowOK
  <2> QED BY <2>2, <2>3
<1>4. PostsOK'
  BY <1>2 DEF IInv, PostsOK
<1>5. ASSUME NEW v \in Workers PROVE WorkOK(v)'
  <2>1. WorkOK(v) /\ Same(v)
    BY <1>1 DEF IInv
  <2>2. pc[v] \notin Idle => op[v] \in Ops /\ op[v] # o
    BY <1>1, AtWork DEF Active
  <2>3. \A p \in Ops : rows'[p].status \in Submitted => rows[p].status \in Submitted
    BY <1>1 DEF Submitted
  <2>4. requests \subseteq requests'
    BY <1>2
  <2> QED BY <1>1, <2>1, <2>2, <2>3, <2>4, WorkKept
<1>6. \A p \in marked' : Rivals(p) \cap marked' = {}
  BY <1>2 DEF IInv
<1> QED BY <1>1, <1>3, <1>4, <1>5, <1>6 DEF IInv

LEMMA MapByHandIInv ==
  ASSUME IInv, NEW s \in Shipments, NEW o \in ContainerOps, MapByHand(s, o)
  PROVE  IInv'
<1>1. NoOp \notin Workers
  BY ConstantsAssumption
<1> QED BY <1>1, MapByHandStep, QuietIInv DEF IInv

LEMMA Terminal49IInv ==
  ASSUME IInv, Terminal49
  PROVE  IInv'
<1>1. /\ Inv' /\ \A v \in Workers : Same(v)
      /\ UNCHANGED <<table, history>> /\ requests \subseteq requests'
  BY Terminal49Inv DEF IInv
<1>2. UNCHANGED <<rows, sent, marked>>
  BY <1>1 DEF table, history
<1>3. \A p \in Ops : RowOK(p)'
  BY <1>1, <1>2 DEF IInv, RowOK
<1>4. ASSUME NEW v \in Workers PROVE WorkOK(v)'
  <2>1. WorkOK(v) /\ Same(v)
    BY <1>1 DEF IInv
  <2> QED BY <1>1, <1>2, <2>1, WorkKept
<1>5. \A p \in marked' : Rivals(p) \cap marked' = {}
  BY <1>2 DEF IInv
<1>6. PostsOK'
  <2>1. PostsOK /\ ByHand \notin Ops
    BY ConstantsAssumption DEF IInv
  <2>2. CASE \E m \in posts : Arrive(m) \/ Vanish(m)
    BY <1>2, <2>1, <2>2 DEF Arrive, Vanish, PostsOK
  <2>3. CASE \E ref \in HandRefs : RequestByHand(ref)
    <3>1. PICK r : r.by = ByHand /\ requests' = {r} /\ posts' = posts
      BY <2>3 DEF RequestByHand
    <3> QED BY <1>2, <2>1, <3>1 DEF PostsOK
  <2>4. CASE \/ \E ref \in References : Resolve(ref)
             \/ \E s \in Shipments : Load(s) \/ Stop(s)
    <3>1. UNCHANGED <<requests, posts>>
      BY <2>4 DEF Resolve, Load, Stop, Develop
    <3> QED BY <1>2, <2>1, <3>1 DEF PostsOK
  <2> QED BY <2>2, <2>3, <2>4 DEF Terminal49
<1> QED BY <1>1, <1>3, <1>4, <1>5, <1>6 DEF IInv

LEMMA InitIInv == Init => IInv
<1> SUFFICES ASSUME Init PROVE IInv
  OBVIOUS
<1>1. Inv
  BY InitInv
<1>2. PostsOK /\ \A o \in marked : Rivals(o) \cap marked = {}
  BY DEF Init, PostsOK
<1>3. \A o \in Ops : RowOK(o)
  BY ConstantsAssumption DEF Init, RowOK, NoRow
<1>4. \A w \in Workers : WorkOK(w)
  BY DEF Init, WorkOK, Idle
<1> QED BY <1>1, <1>2, <1>3, <1>4 DEF IInv

LEMMA WorkIInv ==
  ASSUME IInv, Exclusive, NEW w \in Workers, Work(w)
  PROVE  IInv'
BY LegacyRequestIInv, ListContainersIInv, SearchIInv, ListShipmentsIInv,
   SubmitIInv, PostIInv, AnsweredIInv, GetRequestIInv, ResolveRequestIInv,
   DiscoverIInv, LinkContainerIInv, CloseIInv, RequestFailsIInv, StartIInv DEF Work

LEMMA StepIInv ==
  ASSUME IInv, Exclusive, [Next]_vars
  PROVE  IInv'
<1>1. CASE UNCHANGED vars
  <2>1. UNCHANGED <<rows, provider, history, locals>>
    BY <1>1 DEF vars, table
  <2>2. Inv' /\ NoOp \notin Workers
    BY <1>1, StepInv, ConstantsAssumption DEF IInv
  <2>3. \A v \in Workers : Same(v)
    BY <2>1 DEF locals, Same
  <2> QED BY <2>1, <2>2, <2>3, QuietIInv
<1>2. CASE Next
  <2>1. CASE \E o \in Ops : Asked(o)
    BY <2>1, AskedIInv
  <2>2. CASE \E s \in Shipments, o \in ContainerOps : MapByHand(s, o)
    BY <2>2, MapByHandIInv
  <2>3. CASE Terminal49
    BY <2>3, Terminal49IInv
  <2>4. ASSUME NEW w \in Workers,
               \/ StartWorker(w) \/ NothingDue(w) \/ Work(w)
               \/ Crash(w) \/ DropConnection(w)
               \/ \E o \in Ops : NextOp(w, o)
        PROVE  IInv'
    BY <2>4, StartIInv, WorkIInv, CrashIInv, NextOpIInv
  <2> QED BY <1>2, <2>1, <2>2, <2>3, <2>4, Steps
<1> QED BY <1>1, <1>2

\* Where one worker at a time is at it, at every step between the commit of
\* SUBMITTING, the POST, its answer and the commit of the request's id
\* (Initiator, ShipmentWorker), through crashes, lost answers and late POSTs:
\* a row tells what may have been sent, and what a worker has found out about
\* its operation is still so.
THEOREM Invariance == Spec /\ []Exclusive => []IInv
<1>1. IInv /\ Exclusive /\ [Next]_vars => IInv'
  BY StepIInv
<1> QED BY InitIInv, <1>1, PTL DEF Spec

\* What is asked for both as a shipment (POST /shipments) and as a container
\* (POST /initiations) is submitted to Terminal49 once at most, in whatever order
\* the two are asked for, fail, time out and are resumed.
THEOREM SubmittedForOne == Spec /\ []Exclusive => []ReferenceSubmittedOnce
<1>1. IInv => ReferenceSubmittedOnce
  <2> SUFFICES ASSUME IInv, NEW s \in ShipmentOps, NEW c \in ContainerOps,
                      RefOf[s] = RefOf[c]
               PROVE  sent[s] + sent[c] <= 1
    BY DEF ReferenceSubmittedOnce
  <2>1. s \in Ops /\ c \in Ops /\ c \in Rivals(s)
    BY DEF Ops, Rivals
  <2>2. ~(s \in marked /\ c \in marked)
    BY <2>1 DEF IInv
  <2>3. RowOK(s) /\ RowOK(c)
    BY <2>1 DEF IInv
  <2>4. sent[s] \in Nat /\ sent[c] \in Nat
    BY <2>1, ConstantsAssumption DEF IInv, Inv, TypeOK
  <2> QED BY <2>2, <2>3, <2>4 DEF RowOK
<1> QED BY Invariance, <1>1, PTL

\* Nor is one operation sent twice, as the comment at initiation.py:126 has it.
THEOREM SentOnce == Spec /\ []Exclusive => []SubmittedOnce
<1>1. IInv => SubmittedOnce
  BY DEF IInv, RowOK, SubmittedOnce
<1> QED BY Invariance, <1>1, PTL

-----------------------------------------------------------------------------
(* The lock *)

\* The worker that runs holds the lock.
LockOK == \A w \in Workers : pc[w] # "off" <=> lock = w

LEMMA StaysOn ==
  ASSUME NEW w \in Workers, NothingDue(w) \/ (Work(w) /\ ~Feed(w)) \/ \E o \in Ops : NextOp(w, o)
  PROVE  /\ pc[w] # "off" /\ lock' = lock
         /\ \E x \in Pc \ {"off"} : pc' = [pc EXCEPT ![w] = x]
<1>1. ASSUME \/ \E to \in Pc \ {"off"} : Goto(w, to)
             \/ \E to \in Pc \ {"off"} : \E r : Follow(w, r, to) \/ Read(w, r, to)
             \/ \E to \in Pc \ {"off"} : \E s : Aim(w, s, to)
             \/ Leave(w)
      PROVE  \E x \in Pc \ {"off"} : pc' = [pc EXCEPT ![w] = x]
  BY <1>1 DEF Goto, Follow, Read, Aim, Leave, Pc
<1>2. CASE NothingDue(w)
  BY <1>1, <1>2 DEF NothingDue, At, Reading, Pc
<1>3. CASE \E o \in Ops : NextOp(w, o)
  BY <1>3 DEF NextOp, At, Reading, Pc
<1>4. CASE LegacyRequest(w)
  BY <1>1, <1>4 DEF LegacyRequest, Review, At, Reading, Database, Pc
<1>5. CASE ListContainers(w)
  BY <1>1, <1>5 DEF ListContainers, Review, At, Reading, Database, Pc
<1>6. CASE Search(w)
  BY <1>1, <1>6 DEF Search, Record, Review, At, Reading, Database, Pc
<1>7. CASE ListShipments(w)
  BY <1>1, <1>7 DEF ListShipments, Review, At, Reading, Database, Pc
<1>8. CASE Submit(w)
  BY <1>1, <1>8 DEF Submit, Review, At, Database, Pc
<1>9. CASE Post(w)
  BY <1>1, <1>9 DEF Post, At, Pc
<1>10. CASE Answered(w) \/ GetRequest(w)
  BY <1>1, <1>10 DEF Answered, GetRequest, Record, At, Reading, Database, Pc
<1>11. CASE ResolveRequest(w)
  BY <1>1, <1>11 DEF ResolveRequest, At, Reading, Database, Pc
<1>12. CASE Discover(w)
  BY <1>1, <1>12 DEF Discover, Review, At, Reading, Database, Pc
<1>13. CASE LinkContainer(w) \/ Close(w) \/ RequestFails(w)
  BY <1>1, <1>13 DEF LinkContainer, Close, RequestFails, Defer, Review, At, Database, Pc
<1> QED BY <1>2, <1>3, <1>4, <1>5, <1>6, <1>7, <1>8, <1>9, <1>10, <1>11, <1>12,
           <1>13 DEF Work

LEMMA LockStep ==
  ASSUME Inv, LockOK, [Next /\ KeepsLock]_vars
  PROVE  LockOK'
<1>1. pc \in [Workers -> Pc] /\ NoLock \notin Workers
  BY ConstantsAssumption DEF Inv, TypeOK, NoLock
<1>2. CASE UNCHANGED <<pc, lock>>
  BY <1>2 DEF LockOK
<1>3. CASE UNCHANGED vars
  BY <1>2, <1>3 DEF vars, locals
<1>4. ASSUME NEW w \in Workers, StartWorker(w) PROVE LockOK'
  BY <1>1, <1>4 DEF StartWorker, At, Goto, LockOK
<1>5. ASSUME NEW w \in Workers, Crash(w) PROVE LockOK'
  BY <1>1, <1>5 DEF Crash, At, LockOK
<1>6. ASSUME NEW w \in Workers, Feed(w) PROVE LockOK'
  BY <1>1, <1>6 DEF Feed, At, Goto, Reading, LockOK
<1>7. ASSUME NEW w \in Workers,
             NothingDue(w) \/ (Work(w) /\ ~Feed(w)) \/ \E o \in Ops : NextOp(w, o)
      PROVE  LockOK'
  <2>1. PICK x \in Pc \ {"off"} : pc' = [pc EXCEPT ![w] = x]
    BY <1>7, StaysOn
  <2>2. pc[w] # "off" /\ lock' = lock
    BY <1>7, StaysOn
  <2> QED BY <1>1, <2>1, <2>2 DEF LockOK
<1>8. CASE \/ \E o \in Ops : Asked(o)
           \/ \E s \in Shipments, o \in ContainerOps : MapByHand(s, o)
           \/ Terminal49
  <2>1. UNCHANGED <<lock, locals>>
    BY <1>8 DEF Asked, MapByHand, Terminal49, Arrive, Vanish, Resolve, RequestByHand,
                Load, Stop, Develop
  <2> QED BY <1>2, <2>1 DEF locals
<1> QED BY <1>3, <1>4, <1>5, <1>6, <1>7, <1>8, Steps DEF KeepsLock

\* While no connection breaks under its worker, the advisory lock (worker.py)
\* lets one worker at a time be at it, whichever ends, crashes and starts.
THEOREM LockExcludes == LockedSpec => []Exclusive
<1>1. Init => Inv /\ LockOK
  <2>1. Init => LockOK
    BY ConstantsAssumption DEF Init, LockOK, NoLock
  <2> QED BY <2>1, InitInv
<1>2. Inv /\ LockOK /\ [Next /\ KeepsLock]_vars => (Inv /\ LockOK)'
  <2>1. ASSUME Inv, [Next /\ KeepsLock]_vars PROVE Inv'
    BY <2>1, StepInv
  <2> QED BY <2>1, LockStep
<1>3. LockOK => Exclusive
  BY DEF LockOK, Exclusive
<1> QED BY <1>1, <1>2, <1>3, PTL DEF LockedSpec

\* So the lock, while it is held, is what keeps a reference from being sent twice.
COROLLARY LockedOnce == LockedSpec => [](ReferenceSubmittedOnce /\ SubmittedOnce)
<1>1. LockedSpec => Spec
  <2>1. [Next /\ KeepsLock]_vars => [Next]_vars
    OBVIOUS
  <2> QED BY <2>1, PTL DEF LockedSpec, Spec
<1> QED BY <1>1, LockExcludes, SubmittedForOne, SentOnce, PTL

-----------------------------------------------------------------------------
(* What a worker's steps do to the rows *)

\* Only the row of w's operation changes; the request it knows stays.
OwnRow(w) ==
  /\ pc[w] \notin Idle
  /\ UNCHANGED <<provider, history>>
  /\ \A p \in Ops \ {op[w]} : rows'[p] = rows[p]
  /\ rows[op[w]].rid \in {NoReq, rows'[op[w]].rid}

LEMMA UpdateOwn ==
  ASSUME IInv, NEW w \in Workers, pc[w] \notin Idle,
         NEW st \in Status, NEW r \in Request \cup {NoReq},
         NEW s \in Shipments \cup {NoShip}, Update(w, st, r, s), Database,
         r = NoReq \/ rows[op[w]].rid \in {NoReq, r}
  PROVE  OwnRow(w)
<1>1. TableTypes /\ op[w] \in Ops
  BY AtWork
<1>2. /\ \A p \in Ops \ {op[w]} : rows'[p] = rows[p]
      /\ rows'[op[w]].rid = IF r = NoReq THEN rows[op[w]].rid ELSE r
  BY <1>1, UpdateStep
<1>3. UNCHANGED <<provider, history>>
  BY DEF Database
<1>4. rows[op[w]].rid \in {NoReq, rows'[op[w]].rid}
  BY <1>2
<1> QED BY <1>2, <1>3, <1>4 DEF OwnRow

LEMMA EndedOwn ==
  ASSUME IInv, NEW w \in Workers, pc[w] \notin Idle,
         NEW st \in {"PENDING", "FAILED", "NEEDS_REVIEW"}, Ended(w, st)
  PROVE  OwnRow(w)
<1>1. st \in Status /\ Update(w, st, NoReq, NoShip) /\ Database
  BY DEF Ended, Status, Active
<1> QED BY <1>1, UpdateOwn

LEMMA ReviewOwn ==
  ASSUME IInv, NEW w \in Workers, pc[w] \notin Idle, Review(w)
  PROVE  OwnRow(w)
BY EndedOwn DEF Review, Ended

LEMMA KnownOwn ==
  ASSUME IInv, NEW w \in Workers, pc[w] \notin Idle, NEW r \in Request,
         Update(w, "PENDING", r, NoShip), Database,
         rows[op[w]].rid \in {NoReq, r}
  PROVE  OwnRow(w)
<1>1. "PENDING" \in Status
  BY DEF Status, Active
<1> QED BY <1>1, UpdateOwn

LEMMA WorkMoves ==
  ASSUME IInv, NEW w \in Workers, Work(w)
  PROVE  \/ UNCHANGED <<rows, provider, history>>
         \/ OwnRow(w) \/ Submit(w) \/ Post(w)
<1>1. ASSUME pc[w] \notin Idle
      PROVE  /\ WorkOK(w) /\ LocalTypes /\ OtherTypes /\ op[w] \in Ops /\ TableTypes
             /\ HandOK(w)
  BY <1>1, AtWork
<1>2. CASE Feed(w)
  BY <1>2 DEF Feed, Reading, table
<1>3. CASE LegacyRequest(w)
  <2>1. pc[w] \notin Idle
    BY <1>3 DEF LegacyRequest, At, Idle
  <2> QED BY <1>3, <2>1, ReviewOwn DEF LegacyRequest, Reading, table
<1>4. CASE ListContainers(w)
  <2>1. pc[w] \notin Idle
    BY <1>4 DEF ListContainers, At, Idle
  <2> QED BY <1>4, <2>1, ReviewOwn DEF ListContainers, Reading, table
<1>5. CASE Search(w)
  <2>1. pc[w] = "search" /\ pc[w] \notin Idle
    BY <1>5 DEF Search, At, Idle
  <2>2. rows[op[w]].rid = NoReq
    BY <1>1, <2>1 DEF WorkOK
  <2>3. \/ Review(w) \/ Reading
        \/ \E r : Update(w, "PENDING", r, NoShip) /\ Database
    BY <1>5 DEF Search, Record
  <2>4. ASSUME NEW r, Update(w, "PENDING", r, NoShip), Database
        PROVE  OwnRow(w)
    <3> DEFINE x == [status |-> "PENDING", attempts |-> 0,
                     rid |-> IF r = NoReq THEN rows[op[w]].rid ELSE r,
                     ship |-> IF NoShip = NoShip THEN rows[op[w]].ship ELSE NoShip]
    <3>1. rows' = [rows EXCEPT ![op[w]] = x]
      BY <2>4 DEF Update
    <3> HIDE DEF x
    <3>2. \A p \in Ops \ {op[w]} : rows'[p] = rows[p]
      BY <1>1, <2>1, <3>1 DEF TableTypes
    <3> QED BY <2>1, <2>2, <2>4, <3>2 DEF OwnRow, Database
  <2> QED BY <2>1, <2>3, <2>4, ReviewOwn DEF Reading, table
<1>6. CASE ListShipments(w)
  <2>1. pc[w] \notin Idle
    BY <1>6 DEF ListShipments, At, Idle
  <2> QED BY <1>6, <2>1, ReviewOwn DEF ListShipments, Reading, table
<1>7. CASE Answered(w)
  <2>1. pc[w] = "await" /\ pc[w] \notin Idle /\ found[w] \in requests
    BY <1>7 DEF Answered, At, Idle
  <2>2. rows[op[w]].rid = NoReq
    BY <1>1, <2>1 DEF WorkOK
  <2>3. PICK r \in Request : r = found[w]
    BY <1>1, <2>1 DEF OtherTypes
  <2> QED BY <1>7, <2>1, <2>2, <2>3, KnownOwn DEF Answered, Record
<1>8. CASE GetRequest(w)
  <2>1. pc[w] = "request" /\ pc[w] \notin Idle
    BY <1>8 DEF GetRequest, At, Idle
  <2>2. found[w] \in requests /\ rows[op[w]].rid \in {found[w], NoReq}
    BY <1>1, <2>1 DEF WorkOK
  <2>3. PICK r \in Request : r = found[w]
    BY <1>1, <2>1, <2>2 DEF OtherTypes
  <2> QED BY <1>8, <2>1, <2>2, <2>3, KnownOwn DEF GetRequest, Record, Reading, table
<1>9. CASE ResolveRequest(w)
  <2>1. pc[w] \notin Idle
    BY <1>9 DEF ResolveRequest, At, Idle
  <2>2. PICK st \in {"PENDING", "FAILED"} :
          st = IF state[w] = "failed" THEN "FAILED" ELSE "PENDING"
    OBVIOUS
  <2>3. Ended(w, st) \/ Reading
    BY <1>9, <2>2 DEF ResolveRequest, Ended
  <2> QED BY <2>1, <2>3, EndedOwn DEF Reading, table
<1>10. CASE Discover(w)
  <2>1. pc[w] \notin Idle
    BY <1>10 DEF Discover, At, Idle
  <2>2. Review(w) \/ Reading \/ Ended(w, "PENDING")
    BY <1>10 DEF Discover, Ended
  <2> QED BY <2>1, <2>2, ReviewOwn, EndedOwn DEF Reading, table
<1>11. CASE LinkContainer(w)
  <2>1. pc[w] \notin Idle
    BY <1>11 DEF LinkContainer, At, Idle
  <2> QED BY <1>11, <2>1, ReviewOwn DEF LinkContainer
<1>12. CASE Close(w)
  <2>1. pc[w] \notin Idle /\ "LINKED" \in Status
    BY <1>12 DEF Close, At, Idle, Status
  <2>2. Review(w) \/ (Update(w, "LINKED", NoReq, target[w]) /\ Database)
    BY <1>12 DEF Close
  <2>3. PICK s \in Shipments \cup {NoShip} : s = target[w]
    BY <1>1, <2>1 DEF LocalTypes
  <2> QED BY <2>1, <2>2, <2>3, ReviewOwn, UpdateOwn
<1>13. CASE RequestFails(w)
  <2>1. pc[w] \notin Idle /\ Defer(w) /\ Database
    BY <1>13 DEF RequestFails, Defer, Idle
  <2>2. /\ \A p \in Ops \ {op[w]} : rows'[p] = rows[p]
        /\ rows'[op[w]].rid = rows[op[w]].rid
    BY <1>1, <2>1, DeferRow
  <2> QED BY <2>1, <2>2 DEF OwnRow, Database
<1> QED BY <1>2, <1>3, <1>4, <1>5, <1>6, <1>7, <1>8, <1>9, <1>10, <1>11, <1>12,
           <1>13 DEF Work

\* What a person has to review, and what failed, is never taken up again: no
\* step of a worker that read the row before changes it.
THEOREM Settled == Spec /\ []Exclusive => SettledStays
<1>1. ASSUME IInv, [Next]_vars, NEW o \in Ops,
             rows[o].status \in {"FAILED", "NEEDS_REVIEW"}
      PROVE  rows'[o] = rows[o]
  <2>1. CASE UNCHANGED rows
    BY <2>1
  <2>2. CASE UNCHANGED vars
    BY <2>2 DEF vars, table
  <2>3. ASSUME NEW p \in Ops, Asked(p) PROVE rows'[o] = rows[o]
    BY <1>1, <2>3, AskedStep DEF IInv
  <2>4. ASSUME NEW w \in Workers, pc[w] \notin Idle,
               \A p \in Ops \ {op[w]} : rows'[p] = rows[p]
        PROVE  rows'[o] = rows[o]
    <3>1. rows[op[w]].status \in Active \cup {"LINKED"}
      BY <1>1, <2>4, AtWork
    <3>2. o # op[w]
      BY <1>1, <3>1 DEF Active
    <3> QED BY <2>4, <3>2
  <2>5. ASSUME NEW w \in Workers, Work(w) PROVE rows'[o] = rows[o]
    <3>1. CASE OwnRow(w)
      BY <2>4, <3>1 DEF OwnRow
    <3>2. CASE Submit(w)
      <4>1. CASE Review(w)
        BY <1>1, <2>4, <3>2, <4>1, SubmitStep, ReviewOwn DEF OwnRow
      <4>2. CASE ~Review(w)
        BY <1>1, <2>4, <3>2, <4>2, SubmitStep
      <4> QED BY <4>1, <4>2
    <3>3. CASE Post(w)
      BY <2>1, <3>3 DEF Post, table
    <3> QED BY <1>1, <2>1, <2>5, <3>1, <3>2, <3>3, WorkMoves
  <2>6. ASSUME NEW w \in Workers,
               \/ StartWorker(w) \/ NothingDue(w) \/ Crash(w) \/ DropConnection(w)
               \/ \E p \in Ops : NextOp(w, p)
        PROVE  rows'[o] = rows[o]
    BY <2>6 DEF StartWorker, NothingDue, Crash, DropConnection, NextOp, Reading, table
  <2>7. CASE \/ \E s \in Shipments, c \in ContainerOps : MapByHand(s, c)
             \/ Terminal49
    BY <2>7 DEF MapByHand, Terminal49, Arrive, Vanish, Resolve, RequestByHand, Load,
                Stop, Develop, table
  <2> QED BY <1>1, <2>2, <2>3, <2>5, <2>6, <2>7, Steps
<1>2. IInv /\ [Next]_vars =>
        [\A o \in Ops : rows[o].status \in {"FAILED", "NEEDS_REVIEW"}
           => rows'[o] = rows[o]]_vars
  BY <1>1
<1> QED BY Invariance, <1>2, PTL DEF Spec, SettledStays

-----------------------------------------------------------------------------
(* What an operation comes to for Terminal49 *)

Intents == [o \in Ops |-> Intent(o)]
Outcome == [o \in Ops |-> Effects(o)]

\* The intent of operation o moves, and nothing else that the promise sees.
LEMMA MoveMaps ==
  ASSUME NEW o \in Ops, UNCHANGED requests,
         \A p \in Ops \ {o} : Intent(p)' = Intent(p),
         NEW a, NEW b, a = Intent(o), b = Intent(o)',
         \/ a = b
         \/ a = "waiting" /\ b = "posting"
         \/ a = "posting" /\ b = "sent" /\ Effects(o) # {}
         \/ a \in {"posting", "sent"} /\ b = "held"
  PROVE  Promise!Next \/ UNCHANGED Promise!vars
<1>1. UNCHANGED Outcome /\ Outcome[o] = Effects(o)
  BY DEF Outcome, Effects
<1>2. Intents' = [Intents EXCEPT ![o] = b] /\ Intents[o] = a
  <2>1. \A p \in Ops : Intent(p)' = IF p = o THEN b ELSE Intent(p)
    OBVIOUS
  <2>2. Intents' = [p \in Ops |-> Intent(p)']
    BY DEF Intents
  <2> QED BY <2>1, <2>2 DEF Intents
<1>3. CASE a = b
  <2>1. UNCHANGED Intents
    BY <1>2, <1>3 DEF Intents
  <2> QED BY <1>1, <2>1 DEF Promise!vars, Intents, Outcome
<1>4. CASE a # b
  <2>1. Promise!Start(o) \/ Promise!Complete(o) \/ Promise!Hold(o)
    BY <1>1, <1>2, <1>4 DEF Promise!Start, Promise!Complete, Promise!Hold,
       Promise!Move, Intents, Outcome
  <2> QED BY <2>1 DEF Promise!Next
<1> QED BY <1>3, <1>4

LEMMA QuietMaps ==
  ASSUME UNCHANGED <<rows, requests, marked>>
  PROVE  UNCHANGED Promise!vars
BY DEF Promise!vars, Intent, Effects

\* A request that is under way arrives: for an operation that is being posted,
\* or that is left to a person because nobody heard of its request.
LEMMA ArriveMaps ==
  ASSUME IInv, NEW m \in posts, Arrive(m)
  PROVE  Promise!Next
<1> PICK o : o = m.by
  OBVIOUS
<1>1. /\ o \in Ops /\ m = First(o) /\ sent[o] = 1 /\ m \notin requests
      /\ requests' = requests \cup {m}
      /\ UNCHANGED <<rows, marked>>
  BY DEF IInv, PostsOK, Arrive, table, history
<1>2. \A r \in requests : r.by = o => r = m
  BY <1>1, ConstantsAssumption DEF IInv, PostsOK
<1>3. Effects(o) = {} /\ Effects(o)' = {m}
  BY <1>1, <1>2 DEF Effects
<1>4. \A p \in Ops \ {o} : Effects(p)' = Effects(p)
  BY <1>1 DEF Effects
<1>5. Outcome' = [Outcome EXCEPT ![o] = {m}] /\ Outcome[o] = {}
      /\ Outcome'[o] = {m}
  BY <1>1, <1>3, <1>4 DEF Outcome
<1>6. Intent(o) \in {"posting", "held"}
  <2>1. o \in marked /\ (rows[o].rid # NoReq => rows[o].rid \in requests)
    BY <1>1 DEF IInv, RowOK
  <2>2. ~(rows[o].rid # NoReq /\ rows[o].rid.by = o)
    BY <1>1, <1>2, <2>1
  <2> QED BY <2>1, <2>2 DEF Intent
<1>7. UNCHANGED Intents /\ Intents[o] \in {"posting", "held"}
  <2>1. \A p \in Ops : Intent(p)' = Intent(p)
    BY <1>1 DEF Intent
  <2> QED BY <1>1, <1>6, <2>1 DEF Intents
<1>8. Promise!Create(o)
  BY <1>5, <1>7 DEF Promise!Create, Intents, Outcome
<1> QED BY <1>1, <1>8 DEF Promise!Next

\* A worker writes the row of its operation: it learns of its request, or leaves
\* the operation to a person.
LEMMA OwnMaps ==
  ASSUME IInv, IInv', NEW w \in Workers, OwnRow(w)
  PROVE  Promise!Next \/ UNCHANGED Promise!vars
<1> PICK o : o = op[w]
  OBVIOUS
<1>1. /\ o \in Ops /\ rows[o].status \in Active \cup {"LINKED"}
      /\ UNCHANGED <<requests, marked>>
      /\ \A p \in Ops \ {o} : rows'[p] = rows[p]
      /\ rows[o].rid \in {NoReq, rows'[o].rid}
  BY AtWork DEF OwnRow, provider, history
<1>2. \A p \in Ops \ {o} : Intent(p)' = Intent(p)
  BY <1>1 DEF Intent
<1>3. rows'[o].rid # NoReq => rows'[o].rid \in requests
  BY <1>1 DEF IInv, RowOK
<1>4. rows'[o].rid # NoReq /\ rows'[o].rid.by = o => Effects(o) # {}
  BY <1>3 DEF Effects
<1>5. rows[o].status # "NEEDS_REVIEW"
  BY <1>1 DEF Active
<1>6. \/ Intent(o)' = Intent(o)
      \/ Intent(o) = "posting" /\ Intent(o)' = "sent" /\ Effects(o) # {}
      \/ Intent(o) \in {"posting", "sent"} /\ Intent(o)' = "held"
  BY <1>1, <1>4, <1>5 DEF Intent
<1> QED BY <1>1, <1>2, <1>6, MoveMaps

\* The commit of SUBMITTING is the start.
LEMMA SubmitMaps ==
  ASSUME IInv, IInv', NEW w \in Workers, Submit(w)
  PROVE  Promise!Next \/ UNCHANGED Promise!vars
<1> PICK o : o = op[w]
  OBVIOUS
<1>1. CASE Review(w)
  BY <1>1, SubmitStep, ReviewOwn, OwnMaps
<1>2. CASE ~Review(w)
  <2>1. /\ o \in Ops /\ o \notin marked /\ rows[o].rid = NoReq
        /\ marked' = marked \cup {o}
        /\ \A p \in Ops \ {o} : rows'[p] = rows[p]
        /\ rows'[o].status = "SUBMITTING" /\ rows'[o].rid = rows[o].rid
        /\ UNCHANGED provider
    BY <1>2, SubmitStep
  <2>2. \A p \in Ops \ {o} : Intent(p)' = Intent(p)
    BY <2>1 DEF Intent
  <2>3. Intent(o) = "waiting" /\ Intent(o)' = "posting" /\ UNCHANGED requests
    BY <2>1 DEF Intent, provider
  <2> QED BY <2>1, <2>2, <2>3, MoveMaps
<1> QED BY <1>1, <1>2

\* Requests that Odoo has nothing to do with are nobody's.
LEMMA Terminal49Maps ==
  ASSUME IInv, Terminal49
  PROVE  Promise!Next \/ UNCHANGED Promise!vars
<1>1. UNCHANGED <<rows, marked>>
  BY Terminal49Inv DEF IInv, table, history
<1>2. CASE \E m \in posts : Arrive(m)
  BY <1>2, ArriveMaps
<1>3. CASE \E ref \in HandRefs : RequestByHand(ref)
  <2>1. PICK ref \in HandRefs :
          requests = {} /\ requests' = {[ref |-> ref, by |-> ByHand, nth |-> 1]}
    BY <1>3 DEF RequestByHand
  <2>2. \A o \in Ops : Effects(o)' = Effects(o)
    BY <2>1, ConstantsAssumption DEF Effects
  <2>3. \A o \in Ops : Intent(o)' = Intent(o)
    BY <1>1 DEF Intent
  <2> QED BY <2>2, <2>3 DEF Promise!vars
<1>4. CASE UNCHANGED requests
  BY <1>1, <1>4, QuietMaps
<1> QED BY <1>2, <1>3, <1>4 DEF Terminal49, Vanish, Resolve, Load, Stop, Develop

\* The operations implement the promise of a POST that cannot be taken back: the
\* intent is committed before the request leaves (initiation.py:126), Terminal49
\* is asked once at most, a request is known only if it is there, and what is
\* left to a person is never sent again.
THEOREM Refinement == Spec /\ []Exclusive => PostSpec
<1>1. Init => Promise!Init
  <2> SUFFICES ASSUME Init PROVE Promise!Init
    OBVIOUS
  <2>1. \A o \in Ops : Intent(o) = "waiting" /\ Effects(o) = {}
    BY DEF Init, Intent, Effects
  <2> QED BY <2>1 DEF Promise!Init
<1>2. IInv /\ Exclusive /\ [Next]_vars => [Promise!Next]_(Promise!vars)
  <2> SUFFICES ASSUME IInv, Exclusive, [Next]_vars
               PROVE  Promise!Next \/ UNCHANGED Promise!vars
    OBVIOUS
  <2>1. IInv'
    BY StepIInv
  <2>2. CASE UNCHANGED vars
    BY <2>2, QuietMaps DEF vars, table, provider, history
  <2>3. ASSUME NEW o \in Ops, Asked(o)
        PROVE  Promise!Next \/ UNCHANGED Promise!vars
    <3>1. /\ \A p \in Ops \ {o} : rows'[p] = rows[p]
          /\ rows[o].status = "absent" /\ UNCHANGED <<requests, marked>>
      BY <2>3, AskedStep DEF IInv, provider, history
    <3>2. o \notin marked
      BY <3>1 DEF IInv, RowOK
    <3>3. \A p \in Ops : Intent(p)' = Intent(p) /\ Effects(p)' = Effects(p)
      BY <3>1, <3>2 DEF Intent, Effects
    <3> QED BY <3>3 DEF Promise!vars
  <2>4. CASE \E s \in Shipments, o \in ContainerOps : MapByHand(s, o)
    BY <2>4, QuietMaps DEF MapByHand, provider, history
  <2>5. ASSUME NEW w \in Workers, Work(w)
        PROVE  Promise!Next \/ UNCHANGED Promise!vars
    <3>1. CASE UNCHANGED <<rows, provider, history>>
      BY <3>1, QuietMaps DEF provider, history
    <3>2. CASE OwnRow(w)
      BY <2>1, <3>2, OwnMaps
    <3>3. CASE Submit(w)
      BY <2>1, <3>3, SubmitMaps
    <3>4. CASE Post(w)
      BY <3>4, QuietMaps DEF Post, table
    <3> QED BY <2>5, <3>1, <3>2, <3>3, <3>4, WorkMoves
  <2>6. ASSUME NEW w \in Workers,
               \/ StartWorker(w) \/ NothingDue(w) \/ Crash(w) \/ DropConnection(w)
               \/ \E p \in Ops : NextOp(w, p)
        PROVE  Promise!Next \/ UNCHANGED Promise!vars
    BY <2>6, QuietMaps DEF StartWorker, NothingDue, Crash, DropConnection, NextOp,
       Reading, table, provider, history
  <2> QED BY <2>2, <2>3, <2>4, <2>5, <2>6, Terminal49Maps, Steps
<1> QED BY <1>1, <1>2, Invariance, PTL DEF Spec, PostSpec, Promise!Spec
=============================================================================
