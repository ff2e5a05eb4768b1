--------------------------- MODULE TrackingRequests ---------------------------
(***************************************************************************)
(* The Terminal49 connector's tracking operations.  Odoo asks, through the *)
(* API, that a container or a whole shipment be tracked; the worker looks  *)
(* whether Terminal49 tracks it already, asks for tracking once if not,    *)
(* follows the request until it names a shipment, and links what it finds. *)
(* A session lock lets one worker at a time do this; the lock lives on a   *)
(* connection the operations do not use, and may be lost before the worker *)
(* notices.  Requests may fail, time out, or reach Terminal49 late.        *)
(*                                                                         *)
(* An operation stands for its Odoo record, which has one operation.       *)
(* Carriers (scac) are left out.                                           *)
(***************************************************************************)
EXTENDS Naturals, FiniteSets

CONSTANTS
  Workers,        \* worker processes
  ContainerOps,   \* operations for a container
  ShipmentOps,    \* operations for a shipment
  References, Numbers, Shipments,
  BillRefs,       \* references that are master bills of lading
  BoxRefs,        \* references of request type "container"
  RefOf,          \* the reference an operation asks to track
  NumberOf,       \* the container an operation is for
  ShipmentOf,     \* the shipment Terminal49 finds for a reference
  Carries,        \* the containers of a shipment
  ReviewAfter,    \* failures in a row that are tolerated (7)
  HandRefs,       \* references somebody may ask for on Terminal49's own site
  MaxAsked,       \* bound: operations Odoo asks for
  MaxPosts,       \* bound: POSTs of one operation
  MaxCrashes,     \* bound: crashes and broken connections
  NoOp, NoShip, NoReq, ByHand

Ops == ContainerOps \cup ShipmentOps

ASSUME ConstantsAssumption ==
  /\ ContainerOps \cap ShipmentOps = {}
  /\ RefOf \in [Ops -> References] /\ NumberOf \in [ContainerOps -> Numbers]
  /\ ShipmentOf \in [References -> Shipments]
  /\ Carries \in [Shipments -> SUBSET Numbers]
  /\ BillRefs \subseteq References /\ BoxRefs \subseteq References \ BillRefs
  /\ \A o \in ShipmentOps : RefOf[o] \notin BoxRefs
  /\ HandRefs \subseteq References /\ MaxAsked \in Nat
  /\ ReviewAfter \in Nat /\ MaxPosts \in Nat \ {0} /\ MaxCrashes \in Nat
  /\ NoOp \notin Ops \cup Workers /\ NoShip \notin Shipments /\ ByHand \notin Ops
  /\ NoReq \notin [ref : References, by : Ops \cup {ByHand}, nth : 1 .. MaxPosts]

VARIABLES
  rows,       \* initiations and shipment_initiations
  mappings,   \* container journeys bound to Odoo containers
  lock,       \* the worker whose session holds the advisory lock
  requests,   \* Terminal49's tracking requests
  tracking,   \* what Terminal49 knows of each shipment
  refused,    \* references it could not track
  posts,      \* POSTs on their way
  sent,       \* history: POSTs each operation has made
  marked,     \* history: operations that were committed SUBMITTING
  pc, op,     \* where a worker is and the operation it has taken
  was,        \* the status of that operation's row as it read it
  found,      \* the tracking request it found or made
  state,      \* the state of that request when it was read
  target,     \* the shipment it is about to link
  crashes

history  == <<sent, marked>>
table    == <<rows, mappings>>
provider == <<requests, tracking, refused, posts>>
locals   == <<pc, op, was, found, state, target>>
vars     == <<table, lock, provider, history, locals, crashes>>

Request == [ref : References, by : Ops \cup {ByHand}, nth : 1 .. MaxPosts]
NoLock  == NoOp
Active  == {"QUEUED", "SUBMITTING", "PENDING"}
Status  == {"absent", "LINKED", "FAILED", "NEEDS_REVIEW"} \cup Active
Row     == [status : Status, rid : Request \cup {NoReq},
            ship : Shipments \cup {NoShip}, attempts : Nat]
Pc      == {"off", "shipments", "containers", "legacy", "list", "search", "bills",
            "submit", "post", "await", "request", "resolve",
            "discover", "map", "close", "feed"}
NoRow   == [status |-> "absent", rid |-> NoReq, ship |-> NoShip, attempts |-> 0]

Init ==
  /\ rows = [o \in Ops |-> NoRow]
  /\ mappings = {}
  /\ lock = NoLock
  /\ requests = {}
  /\ tracking = [s \in Shipments |-> "none"]
  /\ refused = {}
  /\ posts = {}
  /\ sent = [o \in Ops |-> 0]
  /\ marked = {}
  /\ pc = [w \in Workers |-> "off"]
  /\ op = [w \in Workers |-> NoOp]
  /\ was = [w \in Workers |-> "absent"]
  /\ found = [w \in Workers |-> NoReq]
  /\ state = [w \in Workers |-> "open"]
  /\ target = [w \in Workers |-> NoShip]
  /\ crashes = 0

-----------------------------------------------------------------------------
(* Helpers *)

At(w, here) == pc[w] = here

Goto(w, to) ==
  /\ pc' = [pc EXCEPT ![w] = to]
  /\ UNCHANGED <<op, was, found, state, target>>

\* The worker has finished with its operation and goes on to the next store.
Leave(w) ==
  /\ pc' = [pc EXCEPT ![w] =
       IF op[w] \in ShipmentOps THEN "containers" ELSE "feed"]
  /\ op' = [op EXCEPT ![w] = NoOp]
  /\ was' = [was EXCEPT ![w] = "absent"]
  /\ found' = [found EXCEPT ![w] = NoReq]
  /\ state' = [state EXCEPT ![w] = "open"]
  /\ target' = [target EXCEPT ![w] = NoShip]

\* The request that has been read, with its state, and what is done with it.
Read(w, r, to) ==
  /\ found' = [found EXCEPT ![w] = r]
  /\ state' = [state EXCEPT ![w] =
       IF r.ref \in refused THEN "failed"
       ELSE IF tracking[ShipmentOf[r.ref]] = "none" THEN "open" ELSE "resolved"]
  /\ pc' = [pc EXCEPT ![w] = to]
  /\ UNCHANGED <<op, was, target>>

\* The request that is to be read, and the shipment that is to be linked.
Follow(w, r, to) ==
  /\ found' = [found EXCEPT ![w] = r]
  /\ pc' = [pc EXCEPT ![w] = to]
  /\ UNCHANGED <<op, was, state, target>>
Aim(w, s, to) ==
  /\ target' = [target EXCEPT ![w] = s]
  /\ pc' = [pc EXCEPT ![w] = to]
  /\ UNCHANGED <<op, was, found, state>>

\* update_initiation and ShipmentStore.update: failures are forgotten.
Update(w, status, rid, ship) ==
  rows' = [rows EXCEPT ![op[w]] =
    [status |-> status, attempts |-> 0,
     rid |-> IF rid = NoReq THEN @.rid ELSE rid,
     ship |-> IF ship = NoShip THEN @.ship ELSE ship]]

Database == UNCHANGED <<mappings, lock, provider, history, crashes>>
Reading  == UNCHANGED <<table, lock, provider, history, crashes>>

\* ReviewRequired: the operation is left to a person.
Review(w) == Update(w, "NEEDS_REVIEW", NoReq, NoShip) /\ Leave(w) /\ Database

\* Mutant of Defer: a failure is not counted.
DeferUncounted(w) == UNCHANGED rows /\ Leave(w) /\ Database

\* Any other exception: the operation is tried again, some times.
Defer(w) ==
  /\ rows' = [rows EXCEPT ![op[w]].attempts = @ + 1,
                          ![op[w]].status =
       IF rows[op[w]].attempts >= ReviewAfter THEN "NEEDS_REVIEW" ELSE @]
  /\ Leave(w)
  /\ Database

\* A request has been read; its id is committed before its state is looked at.
Record(w, r) ==
  Read(w, r, "resolve") /\ Update(w, "PENDING", r, NoShip) /\ Database

IsShipment(w) == op[w] \in ShipmentOps
Ref(w)        == RefOf[op[w]]

\* Mutant of Submitted: an operation whose outcome is uncertain is forgotten.
SubmittedForSure == {"PENDING", "LINKED"}

\* Operations of the other kind for the same reference that may have asked
\* for tracking, and the requests they know.
Submitted == {"SUBMITTING", "PENDING", "NEEDS_REVIEW", "LINKED"}

Others(o, ops) ==
  {p \in ops : RefOf[p] = RefOf[o] /\ rows[p].status \in Submitted}
Rids(ops) == {rows[p].rid : p \in ops} \ {NoReq}
The(S)    == CHOOSE x \in S : TRUE

-----------------------------------------------------------------------------
(* The API *)

MayAsk == Cardinality({o \in Ops : rows[o].status # "absent"}) < MaxAsked

\* Store.initiate: one active operation for a container number.
Initiate(o) ==
  /\ o \in ContainerOps
  /\ rows[o].status = "absent" /\ MayAsk
  /\ \A p \in ContainerOps :
       NumberOf[p] = NumberOf[o] => rows[p].status \notin Active
  /\ rows' = [rows EXCEPT ![o].status = "QUEUED"]
  /\ UNCHANGED <<mappings, lock, provider, history, locals, crashes>>

\* ShipmentStore.start: one operation for a reference.
StartShipment(o) ==
  /\ o \in ShipmentOps /\ MayAsk
  /\ \A p \in ShipmentOps : RefOf[p] = RefOf[o] => rows[p].status = "absent"
  /\ rows' = [rows EXCEPT ![o].status = "QUEUED"]
  /\ UNCHANGED <<mappings, lock, provider, history, locals, crashes>>

\* Mutant of Conflicts: only the Odoo container is looked up.
ConflictsOfOp(s, o) ==
  \E m \in mappings : m # [ship |-> s, op |-> o] /\ m.op = o

\* Store.mapping: a journey has one Odoo container and the other way round.
Conflicts(s, o) ==
  \E m \in mappings :
    /\ m # [ship |-> s, op |-> o]
    /\ m.op = o \/ (m.ship = s /\ NumberOf[m.op] = NumberOf[o])

Bind(s, o) == mappings' = mappings \cup {[ship |-> s, op |-> o]}

\* Odoo binds a container whose journey somebody has verified, as a review asks.
MapByHand(s, o) ==
  /\ rows[o].status = "NEEDS_REVIEW"
  /\ tracking[s] = "loaded" /\ NumberOf[o] \in Carries[s]
  /\ ~Conflicts(s, o)
  /\ Bind(s, o)
  /\ UNCHANGED <<rows, lock, provider, history, locals, crashes>>

-----------------------------------------------------------------------------
(* Terminal49 (external) *)

Arrive(m) ==
  /\ posts' = posts \ {m}
  /\ requests' = requests \cup {m}
  /\ UNCHANGED <<table, lock, tracking, refused, history, locals, crashes>>

Vanish(m) ==
  /\ posts' = posts \ {m}
  /\ UNCHANGED <<table, lock, requests, tracking, refused, history, locals, crashes>>

\* Somebody asks for tracking on Terminal49's own site; only what Odoo asks for,
\* too, matters.  Bound: before any other request is there.
RequestByHand(ref) ==
  /\ requests = {} /\ \E o \in Ops : RefOf[o] = ref /\ rows[o].status # "absent"
  /\ requests' = {[ref |-> ref, by |-> ByHand, nth |-> 1]}
  /\ UNCHANGED <<table, lock, tracking, refused, posts, history, locals, crashes>>

\* The carrier answers: there is such a shipment, or there is none.
Resolve(ref) ==
  /\ ref \notin refused /\ \E r \in requests : r.ref = ref
  /\ tracking[ShipmentOf[ref]] = "none"
  /\ \/ /\ tracking' = [tracking EXCEPT ![ShipmentOf[ref]] = "empty"]
        /\ UNCHANGED refused
     \/ refused' = refused \cup {ref} /\ UNCHANGED tracking
  /\ UNCHANGED <<table, lock, requests, posts, history, locals, crashes>>

Develop(s, from, to) ==
  /\ tracking[s] = from
  /\ tracking' = [tracking EXCEPT ![s] = to]
  /\ UNCHANGED <<table, lock, requests, refused, posts, history, locals, crashes>>

Load(s) == Develop(s, "empty", "loaded")   \* its containers appear
Stop(s) == Develop(s, "loaded", "stopped") \* the line stops tracking

-----------------------------------------------------------------------------
(* The worker *)

\* pg_try_advisory_lock on the worker's own connection.
StartWorker(w) ==
  /\ At(w, "off") /\ lock = NoLock
  /\ lock' = w
  /\ Goto(w, "shipments")
  /\ UNCHANGED <<table, provider, history, crashes>>

\* Mutant of NextOp: a container operation is taken up again after its review.
NextOpReviewed(w, o) ==
  /\ IF o \in ShipmentOps
     THEN At(w, "shipments") /\ rows[o].status \in Active \cup {"LINKED"}
     ELSE At(w, "containers") /\ rows[o].status \in Active \cup {"NEEDS_REVIEW"}
  /\ op' = [op EXCEPT ![w] = o]
  /\ was' = [was EXCEPT ![w] = rows[o].status]
  /\ found' = [found EXCEPT ![w] = rows[o].rid]
  /\ target' = [target EXCEPT ![w] = rows[o].ship]
  /\ pc' = [pc EXCEPT ![w] =
       IF o \in ShipmentOps /\ rows[o].ship # NoShip THEN "discover"
       ELSE IF rows[o].rid # NoReq THEN "request"
       ELSE IF o \in ShipmentOps THEN "legacy" ELSE "list"]
  /\ UNCHANGED state
  /\ Reading

\* A row that is due, the oldest next_check_at first; LINKED shipments are
\* looked at again, too.
NextOp(w, o) ==
  /\ IF o \in ShipmentOps
     THEN At(w, "shipments") /\ rows[o].status \in Active \cup {"LINKED"}
     ELSE At(w, "containers") /\ rows[o].status \in Active
  /\ op' = [op EXCEPT ![w] = o]
  /\ was' = [was EXCEPT ![w] = rows[o].status]
  /\ found' = [found EXCEPT ![w] = rows[o].rid]
  /\ target' = [target EXCEPT ![w] = rows[o].ship]
  /\ pc' = [pc EXCEPT ![w] =
       IF o \in ShipmentOps /\ rows[o].ship # NoShip THEN "discover"
       ELSE IF rows[o].rid # NoReq THEN "request"
       ELSE IF o \in ShipmentOps THEN "legacy" ELSE "list"]
  /\ UNCHANGED state
  /\ Reading

\* Nothing is due: next_check_at is 30 seconds to 5 minutes after a look.
NothingDue(w) ==
  /\ \/ At(w, "shipments") /\ Goto(w, "containers")
     \/ At(w, "containers") /\ Goto(w, "feed")
  /\ Reading

\* A container operation may have submitted the reference before.
LegacyRequest(w) ==
  /\ At(w, "legacy")
  /\ LET others == Others(op[w], ContainerOps) IN
     \/ Cardinality(Rids(others)) = 1
        /\ Follow(w, The(Rids(others)), "request") /\ Reading
     \/ others = {} /\ Goto(w, "search") /\ Reading
     \/ others # {} /\ Cardinality(Rids(others)) # 1 /\ Review(w)

\* Is the container tracked already, on exactly one journey that is active?
ListContainers(w) ==
  /\ At(w, "list")
  /\ LET journeys(ts) == {s \in Shipments :
           /\ tracking[s] \in ts /\ NumberOf[op[w]] \in Carries[s]
           /\ Ref(w) \in BoxRefs \/ s = ShipmentOf[Ref(w)]}
         active == journeys({"loaded"})
     IN \/ Cardinality(active) = 1 /\ Aim(w, The(active), "map") /\ Reading
        \/ Cardinality(active) > 1 /\ Review(w)
        \/ active = {} /\ journeys({"stopped"}) # {} /\ Review(w)
        \/ active = {} /\ journeys({"stopped"}) = {}
           /\ Goto(w, "search") /\ Reading

\* Is there a request for the reference: our own, or the only one?  If not, a
\* container operation adopts the request of a shipment operation.
Search(w) ==
  /\ At(w, "search")
  /\ LET listed == {r \in requests : r.ref = Ref(w)}
         own    == {r \in listed : r.by = op[w]}
         owners == IF IsShipment(w) THEN {} ELSE Others(op[w], ShipmentOps)
     IN \/ Cardinality(own) = 1 /\ Record(w, The(own))
        \/ own = {} /\ Cardinality(listed) = 1
           /\ Record(w, The(listed))
        \/ Cardinality(own) # 1 /\ Cardinality(listed) > 1 /\ Review(w)
        \/ listed = {} /\ Rids(owners) # {}
           /\ Update(w, "PENDING", The(Rids(owners)), NoShip)
           /\ Follow(w, The(Rids(owners)), "request") /\ Database
        \/ listed = {} /\ owners # {} /\ Rids(owners) = {} /\ Review(w)
        \/ listed = {} /\ owners = {} /\ Reading
           /\ Goto(w, IF IsShipment(w) /\ Ref(w) \in BillRefs
                      THEN "bills" ELSE "submit")

\* Is the shipment of a master bill tracked already?
ListShipments(w) ==
  /\ At(w, "bills")
  /\ LET s == ShipmentOf[Ref(w)] IN
     \/ tracking[s] = "none" /\ Goto(w, "submit") /\ Reading
     \/ tracking[s] = "stopped" /\ Review(w)
     \/ tracking[s] \in {"empty", "loaded"} /\ Aim(w, s, "discover") /\ Reading

\* Mutant of Submit: a row that was found SUBMITTING is sent.
SubmitAgain(w) ==
  /\ At(w, "submit")
  /\ Update(w, "SUBMITTING", NoReq, NoShip)
  /\ marked' = marked \cup {op[w]}
  /\ Goto(w, "post")
  /\ UNCHANGED <<mappings, lock, provider, sent, crashes>>

\* SUBMITTING is committed before the request leaves.  A row that was found
\* SUBMITTING may have been sent: it is never sent again.
Submit(w) ==
  /\ At(w, "submit")
  /\ \/ was[w] = "SUBMITTING" /\ Review(w)
     \/ /\ was[w] # "SUBMITTING"
        /\ Update(w, "SUBMITTING", NoReq, NoShip)
        /\ marked' = marked \cup {op[w]}
        /\ Goto(w, "post")
        /\ UNCHANGED <<mappings, lock, provider, sent, crashes>>

Post(w) ==
  /\ At(w, "post") /\ sent[op[w]] < MaxPosts
  /\ LET m == [ref |-> Ref(w), by |-> op[w], nth |-> sent[op[w]] + 1] IN
     posts' = posts \cup {m} /\ Follow(w, m, "await")
  /\ sent' = [sent EXCEPT ![op[w]] = @ + 1]
  /\ UNCHANGED <<table, lock, requests, tracking, refused, marked, crashes>>

Answered(w) ==
  /\ At(w, "await") /\ found[w] \in requests
  /\ Record(w, found[w])

GetRequest(w) ==
  /\ At(w, "request")
  /\ \/ IsShipment(w) /\ Record(w, found[w])
     \/ ~IsShipment(w) /\ Read(w, found[w], "resolve") /\ Reading

ResolveRequest(w) ==
  /\ At(w, "resolve")
  /\ \/ /\ state[w] # "resolved"
        /\ Update(w, IF state[w] = "failed" THEN "FAILED" ELSE "PENDING",
                  NoReq, NoShip)
        /\ Leave(w) /\ Database
     \/ /\ state[w] = "resolved"
        /\ Aim(w, ShipmentOf[found[w].ref], "discover") /\ Reading

\* GET the shipment: a container waits until it appears there.
Discover(w) ==
  /\ At(w, "discover")
  /\ LET s == target[w]
         listed == tracking[s] = "loaded" /\ NumberOf[op[w]] \in Carries[s]
     IN \/ tracking[s] = "stopped" /\ Review(w)
        \/ tracking[s] # "stopped" /\ IsShipment(w) /\ Goto(w, "close") /\ Reading
        \/ tracking[s] # "stopped" /\ ~IsShipment(w) /\ listed
           /\ Goto(w, "map") /\ Reading
        \/ tracking[s] # "stopped" /\ ~IsShipment(w) /\ ~listed
           /\ Update(w, "PENDING", NoReq, NoShip) /\ Leave(w) /\ Database

LinkContainer(w) ==
  /\ At(w, "map")
  /\ \/ Conflicts(target[w], op[w]) /\ Review(w)
     \/ /\ ~Conflicts(target[w], op[w])
        /\ Bind(target[w], op[w]) /\ Goto(w, "close")
        /\ UNCHANGED <<rows, lock, provider, history, crashes>>

\* A shipment has one operation; the mapping guards a container.
Close(w) ==
  /\ At(w, "close")
  /\ LET taken == IsShipment(w) /\ \E p \in ShipmentOps \ {op[w]} :
           rows[p].ship = target[w]
     IN \/ taken /\ Review(w)
        \/ ~taken /\ Update(w, "LINKED", NoReq, target[w]) /\ Leave(w) /\ Database

\* A read fails for good (client._get has retried), or the POST's answer is lost.
RequestFails(w) ==
  /\ pc[w] \in {"list", "search", "bills", "await", "request", "discover"}
  /\ Defer(w)

\* Worker.once uses the connection that holds the lock; if that is broken the
\* process ends.
Feed(w) ==
  /\ At(w, "feed")
  /\ Goto(w, IF lock = w THEN "shipments" ELSE "off")
  /\ Reading

Crash(w) ==
  /\ ~At(w, "off") /\ crashes < MaxCrashes
  /\ crashes' = crashes + 1
  /\ lock' = IF lock = w THEN NoLock ELSE lock
  /\ pc' = [pc EXCEPT ![w] = "off"]
  /\ op' = [op EXCEPT ![w] = NoOp]
  /\ was' = [was EXCEPT ![w] = "absent"]
  /\ found' = [found EXCEPT ![w] = NoReq]
  /\ state' = [state EXCEPT ![w] = "open"]
  /\ target' = [target EXCEPT ![w] = NoShip]
  /\ UNCHANGED <<table, provider, history>>

\* The connection breaks and the server releases the lock; the worker goes on.
DropConnection(w) ==
  /\ lock = w /\ crashes < MaxCrashes
  /\ crashes' = crashes + 1
  /\ lock' = NoLock
  /\ UNCHANGED <<table, provider, history, locals>>

Work(w) ==
  \/ LegacyRequest(w) \/ ListContainers(w) \/ Search(w) \/ ListShipments(w)
  \/ Submit(w) \/ Post(w) \/ Answered(w) \/ GetRequest(w)
  \/ ResolveRequest(w) \/ Discover(w) \/ LinkContainer(w) \/ Close(w)
  \/ RequestFails(w) \/ Feed(w)

Next ==
  \/ \E o \in ContainerOps : Initiate(o)
  \/ \E o \in ShipmentOps : StartShipment(o)
  \/ \E s \in Shipments, o \in ContainerOps : MapByHand(s, o)
  \/ \E m \in posts : Arrive(m) \/ Vanish(m)
  \/ \E ref \in References : Resolve(ref)
  \/ \E ref \in HandRefs : RequestByHand(ref)
  \/ \E s \in Shipments : Load(s) \/ Stop(s)
  \/ \E w \in Workers :
       \/ StartWorker(w) \/ NothingDue(w) \/ Work(w)
       \/ Crash(w) \/ DropConnection(w)
       \/ \E o \in Ops : NextOp(w, o)

Spec == Init /\ [][Next]_vars

\* The same where no worker's connection breaks while the worker goes on.
KeepsLock  == \A w \in Workers : ~DropConnection(w)
LockedSpec == Init /\ [][Next /\ KeepsLock]_vars

\* The worker is restarted and goes on, rows become due, and Terminal49 answers
\* for a reference and lists a shipment's containers some time.
Fairness ==
  /\ WF_vars(\E w \in Workers : StartWorker(w))
  /\ \A w \in Workers : WF_vars(Work(w) \/ NothingDue(w))
  /\ \A o \in Ops : SF_vars(\E w \in Workers : NextOp(w, o))
  /\ \A ref \in References : WF_vars(Resolve(ref))
  /\ \A s \in Shipments : WF_vars(Load(s))

FairSpec == Spec /\ Fairness

-----------------------------------------------------------------------------
(* Properties *)

TypeOK ==
  /\ rows \in [Ops -> Row]
  /\ mappings \subseteq [ship : Shipments, op : ContainerOps]
  /\ lock \in Workers \cup {NoLock}
  /\ requests \subseteq Request /\ posts \subseteq Request
  /\ tracking \in [Shipments -> {"none", "empty", "loaded", "stopped"}]
  /\ refused \subseteq References
  /\ sent \in [Ops -> 0 .. MaxPosts] /\ marked \subseteq Ops
  /\ pc \in [Workers -> Pc]
  /\ op \in [Workers -> Ops \cup {NoOp}]
  /\ was \in [Workers -> Status]
  /\ found \in [Workers -> Request \cup {NoReq}]
  /\ state \in [Workers -> {"open", "failed", "resolved"}]
  /\ target \in [Workers -> Shipments \cup {NoShip}]
  /\ crashes \in 0 .. MaxCrashes

\* A reference is not submitted both for a shipment and for a container, in
\* whatever order the two are asked for, fail, time out and are resumed.
ReferenceSubmittedOnce ==
  \A s \in ShipmentOps, c \in ContainerOps :
    RefOf[s] = RefOf[c] => sent[s] + sent[c] <= 1

\* What is LINKED is bound: a container's journey to its own Odoo container and
\* to no other, a shipment to one operation.
LinkedIsExclusive ==
  /\ \A c \in ContainerOps : rows[c].status = "LINKED" =>
       {m \in mappings : m.op = c} = {[ship |-> rows[c].ship, op |-> c]}
  /\ \A m, n \in mappings :
       m.ship = n.ship /\ NumberOf[m.op] = NumberOf[n.op] => m = n
  /\ \A s, t \in ShipmentOps :
       rows[s].ship = rows[t].ship /\ rows[s].ship # NoShip => s = t

\* What holds of the bindings however many workers are at it: a container is on
\* one journey, and the one a worker is about to close is on the journey it aims
\* at.
Idle == {"off", "shipments", "containers", "feed"}

HandOK(w) ==
  /\ pc[w] \in Idle <=> op[w] = NoOp
  /\ pc[w] \in {"list", "map"} => op[w] \in ContainerOps
  /\ pc[w] \in {"legacy", "bills"} => op[w] \in ShipmentOps
  /\ pc[w] \in {"await", "request", "resolve"} => found[w] # NoReq
  /\ pc[w] \in {"discover", "map", "close"} => target[w] # NoShip
  /\ pc[w] = "close" /\ op[w] \in ContainerOps =>
       [ship |-> target[w], op |-> op[w]] \in mappings

Inv ==
  /\ TypeOK /\ LinkedIsExclusive
  /\ \A m, n \in mappings : m.op = n.op => m = n
  /\ \A w \in Workers : HandOK(w)

\* One worker at a time, which is what the lock is for: a worker that starts
\* waits until the one before it, and its connection, are gone.
Exclusive == \A v, w \in Workers : pc[v] # "off" /\ pc[w] # "off" => v = w

\* What a row says of its operation: a request it knows is there and is for its
\* reference, and what may have been sent does not look unsent ...
RowOK(o) ==
  LET row == rows[o]
  IN /\ row.rid # NoReq => row.rid \in requests /\ row.rid.ref = RefOf[o]
     /\ row.status \in {"PENDING", "FAILED"} => row.rid # NoReq
     /\ row.status = "LINKED" => row.ship # NoShip
     /\ row.status \notin {"FAILED", "NEEDS_REVIEW"} => row.attempts <= ReviewAfter
     /\ o \in marked => row.status \notin {"absent", "QUEUED"}
     /\ sent[o] <= 1 /\ (sent[o] > 0 => o \in marked)

\* ... an operation is the only sender of its POST, which is under way or there ...
First(o) == [ref |-> RefOf[o], by |-> o, nth |-> 1]

PostsOK ==
  /\ \A m \in posts :
       m.by \in Ops /\ m = First(m.by) /\ sent[m.by] = 1 /\ m \notin requests
  /\ \A r \in requests :
       r.by = ByHand \/ (r.by \in Ops /\ r = First(r.by) /\ sent[r.by] = 1)

\* ... and what a worker has found out about its operation is still so.
Rivals(o) ==
  {p \in (IF o \in ShipmentOps THEN ContainerOps ELSE ShipmentOps) :
     RefOf[p] = RefOf[o]}

WorkOK(w) ==
  LET o == op[w]  row == rows[op[w]]
  IN pc[w] \notin Idle =>
     /\ row.status \in Active \cup {"LINKED"}
     /\ pc[w] \in {"legacy", "list", "search", "bills", "submit"} =>
          row.rid = NoReq /\ row.status = was[w] /\ was[w] \in {"QUEUED", "SUBMITTING"}
     /\ pc[w] = "search" /\ o \in ShipmentOps =>
          \A c \in Rivals(o) : rows[c].status \notin Submitted
     /\ pc[w] \in {"bills", "submit", "post"} => Rivals(o) \cap marked = {}
     /\ pc[w] \in {"post", "await"} => row.status = "SUBMITTING" /\ row.rid = NoReq
     /\ pc[w] = "post" => o \in marked /\ sent[o] = 0
     /\ pc[w] = "await" => found[w] = First(o)
     /\ pc[w] = "request" =>
          /\ found[w] \in requests /\ found[w].ref = RefOf[o]
          /\ row.rid \in {found[w]} \cup (IF o \in ShipmentOps THEN {NoReq} ELSE {})
     /\ pc[w] = "resolve" => row.rid = found[w]
     /\ pc[w] = "discover" /\ o \in ContainerOps => row.rid # NoReq

\* The inductive invariant where one worker is at it at a time.
IInv ==
  /\ Inv /\ PostsOK
  /\ \A o \in Ops : RowOK(o)
  /\ \A w \in Workers : WorkOK(w)
  /\ \A o \in marked : Rivals(o) \cap marked = {}

\* What a person has to review, and what failed, is never taken up again: no
\* step of a worker that read the row earlier changes it.
SettledStays ==
  [][\A o \in Ops : rows[o].status \in {"FAILED", "NEEDS_REVIEW"}
       => rows'[o] = rows[o]]_vars

\* Every container operation ends, linked, failed or with a person, although
\* any number of reads may fail.
EveryContainerSettles ==
  \A c \in ContainerOps :
    /\ NumberOf[c] \in Carries[ShipmentOf[RefOf[c]]]
    => rows[c].status = "QUEUED" ~>
         rows[c].status \in {"LINKED", "FAILED", "NEEDS_REVIEW"}

\* The comment at initiation.py:126: SUBMITTING is committed first, so that no
\* operation is sent a second time.
SubmittedOnce == \A o \in Ops : sent[o] <= 1

\* What an operation comes to for Terminal49.  An operation that adopts a
\* request somebody else made never leaves "waiting".
Intent(o) ==
  IF o \notin marked THEN "waiting"
  ELSE IF rows[o].status = "NEEDS_REVIEW" THEN "held"
  ELSE IF rows[o].rid # NoReq /\ rows[o].rid.by = o THEN "sent"
  ELSE "posting"

Effects(o) == {r \in requests : r.by = o}

\* The operations refine the promise: an intent before every request, one
\* request at most, and none behind an operation that looks unsent.
Promise == INSTANCE AtMostOncePost WITH
  Job <- Ops, Releasable <- FALSE,
  intent <- [o \in Ops |-> Intent(o)], effects <- [o \in Ops |-> Effects(o)]
PostSpec == Promise!Spec
=============================================================================
