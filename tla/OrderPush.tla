------------------------------- MODULE OrderPush -------------------------------
(***************************************************************************)
(* AcendaOrderPush: Acenda order lines that have no sync row yet become    *)
(* SOS sales orders.  A run loads the open lines, maps each order, commits *)
(* a "pending" row for every mapped line, and then posts the orders        *)
(* concurrently.  SOS refuses a sales order number it has seen; the number *)
(* is then extended and the order posted again.  Below that, the HTTP      *)
(* client sends a request again when its connection breaks or SOS is busy. *)
(*                                                                         *)
(* The push is started by hand (direct_runner.py), one process at a time.  *)
(* A sales order number is the Acenda order with a count of ".1" suffixes, *)
(* or the clock's minute.                                                  *)
(***************************************************************************)
EXTENDS Naturals, Sequences

CONSTANTS
  Orders, Lines,
  OrderOf,        \* the order of a line
  MayBeBad,       \* orders whose sales channel may be one nobody knows
  MaxAttempts,    \* RetryConfig.max_attempts (5)
  MaxDuplicates,  \* duplicate numbers before the clock is used (20)
  MaxTrouble,     \* bound: broken connections and server errors
  MaxCrashes,     \* bound: crashes
  Clock           \* the number made from the minute: the same for all orders

ASSUME ConstantsAssumption ==
  /\ OrderOf \in [Lines -> Orders] /\ MayBeBad \subseteq Orders
  /\ Clock \notin Orders
  /\ MaxAttempts \in Nat \ {0} /\ MaxDuplicates \in Nat \ {0}
  /\ MaxTrouble \in Nat /\ MaxCrashes \in Nat

VARIABLES
  listed,   \* Acenda order items in the database
  bad,      \* the orders whose sales channel is not known
  known,    \* those whose SKU is an SOS item
  sync,     \* sales_order_sync, by line
  sos,      \* the sales orders SOS has created; the id is the position
  stray,    \* requests under way whose senders no longer wait
  pc,       \* where the run is
  open,     \* the lines it has loaded
  task,     \* what it does for each mapped order
  trouble,  \* broken connections and server errors so far
  crashes

vars == <<listed, bad, known, sync, sos, stray, pc, open, task, trouble, crashes>>

Row    == [status : {"none", "pending", "sent", "failed"}, sos_order_id : Nat]
Number == [base : Orders \cup {Clock}, suffix : 0 .. MaxDuplicates]
Post   == [number : Number, lines : SUBSET Lines]
Answer == {"none", "ok", "duplicate", "refused"}
Task   == [pc : {"off", "send", "await", "done"}, lines : SUBSET Lines,
           number : Number, duplicates : 0 .. MaxDuplicates,
           attempt : 0 .. MaxAttempts, answer : Answer, id : Nat]

Idle(o) == [pc |-> "off", lines |-> {}, number |-> [base |-> o, suffix |-> 0],
            duplicates |-> 0, attempt |-> 0, answer |-> "none", id |-> 0]
IdleTasks == [o \in Orders |-> Idle(o)]

Init ==
  /\ listed = {}
  /\ bad \in SUBSET MayBeBad
  /\ known = {}
  /\ sync = [l \in Lines |-> [status |-> "none", sos_order_id |-> 0]]
  /\ sos = << >>
  /\ stray = {}
  /\ pc = "idle"
  /\ open = {}
  /\ task = IdleTasks
  /\ trouble = 0
  /\ crashes = 0

-----------------------------------------------------------------------------
(* Helpers *)

Busy     == {o \in Orders : task[o].pc # "off"}
Batch    == UNION {task[o].lines : o \in Busy}
OpenOf(o) == {l \in open : OrderOf[l] = o}
PostOf(o) == [number |-> task[o].number, lines |-> task[o].lines]
Database  == <<listed, bad, known, sync>>

\* The process ends; what it has sent may still reach SOS.
Abandon ==
  /\ pc' = "idle"
  /\ open' = {}
  /\ task' = IdleTasks
  /\ stray' = stray \cup
       {PostOf(o) : o \in {p \in Orders : task[p].pc = "await"
                                          /\ task[p].answer = "none"}}

\* Mutant of Mark: one line of the order is recorded.
MarkOne(o, status, id) ==
  LET l == CHOOSE l \in task[o].lines : TRUE IN
  sync' = [sync EXCEPT ![l] = [status |-> status, sos_order_id |->
             IF status = "sent" THEN id ELSE @.sos_order_id]]

\* The rows of an order, in the session its POST is made in.
Mark(o, status, id) ==
  sync' = [l \in Lines |-> IF l \in task[o].lines
                           THEN [status |-> status, sos_order_id |->
                                   IF status = "sent" THEN id
                                   ELSE sync[l].sos_order_id]
                           ELSE sync[l]]

Done(o) == task' = [task EXCEPT ![o].pc = "done", ![o].answer = "none"]

-----------------------------------------------------------------------------
(* The loaders of Acenda and SOS data *)

List(l) ==
  /\ l \notin listed
  /\ listed' = listed \cup {l}
  /\ UNCHANGED <<bad, known, sync, sos, stray, pc, open, task, trouble, crashes>>

LearnSku(l) ==
  /\ l \notin known
  /\ known' = known \cup {l}
  /\ UNCHANGED <<listed, bad, sync, sos, stray, pc, open, task, trouble, crashes>>

-----------------------------------------------------------------------------
(* SOS (external) *)

Numbers == {sos[i].number : i \in 1 .. Len(sos)}

\* SOS creates the order, refuses its number, or refuses it for another reason.
Handle(o) ==
  /\ task[o].pc = "await" /\ task[o].answer = "none"
  /\ \/ /\ task[o].number \notin Numbers
        /\ sos' = Append(sos, PostOf(o))
        /\ task' = [task EXCEPT ![o].answer = "ok", ![o].id = Len(sos) + 1]
     \/ /\ task[o].number \in Numbers
        /\ task' = [task EXCEPT ![o].answer = "duplicate"]
        /\ UNCHANGED sos
     \/ /\ task[o].number \notin Numbers
        /\ task' = [task EXCEPT ![o].answer = "refused"]
        /\ UNCHANGED sos
  /\ UNCHANGED <<Database, stray, pc, open, trouble, crashes>>

\* A request whose sender is gone arrives, or does not.
Late(p) ==
  /\ stray' = stray \ {p}
  /\ \/ p.number \notin Numbers /\ sos' = Append(sos, p)
     \/ UNCHANGED sos
  /\ UNCHANGED <<Database, pc, open, task, trouble, crashes>>

-----------------------------------------------------------------------------
(* The run *)

\* Mutant of LoadOpen: rows that were left pending are loaded again.
LoadOpenPending ==
  /\ pc = "idle"
  /\ open' = {l \in listed : sync[l].status \in {"none", "pending"}}
  /\ open' # {}
  /\ pc' = "map"
  /\ UNCHANGED <<Database, sos, stray, task, trouble, crashes>>

\* load_open_acenda_db_orders: lines that have no sync row, whatever its status.
LoadOpen ==
  /\ pc = "idle"
  /\ open' = {l \in listed : sync[l].status = "none"}
  /\ open' # {}
  /\ pc' = "map"
  /\ UNCHANGED <<Database, sos, stray, task, trouble, crashes>>

\* An order with a line of an unknown SKU is logged and left out.  An unknown
\* sales channel is not: the handler reads a second argument the exception does
\* not have, and the run ends.
MapOrders ==
  /\ pc = "map"
  /\ LET mapped == {o \in Orders : OpenOf(o) # {} /\ OpenOf(o) \subseteq known}
     IN \/ mapped \cap bad # {} /\ Abandon
        \/ mapped = {} /\ Abandon
        \/ /\ mapped \cap bad = {} /\ mapped # {}
           /\ task' = [o \in Orders |-> IF o \in mapped
                THEN [Idle(o) EXCEPT !.pc = "send", !.lines = OpenOf(o)]
                ELSE Idle(o)]
           /\ pc' = "upsert"
           /\ UNCHANGED <<open, stray>>
  /\ UNCHANGED <<Database, sos, trouble, crashes>>

\* Mutant of UpsertRows: the rows are not committed yet when the posts start.
UpsertRowsLater ==
  /\ pc = "upsert"
  /\ pc' = "post"
  /\ UNCHANGED <<Database, sos, stray, open, task, trouble, crashes>>

\* The rows are committed before anything is posted.
UpsertRows ==
  /\ pc = "upsert"
  /\ sync' = [l \in Lines |-> IF l \in Batch
                THEN [sync[l] EXCEPT !.status = "pending"] ELSE sync[l]]
  /\ pc' = "post"
  /\ UNCHANGED <<listed, bad, known, sos, stray, open, task, trouble, crashes>>

\* One attempt of AuthenticatedHttpClient._request.
Send(o) ==
  /\ pc = "post" /\ task[o].pc = "send"
  /\ task' = [task EXCEPT ![o].pc = "await", ![o].answer = "none",
                          ![o].attempt = @ + 1]
  /\ UNCHANGED <<Database, sos, stray, pc, open, trouble, crashes>>

Recorded(o) ==
  /\ task[o].pc = "await" /\ task[o].answer = "ok"
  /\ Mark(o, "sent", task[o].id)
  /\ Done(o)
  /\ UNCHANGED <<listed, bad, known, sos, stray, pc, open, trouble, crashes>>

\* Mutant of Renumbered: the duplicates are not counted.
RenumberedAlways(o) ==
  /\ task[o].pc = "await" /\ task[o].answer = "duplicate"
  /\ task[o].duplicates < MaxDuplicates
  /\ task' = [task EXCEPT ![o].pc = "send", ![o].answer = "none", ![o].attempt = 0]
  /\ UNCHANGED <<Database, sos, stray, pc, open, trouble, crashes>>

\* A used number gets another suffix; after MaxDuplicates of them the clock
\* makes the number, once.
Renumbered(o) ==
  /\ task[o].pc = "await" /\ task[o].answer = "duplicate"
  /\ task[o].duplicates < MaxDuplicates
  /\ LET n == task[o].duplicates + 1 IN
     task' = [task EXCEPT ![o].pc = "send", ![o].answer = "none",
       ![o].attempt = 0, ![o].duplicates = n,
       ![o].number = IF n = MaxDuplicates THEN [base |-> Clock, suffix |-> 0]
                     ELSE [@ EXCEPT !.suffix = @ + 1]]
  /\ UNCHANGED <<Database, sos, stray, pc, open, trouble, crashes>>

Failed(o) ==
  /\ task[o].pc = "await"
  /\ \/ task[o].answer = "refused"
     \/ task[o].answer = "duplicate" /\ task[o].duplicates = MaxDuplicates
  /\ Mark(o, "failed", 0)
  /\ Done(o)
  /\ UNCHANGED <<listed, bad, known, sos, stray, pc, open, trouble, crashes>>

Trouble == trouble < MaxTrouble /\ trouble' = trouble + 1

\* The request of a sender that waits no longer: it may not have been handled.
Loose(o) == stray' = IF task[o].answer = "none"
                     THEN stray \cup {PostOf(o)} ELSE stray

\* The connection breaks, before or after SOS has handled the request.  The
\* client sends it again; after the last attempt it raises, the handler of
\* that exception fails like the one of MapOrders, and the run ends.
ConnectionLost(o) ==
  /\ task[o].pc = "await" /\ Trouble
  /\ \/ /\ task[o].attempt < MaxAttempts
        /\ task' = [task EXCEPT ![o].pc = "send", ![o].answer = "none"]
        /\ Loose(o)
        /\ UNCHANGED <<pc, open>>
     \/ task[o].attempt >= MaxAttempts /\ Abandon
  /\ UNCHANGED <<Database, sos, crashes>>

\* SOS, or a proxy in front of it, answers 5xx, before or after SOS has handled
\* the request.  It is sent again; the answer to the last attempt is a failure.
ServerError(o) ==
  /\ task[o].pc = "await" /\ Trouble
  /\ Loose(o)
  /\ \/ /\ task[o].attempt < MaxAttempts
        /\ task' = [task EXCEPT ![o].pc = "send", ![o].answer = "none"]
        /\ UNCHANGED sync
     \/ task[o].attempt >= MaxAttempts /\ Mark(o, "failed", 0) /\ Done(o)
  /\ UNCHANGED <<listed, bad, known, sos, pc, open, crashes>>

\* Every task is done (gather).
EndRun ==
  /\ pc = "post" /\ \A o \in Busy : task[o].pc = "done"
  /\ Abandon
  /\ UNCHANGED <<Database, sos, trouble, crashes>>

Crash ==
  /\ pc # "idle" /\ crashes < MaxCrashes
  /\ crashes' = crashes + 1
  /\ Abandon
  /\ UNCHANGED <<Database, sos, trouble>>

Step ==
  \/ MapOrders \/ UpsertRows \/ EndRun
  \/ \E o \in Orders :
       \/ Send(o) \/ Handle(o) \/ Recorded(o) \/ Renumbered(o) \/ Failed(o)

Next ==
  \/ \E l \in Lines : List(l) \/ LearnSku(l)
  \/ \E p \in stray : Late(p)
  \/ LoadOpen \/ Step \/ Crash
  \/ \E o \in Orders : ConnectionLost(o) \/ ServerError(o)

Spec == Init /\ [][Next]_vars

\* The process runs, SOS answers or the connection ends, and the push is started
\* again while there is something to push.
Fairness == WF_vars(LoadOpen) /\ WF_vars(Step)

FairSpec == Spec /\ Fairness

-----------------------------------------------------------------------------
(* Properties *)

TypeOK ==
  /\ listed \subseteq Lines /\ known \subseteq Lines /\ bad \subseteq MayBeBad
  /\ sync \in [Lines -> Row]
  /\ sos \in Seq(Post)
  /\ stray \subseteq Post
  /\ pc \in {"idle", "map", "upsert", "post"}
  /\ open \subseteq Lines
  /\ task \in [Orders -> Task]
  /\ trouble \in 0 .. MaxTrouble /\ crashes \in 0 .. MaxCrashes

OrdersWith(l) == {i \in 1 .. Len(sos) : l \in sos[i].lines}

\* What SOS has, or may still get from a sender that is gone.
Posts == {sos[i] : i \in 1 .. Len(sos)} \cup stray

\* No sales order exists, or is on its way, for a line without a committed row.
CommittedBeforePost ==
  \A p \in Posts : \A l \in p.lines : sync[l].status # "none"

\* A "sent" row names a sales order that exists and holds its line.
SentIsBacked ==
  \A l \in Lines : sync[l].status = "sent" =>
    /\ sync[l].sos_order_id \in OrdersWith(l)
    /\ sos[sync[l].sos_order_id].number.base \in {OrderOf[l], Clock}

\* The lines of one sales order belong to one Acenda order and share a row
\* state: an order is never recorded in part.
LinesMoveTogether ==
  \A i \in 1 .. Len(sos) : \A l, m \in sos[i].lines :
    OrderOf[l] = OrderOf[m] /\ sync[l] = sync[m]

\* A crash never makes SOS create an order twice, nor hides one behind a row
\* that looks refused: only an answer that is lost does.
CrashNeverDuplicates ==
  trouble = 0 => \A l \in Lines :
    /\ \A i, j \in OrdersWith(l) : i = j
    /\ sync[l].status = "failed" => OrdersWith(l) = {}

\* The parts of the inductive invariant: rows say what a task has done so far,
\* a task works on lines of its own order that move together ...
RowsOK ==
  /\ \A l \in Lines :
       sync[l].status \in {"none", "pending"} => sync[l].sos_order_id = 0
  /\ pc = "map" => \A l \in open : sync[l].status = "none"

TaskOK(o) ==
  /\ task[o].pc = "off" => task[o].lines = {}
  /\ task[o].pc # "off" => pc \in {"upsert", "post"}
  /\ pc = "upsert" => task[o].pc \in {"off", "send"}
  /\ task[o].number.base \in {o, Clock}
  /\ task[o].number.suffix <= task[o].duplicates
  /\ task[o].pc = "send" => task[o].attempt < MaxAttempts
  /\ task[o].answer = "ok" =>
       /\ task[o].pc = "await"
       /\ task[o].id \in 1 .. Len(sos) /\ sos[task[o].id] = PostOf(o)
  /\ \A l \in task[o].lines :
       /\ OrderOf[l] = o
       /\ pc = "upsert" => sync[l].status = "none"
       /\ pc = "post" /\ task[o].pc # "done" => sync[l].status = "pending"
       /\ pc = "post" => sync[l].status # "none"
       /\ \A m \in task[o].lines : sync[l] = sync[m]

\* ... a sales order holds all lines of a task or none of them ...
PostOK(p) ==
  /\ \A l, m \in p.lines : OrderOf[l] = OrderOf[m] /\ sync[l] = sync[m]
  /\ \A o \in Orders : p.lines \cap task[o].lines # {} => p.lines = task[o].lines

\* ... and, unless an answer is lost, a line is in one place at most: in a sales
\* order, in a request without a sender, or with a task that has no order yet.
Exact ==
  trouble = 0 => \A l \in Lines :
    /\ \A i, j \in OrdersWith(l) : i = j
    /\ sync[l].status = "failed" => OrdersWith(l) = {}
    /\ \A p \in stray : l \in p.lines =>
         /\ OrdersWith(l) = {} /\ sync[l].status = "pending"
         /\ \A q \in stray : l \in q.lines => p = q
         /\ \A o \in Orders : l \notin task[o].lines
    /\ \A o \in Orders :
         /\ l \in task[o].lines /\ task[o].pc # "done" /\ task[o].answer # "ok"
         => OrdersWith(l) = {}

IInv ==
  /\ TypeOK /\ CommittedBeforePost /\ SentIsBacked /\ RowsOK
  /\ \A o \in Orders : TaskOK(o)
  /\ \A p \in Posts : PostOK(p)
  /\ Exact

\* A run comes to its end: neither the loop over numbers nor the client's
\* retries go on for ever.
RunEnds == pc # "idle" ~> pc = "idle"

\* push_to_sos.py:66: errors of one order do not stop the remaining orders.
\* Every order that can be mapped gets its rows.
MappableIsTaken ==
  \A l \in Lines : OrderOf[l] \notin bad =>
    (l \in listed /\ known = Lines) ~> sync[l].status # "none"

\* sos_models.py:2461: the rows are kept for idempotency.
PostedOnce == \A l \in Lines : \A i, j \in OrdersWith(l) : i = j
=============================================================================
