------------------------------ MODULE KspGateway ------------------------------
(***************************************************************************)
(* The KSP gateway connector.  A tick of KSPGatewayJob submits released    *)
(* Odoo deliveries to KSP and then polls the orders it knows: the order    *)
(* and its claim token are written to a journal (SQLite), the delivery is  *)
(* claimed in Odoo, the order is posted once, and what KSP answers decides *)
(* how the journal goes on.  An accepted order is acknowledged in Odoo and *)
(* its packages are applied there.  Ticks may overlap (another process),   *)
(* stop anywhere, and lose the answers of Odoo and KSP.                    *)
(*                                                                         *)
(* A delivery has one allocation, whose submission key is its order code.  *)
(***************************************************************************)
EXTENDS Naturals, Sequences, FiniteSets

CONSTANTS
  Runs,         \* processes that run KSPGatewayJob.run_once
  Deliveries,   \* Odoo pickings, by id
  Contents,     \* what a release, or a package, may hold
  Packages,     \* tracking numbers
  MaxTrouble,   \* bound: failures, crashes and requeues
  NoToken       \* bokser_claim_token not set

ASSUME ConstantsAssumption ==
  /\ Deliveries \subseteq Nat /\ IsFiniteSet(Deliveries)
  /\ MaxTrouble \in Nat
  /\ Contents # {}
  /\ NoToken \notin Nat

VARIABLES
  odoo,       \* the picking of each delivery
  ledger,     \* the package events Odoo has applied
  binding,    \* the journal row of each order code
  staged,     \* its package_event rows
  applied,    \* those of them with applied = 1
  stray,      \* POSTs under way to KSP whose senders no longer wait
  orders,     \* the orders KSP created; the id is the position
  packed,     \* the packages KSP reports for each code
  pc, phase,  \* where each run is; whether it submits or polls
  after_id,   \* its discovery cursor
  queue,      \* the deliveries or codes it has still to see, the least is next
  row,        \* the picking as it read it
  token,      \* the claim token it works with
  answer,     \* the journal update that KSP's answer calls for
  reports,    \* the packages it has been told, or has still to apply
  tokens,     \* tokens made so far
  trouble     \* failures so far

outside == <<odoo, ledger, stray, orders, packed>>
journal == <<binding, staged, applied>>
locals  == <<pc, phase, after_id, queue, row, token, answer, reports>>
vars    == <<outside, journal, locals, tokens, trouble>>

Picking == [dispatch : {"queued", "submitting", "submitted"},
            content : Contents, claim_token : Nat \cup {NoToken},
            wms_order_ref : Nat, claimed : BOOLEAN]
State   == {"absent", "ready", "posting", "pending", "accepted",
            "acknowledged", "uncertain"}
Binding == [state : State, content : Contents, claim_token : Nat \cup {NoToken},
            order_id : Nat]
Order   == [code : Deliveries, content : Contents,
            status : {"received", "sent", "closed"}]
Package == [id : Packages, content : Contents]
Answer  == [state : State, order_id : Nat]
Pc      == {"idle", "next", "lookup", "stage", "claim", "reread", "submit",
            "post", "await", "accept", "reconcile", "track", "record", "check",
            "ack", "acked", "packages", "snapshot", "apply", "mark"}

\* No journal row.
AContent  == CHOOSE c \in Contents : TRUE
NoBinding == [state |-> "absent", content |-> AContent,
              claim_token |-> NoToken, order_id |-> 0]
NoRow     == [dispatch |-> "submitted", content |-> AContent,
              claim_token |-> NoToken, wms_order_ref |-> 0, claimed |-> FALSE]
NoAnswer  == [state |-> "absent", order_id |-> 0]

Init ==
  /\ odoo = [d \in Deliveries |->
       [dispatch |-> "queued", content |-> AContent, claim_token |-> NoToken,
        wms_order_ref |-> 0, claimed |-> FALSE]]
  /\ ledger = [d \in Deliveries |-> {}]
  /\ binding = [d \in Deliveries |-> NoBinding]
  /\ staged = [d \in Deliveries |-> {}]
  /\ applied = [d \in Deliveries |-> {}]
  /\ stray = [d \in Deliveries |-> 0]
  /\ orders = << >>
  /\ packed = [d \in Deliveries |-> {}]
  /\ pc = [r \in Runs |-> "idle"]
  /\ phase = [r \in Runs |-> "submit"]
  /\ after_id = [r \in Runs |-> 0]
  /\ queue = [r \in Runs |-> {}]
  /\ row = [r \in Runs |-> NoRow]
  /\ token = [r \in Runs |-> NoToken]
  /\ answer = [r \in Runs |-> NoAnswer]
  /\ reports = [r \in Runs |-> {}]
  /\ tokens = 0
  /\ trouble = 0

-----------------------------------------------------------------------------
(* Helpers *)

Goto(r, from, to) == pc[r] = from /\ pc' = [pc EXCEPT ![r] = to]

\* The delivery or code the run is busy with.
Least(S)    == CHOOSE d \in S : \A e \in S : d <= e
Current(r)  == Least(queue[r])

\* The run is done with it, successfully or by an exception.
Leave(r, from) ==
  /\ Goto(r, from, "next")
  /\ queue' = [queue EXCEPT ![r] = @ \ {Current(r)}]
  /\ row' = [row EXCEPT ![r] = NoRow]
  /\ token' = [token EXCEPT ![r] = NoToken]
  /\ answer' = [answer EXCEPT ![r] = NoAnswer]
  /\ reports' = [reports EXCEPT ![r] = {}]
  /\ UNCHANGED <<phase, after_id>>

Step(r, from, to) ==
  /\ Goto(r, from, to)
  /\ UNCHANGED <<phase, after_id, queue, row, token, answer, reports>>

Fault == trouble < MaxTrouble /\ trouble' = trouble + 1

\* GatewayStore.state: whatever the row says, and an order id is never unset.
Written(d, state, order_id) ==
  binding' = [binding EXCEPT ![d].state = state,
                             ![d].order_id = IF order_id = 0 THEN @ ELSE order_id]

-----------------------------------------------------------------------------
(* Odoo and KSP *)

\* bokser_claim_delivery: a queued delivery becomes the caller's.
Claimed(d, t) ==
  odoo' = [odoo EXCEPT ![d].dispatch = "submitting", ![d].claim_token = t,
                       ![d].claimed = TRUE]

\* A delivery is released again with other lines, before anyone has claimed it;
\* once is enough.
Rerelease(d, c) ==
  /\ odoo[d].dispatch = "queued" /\ ~odoo[d].claimed
  /\ odoo[d].content = AContent /\ c # AContent
  /\ odoo' = [odoo EXCEPT ![d].content = c]
  /\ UNCHANGED <<ledger, stray, orders, packed, journal, locals, tokens, trouble>>

\* Someone takes the claim back.
Requeue(d) ==
  /\ odoo[d].dispatch = "submitting"
  /\ Fault
  /\ odoo' = [odoo EXCEPT ![d].dispatch = "queued", ![d].claim_token = NoToken]
  /\ UNCHANGED <<ledger, stray, orders, packed, journal, locals, tokens>>

\* An order is created as the journal froze it.
Created(d, status) ==
  orders' = Append(orders, [code |-> d, content |-> binding[d].content,
                            status |-> status])

\* A request whose sender no longer waits takes effect, or does not.
HandleStray(d) ==
  /\ stray[d] > 0
  /\ stray' = [stray EXCEPT ![d] = @ - 1]
  /\ Created(d, "received") \/ UNCHANGED orders
  /\ UNCHANGED <<odoo, ledger, packed, journal, locals, tokens, trouble>>

\* The warehouse takes the order over, and closes it in the end.
OrderMoves(i, from, to) ==
  /\ i \in DOMAIN orders /\ orders[i].status = from
  /\ orders' = [orders EXCEPT ![i].status = to]
  /\ UNCHANGED <<odoo, ledger, stray, packed, journal, locals, tokens>>

OrderSent(i)   == OrderMoves(i, "received", "sent") /\ UNCHANGED trouble
OrderClosed(i) == \E s \in {"received", "sent"} :
                    OrderMoves(i, s, "closed") /\ Fault

OrdersOf(d) == {i \in DOMAIN orders : orders[i].code = d}

\* A package is reported.
Pack(d, p) ==
  /\ OrdersOf(d) # {} /\ p \notin {x.id : x \in packed[d]}
  /\ packed' = [packed EXCEPT ![d] = @ \cup {[id |-> p, content |-> AContent]}]
  /\ UNCHANGED <<odoo, ledger, stray, orders, journal, locals, tokens, trouble>>

\* It disappears again, or is reported with other contents.
Repack(d, x) ==
  /\ x \in packed[d]
  /\ Fault
  /\ \/ packed' = [packed EXCEPT ![d] = @ \ {x}]
     \/ \E c \in Contents \ {x.content} :
          packed' = [packed EXCEPT ![d] = (@ \ {x}) \cup {[x EXCEPT !.content = c]}]
  /\ UNCHANGED <<odoo, ledger, stray, orders, journal, locals, tokens>>

-----------------------------------------------------------------------------
(* A tick: run_once *)

\* Mutant of Open: deliveries that are claimed are not looked at again.
OpenQueued(d) == odoo[d].dispatch = "queued"

\* The dispatch states discovery asks for.
Open(d) == odoo[d].dispatch \in {"queued", "submitting"}

\* discover_deliveries after the cursor, from the start when nothing is left;
\* batch_size is one.
Candidates(after) ==
  LET later == {d \in Deliveries : Open(d) /\ d > after}
      all   == {d \in Deliveries : Open(d)}
  IN IF later # {} THEN {Least(later)}
     ELSE IF after # 0 /\ all # {} THEN {Least(all)} ELSE {}

StartTick(r) ==
  LET found == Candidates(after_id[r])
  IN /\ Goto(r, "idle", "next")
     /\ queue' = [queue EXCEPT ![r] = found]
     /\ phase' = [phase EXCEPT ![r] = "submit"]
     /\ after_id' = [after_id EXCEPT ![r] =
          IF found # {} THEN Least(found) ELSE 0]
     /\ UNCHANGED <<outside, journal, row, token, answer, reports, tokens,
                    trouble>>

\* Odoo does not answer: nothing is claimed, known orders are polled.
DiscoveryFails(r) ==
  /\ Goto(r, "idle", "next")
  /\ Fault
  /\ queue' = [queue EXCEPT ![r] = {}]
  /\ phase' = [phase EXCEPT ![r] = "submit"]
  /\ UNCHANGED <<outside, journal, after_id, row, token, answer, reports, tokens>>

\* poll_codes: everything posted.
Polled(d) == binding[d].state \notin {"absent", "ready"}

StartPolls(r) ==
  /\ phase[r] = "submit" /\ queue[r] = {}
  /\ Goto(r, "next", "next")
  /\ phase' = [phase EXCEPT ![r] = "poll"]
  /\ queue' = [queue EXCEPT ![r] = {d \in Deliveries : Polled(d)}]
  /\ UNCHANGED <<outside, journal, after_id, row, token, answer, reports, tokens,
                 trouble>>

EndTick(r) ==
  /\ phase[r] = "poll" /\ queue[r] = {}
  /\ Step(r, "next", "idle")
  /\ UNCHANGED <<outside, journal, tokens, trouble>>

-----------------------------------------------------------------------------
(* submit_delivery *)

\* read_delivery.
Read(r) ==
  /\ phase[r] = "submit" /\ queue[r] # {} /\ Open(Current(r))
  /\ Goto(r, "next", "lookup")
  /\ row' = [row EXCEPT ![r] = odoo[Current(r)]]
  /\ UNCHANGED <<outside, journal, phase, after_id, queue, token, answer,
                 reports, tokens, trouble>>

\* The delivery is no longer open.
Skip(r) ==
  /\ phase[r] = "submit" /\ queue[r] # {} /\ ~Open(Current(r))
  /\ Leave(r, "next")
  /\ UNCHANGED <<outside, journal, tokens, trouble>>

\* The journal row and the picking agree on the contents and on the claim.
Resumable(r) ==
  LET b == binding[Current(r)]
  IN /\ b.state # "absent" => b.content = row[r].content
     /\ IF row[r].dispatch = "queued" THEN row[r].claim_token = NoToken
        ELSE b.state # "absent" /\ b.claim_token = row[r].claim_token

\* store.get: the token of the journal, or a new one.
Lookup(r) ==
  LET b == binding[Current(r)]
  IN /\ Goto(r, "lookup", "stage")
     /\ Resumable(r)
     /\ IF b.state = "absent"
        THEN token' = [token EXCEPT ![r] = tokens + 1] /\ tokens' = tokens + 1
        ELSE token' = [token EXCEPT ![r] = b.claim_token] /\ UNCHANGED tokens
     /\ UNCHANGED <<outside, journal, phase, after_id, queue, row, answer,
                    reports, trouble>>

LookupFails(r) ==
  /\ Leave(r, "lookup")
  /\ ~Resumable(r)
  /\ UNCHANGED <<outside, journal, tokens, trouble>>

\* The fingerprint of the row covers the contents and the token.
SameFrozen(r) ==
  LET b == binding[Current(r)]
  IN b.content = row[r].content /\ b.claim_token = token[r]

\* Mutant of Stage: the row is replaced, whatever it holds.
StageReplaces(r) ==
  LET d == Current(r)
  IN /\ Goto(r, "stage",
             IF row[r].dispatch = "queued" THEN "claim" ELSE "submit")
     /\ binding' = [binding EXCEPT ![d] =
          [state |-> "ready", content |-> row[r].content,
           claim_token |-> token[r], order_id |-> 0]]
     /\ UNCHANGED <<outside, staged, applied, phase, after_id, queue, row, token,
                    answer, reports, tokens, trouble>>

\* store.stage, before the claim.
Stage(r) ==
  LET d == Current(r)
  IN /\ Goto(r, "stage",
             IF row[r].dispatch = "queued" THEN "claim" ELSE "submit")
     /\ binding[d].state = "absent" \/ SameFrozen(r)
     /\ binding' = IF binding[d].state # "absent" THEN binding
                   ELSE [binding EXCEPT ![d] =
                           [state |-> "ready", content |-> row[r].content,
                            claim_token |-> token[r], order_id |-> 0]]
     /\ UNCHANGED <<outside, staged, applied, phase, after_id, queue, row, token,
                    answer, reports, tokens, trouble>>

StageFails(r) ==
  /\ Leave(r, "stage")
  /\ binding[Current(r)].state # "absent" /\ ~SameFrozen(r)
  /\ UNCHANGED <<outside, journal, tokens, trouble>>

\* Mutant of Claim: what the claim returns is not compared with what was read.
ClaimUnread(r) ==
  LET d == Current(r)
  IN /\ pc[r] = "claim" /\ odoo[d].dispatch = "queued"
     /\ Claimed(d, token[r])
     /\ Step(r, "claim", "submit")
     /\ UNCHANGED <<ledger, stray, orders, packed, journal, tokens, trouble>>

\* Odoo grants the claim and returns the allocation, which must be the one read.
Claim(r) ==
  LET d == Current(r)
  IN /\ pc[r] = "claim" /\ odoo[d].dispatch = "queued"
     /\ Claimed(d, token[r])
     /\ IF odoo[d].content = row[r].content THEN Step(r, "claim", "submit")
        ELSE Leave(r, "claim")
     /\ UNCHANGED <<ledger, stray, orders, packed, journal, tokens, trouble>>

ClaimRefused(r) ==
  /\ Step(r, "claim", "reread")
  /\ odoo[Current(r)].dispatch # "queued"
  /\ UNCHANGED <<outside, journal, tokens, trouble>>

\* No answer: the delivery is claimed all the same, or is not.
ClaimUnheard(r) ==
  LET d == Current(r)
  IN /\ Leave(r, "claim")
     /\ Fault
     /\ \/ odoo[d].dispatch = "queued" /\ Claimed(d, token[r])
        \/ UNCHANGED odoo
     /\ UNCHANGED <<ledger, stray, orders, packed, journal, tokens>>

\* A refused claim may be an earlier one of this journal.
Mine(r) == LET o == odoo[Current(r)]
           IN o.claim_token = token[r] /\ o.content = row[r].content

Reread(r) ==
  /\ pc[r] = "reread"
  /\ IF Mine(r) THEN Step(r, "reread", "submit") ELSE Leave(r, "reread")
  /\ UNCHANGED <<outside, journal, tokens, trouble>>

-----------------------------------------------------------------------------
(* submit_allocation *)

\* stage again, and the conditional UPDATE of start_post.
StartPost(r) ==
  LET d == Current(r)
  IN /\ Step(r, "submit", "post")
     /\ SameFrozen(r) /\ binding[d].state = "ready"
     /\ binding' = [binding EXCEPT ![d].state = "posting"]
     /\ UNCHANGED <<outside, staged, applied, tokens, trouble>>

\* It is not ready: no POST.
NoPost(r) ==
  /\ Step(r, "submit", "reconcile")
  /\ SameFrozen(r) /\ binding[Current(r)].state # "ready"
  /\ UNCHANGED <<outside, journal, tokens, trouble>>

\* A POST is tried once.
SendPost(r) ==
  /\ Step(r, "post", "await")
  /\ UNCHANGED <<outside, journal, tokens, trouble>>

\* KSP's answer, and what _accept_response or the handler is going to write.
Answered(r, state, order_id) ==
  /\ Goto(r, "await", "accept")
  /\ answer' = [answer EXCEPT ![r] = [state |-> state, order_id |-> order_id]]
  /\ UNCHANGED <<odoo, ledger, stray, packed, journal, phase, after_id, queue,
                 row, token, reports, tokens>>

\* What a status says of an order.
StateFor(status) == CASE status = "sent" -> "accepted"
                      [] status = "received" -> "pending"
                      [] OTHER -> "uncertain"

AnswerCreated(r, status) ==
  /\ Answered(r, StateFor(status), Len(orders) + 1)
  /\ Created(Current(r), status)
  /\ UNCHANGED trouble

\* 429: the rate limiter has let nothing through.
AnswerTooMany(r) ==
  /\ Answered(r, "ready", 0)
  /\ Fault
  /\ UNCHANGED orders

\* Mutant of AnswerUnclear: a server error counts as a refusal.
AnswerUnclearReady(r) ==
  /\ Answered(r, "ready", 0)
  /\ Fault
  /\ Created(Current(r), "received") \/ UNCHANGED orders

\* Any other error, an unreadable body or another order's code.
AnswerUnclear(r) ==
  /\ Answered(r, "uncertain", 0)
  /\ Fault
  /\ Created(Current(r), "received") \/ UNCHANGED orders

\* A request that is under way when its sender stops waiting.
Abandoned(r) ==
  stray' = IF pc[r] = "await" THEN [stray EXCEPT ![Current(r)] = @ + 1] ELSE stray

\* Mutant of TransportError: a timeout counts as a request that was not sent.
TransportErrorRetried(r) ==
  /\ Goto(r, "await", "accept")
  /\ Fault
  /\ Abandoned(r)
  /\ answer' = [answer EXCEPT ![r] = [state |-> "ready", order_id |-> 0]]
  /\ UNCHANGED <<odoo, ledger, orders, packed, journal, phase, after_id, queue,
                 row, token, reports, tokens>>

\* The connection breaks or times out; the request may still arrive.
TransportError(r) ==
  /\ Goto(r, "await", "accept")
  /\ Fault
  /\ Abandoned(r)
  /\ answer' = [answer EXCEPT ![r] = [state |-> "uncertain", order_id |-> 0]]
  /\ UNCHANGED <<odoo, ledger, orders, packed, journal, phase, after_id, queue,
                 row, token, reports, tokens>>

\* The UPDATE; an accepted or pending order goes on to reconcile.
Accept(r) ==
  LET a == answer[r]
  IN /\ pc[r] = "accept"
     /\ IF a.state \in {"accepted", "pending"} THEN Step(r, "accept", "reconcile")
        ELSE Leave(r, "accept")
     /\ Written(Current(r), a.state, a.order_id)
     /\ UNCHANGED <<outside, staged, applied, tokens, trouble>>

-----------------------------------------------------------------------------
(* reconcile *)

\* posting and uncertain orders are looked up and left to a person.
Reconcile(r) ==
  LET state == binding[Current(r)].state
  IN /\ pc[r] = "reconcile"
     /\ CASE state = "pending"  -> Step(r, "reconcile", "track")
          [] state = "accepted" -> Step(r, "reconcile", "ack")
          [] OTHER              -> Leave(r, "reconcile")
     /\ UNCHANGED <<outside, journal, tokens, trouble>>

\* The tracking answer for the saved order id.
Track(r) ==
  LET id == binding[Current(r)].order_id
  IN /\ Goto(r, "track", "record")
     /\ answer' = [answer EXCEPT ![r] =
          [state |-> StateFor(orders[id].status), order_id |-> id]]
     /\ UNCHANGED <<outside, journal, phase, after_id, queue, row, token,
                    reports, tokens, trouble>>

\* The same UPDATE; another poller may have written meanwhile.
Record(r) ==
  LET a == answer[r]
  IN /\ pc[r] = "record"
     /\ IF a.state = "uncertain" THEN Leave(r, "record")
        ELSE Step(r, "record", "check")
     /\ Written(Current(r), a.state, a.order_id)
     /\ UNCHANGED <<outside, staged, applied, tokens, trouble>>

Check(r) ==
  /\ pc[r] = "check"
  /\ IF binding[Current(r)].state = "accepted" THEN Step(r, "check", "ack")
     ELSE Leave(r, "check")
  /\ UNCHANGED <<outside, journal, tokens, trouble>>

\* Odoo takes the order for the claim that is the delivery's.
Acknowledged(d) ==
  /\ odoo[d].claim_token = binding[d].claim_token
  /\ odoo' = [odoo EXCEPT ![d].dispatch = "submitted",
                          ![d].wms_order_ref = binding[d].order_id]

Acknowledge(r) ==
  /\ Step(r, "ack", "acked")
  /\ Acknowledged(Current(r))
  /\ UNCHANGED <<ledger, stray, orders, packed, journal, tokens, trouble>>

\* The claim has been taken back.
AcknowledgeRefused(r) ==
  /\ Leave(r, "ack")
  /\ odoo[Current(r)].claim_token # binding[Current(r)].claim_token
  /\ UNCHANGED <<outside, journal, tokens, trouble>>

AcknowledgeUnheard(r) ==
  /\ Leave(r, "ack")
  /\ Fault
  /\ Acknowledged(Current(r)) \/ UNCHANGED odoo
  /\ UNCHANGED <<ledger, stray, orders, packed, journal, tokens>>

MarkAcknowledged(r) ==
  /\ Leave(r, "acked")
  /\ Written(Current(r), "acknowledged", 0)
  /\ UNCHANGED <<outside, staged, applied, tokens, trouble>>

-----------------------------------------------------------------------------
(* poll_shipments *)

Poll(r) ==
  /\ phase[r] = "poll" /\ queue[r] # {}
  /\ Step(r, "next", IF binding[Current(r)].state = "acknowledged"
                     THEN "packages" ELSE "reconcile")
  /\ UNCHANGED <<outside, journal, tokens, trouble>>

\* The package snapshot of an order that is not closed.
FetchPackages(r) ==
  LET d == Current(r)
  IN /\ Goto(r, "packages", "snapshot")
     /\ orders[binding[d].order_id].status = "sent"
     /\ reports' = [reports EXCEPT ![r] = packed[d]]
     /\ UNCHANGED <<outside, journal, phase, after_id, queue, row, token, answer,
                    tokens, trouble>>

FetchRefused(r) ==
  /\ Leave(r, "packages")
  /\ orders[binding[Current(r)].order_id].status # "sent"
  /\ UNCHANGED <<outside, journal, tokens, trouble>>

\* Mutant of StagePackages: a changed package is a new event.
StagePackagesUnchecked(r) ==
  LET d == Current(r)
  IN /\ Goto(r, "snapshot", "apply")
     /\ staged' = [staged EXCEPT ![d] = @ \cup reports[r]]
     /\ reports' = [reports EXCEPT ![r] = @ \ applied[d]]
     /\ UNCHANGED <<outside, binding, applied, phase, after_id, queue, row, token,
                    answer, tokens, trouble>>

\* stage_packages and pending_packages: all events or none; those to be applied
\* are kept for the loop.
StagePackages(r) ==
  LET d == Current(r)
  IN /\ Goto(r, "snapshot", "apply")
     /\ staged[d] \subseteq reports[r]
     /\ staged' = [staged EXCEPT ![d] = reports[r]]
     /\ reports' = [reports EXCEPT ![r] = @ \ applied[d]]
     /\ UNCHANGED <<outside, binding, applied, phase, after_id, queue, row, token,
                    answer, tokens, trouble>>

\* A package has disappeared or changed.
StagePackagesFails(r) ==
  /\ Leave(r, "snapshot")
  /\ ~(staged[Current(r)] \subseteq reports[r])
  /\ UNCHANGED <<outside, journal, tokens, trouble>>

\* The event the loop is at.
Event(r) == CHOOSE x \in reports[r] : TRUE

\* Odoo's ledger: an event it knows is answered without a second stock move.
Applied(r) == ledger' = [ledger EXCEPT ![Current(r)] = @ \cup {Event(r)}]

Apply(r) ==
  /\ reports[r] # {}
  /\ Step(r, "apply", "mark")
  /\ Applied(r)
  /\ UNCHANGED <<odoo, stray, orders, packed, journal, tokens, trouble>>

ApplyUnheard(r) ==
  /\ reports[r] # {}
  /\ Leave(r, "apply")
  /\ Fault
  /\ Applied(r)
  /\ UNCHANGED <<odoo, stray, orders, packed, journal, tokens>>

MarkApplied(r) ==
  /\ Goto(r, "mark", "apply")
  /\ applied' = [applied EXCEPT ![Current(r)] = @ \cup {Event(r)}]
  /\ reports' = [reports EXCEPT ![r] = @ \ {Event(r)}]
  /\ UNCHANGED <<outside, binding, staged, phase, after_id, queue, row, token,
                 answer, tokens, trouble>>

EndPackages(r) ==
  /\ reports[r] = {}
  /\ Leave(r, "apply")
  /\ UNCHANGED <<outside, journal, tokens, trouble>>

-----------------------------------------------------------------------------
(* Failures *)

\* Any other exception, caught by run_once: a request for status or packages
\* fails, the journal is locked, the body of an answer breaks off (which is no
\* GatewayError and leaves the row posting).
OtherError(r) ==
  /\ pc[r] \notin {"idle", "next"}
  /\ Leave(r, pc[r])
  /\ Fault
  /\ Abandoned(r)
  /\ UNCHANGED <<odoo, ledger, orders, packed, journal, tokens>>

\* The process stops; the discovery cursor is in its memory.
Crash(r) ==
  /\ Goto(r, pc[r], "idle") /\ pc[r] # "idle"
  /\ Fault
  /\ Abandoned(r)
  /\ phase' = [phase EXCEPT ![r] = "submit"]
  /\ after_id' = [after_id EXCEPT ![r] = 0]
  /\ queue' = [queue EXCEPT ![r] = {}]
  /\ row' = [row EXCEPT ![r] = NoRow]
  /\ token' = [token EXCEPT ![r] = NoToken]
  /\ answer' = [answer EXCEPT ![r] = NoAnswer]
  /\ reports' = [reports EXCEPT ![r] = {}]
  /\ UNCHANGED <<odoo, ledger, orders, packed, journal, tokens>>

-----------------------------------------------------------------------------

\* What a tick does when Odoo, KSP and the journal answer.
Progress(r) ==
  \/ StartTick(r) \/ StartPolls(r) \/ EndTick(r)
  \/ Read(r) \/ Skip(r) \/ Lookup(r) \/ LookupFails(r) \/ Stage(r)
  \/ StageFails(r) \/ Claim(r) \/ ClaimRefused(r) \/ Reread(r)
  \/ StartPost(r) \/ NoPost(r) \/ SendPost(r)
  \/ (\E s \in {"received", "sent"} : AnswerCreated(r, s))
  \/ Accept(r) \/ Reconcile(r) \/ Track(r) \/ Record(r) \/ Check(r)
  \/ Acknowledge(r) \/ AcknowledgeRefused(r) \/ MarkAcknowledged(r)
  \/ Poll(r) \/ FetchPackages(r) \/ FetchRefused(r) \/ StagePackages(r)
  \/ StagePackagesFails(r) \/ Apply(r) \/ MarkApplied(r) \/ EndPackages(r)

Trouble(r) ==
  \/ DiscoveryFails(r) \/ ClaimUnheard(r) \/ AnswerTooMany(r)
  \/ AnswerUnclear(r) \/ TransportError(r) \/ AcknowledgeUnheard(r)
  \/ ApplyUnheard(r) \/ OtherError(r) \/ Crash(r)

Outside ==
  \/ \E d \in Deliveries :
       \/ (\E c \in Contents : Rerelease(d, c)) \/ Requeue(d) \/ HandleStray(d)
       \/ \E p \in Packages : Pack(d, p)
       \/ \E x \in packed[d] : Repack(d, x)
  \/ \E i \in DOMAIN orders : OrderSent(i) \/ OrderClosed(i)

Next == (\E r \in Runs : Progress(r) \/ Trouble(r)) \/ Outside

Spec == Init /\ [][Next]_vars

\* The scheduler ticks at every interval and what a tick calls answers or fails;
\* KSP hands an order it has received to the warehouse.
FairSpec ==
  /\ Spec
  /\ \A r \in Runs : WF_vars(Progress(r))
  /\ WF_vars(\E i \in DOMAIN orders : OrderSent(i))

-----------------------------------------------------------------------------
(* Properties *)

TypeOK ==
  /\ odoo \in [Deliveries -> Picking]
  /\ ledger \in [Deliveries -> SUBSET Package]
  /\ binding \in [Deliveries -> Binding]
  /\ staged \in [Deliveries -> SUBSET Package]
  /\ applied \in [Deliveries -> SUBSET Package]
  /\ stray \in [Deliveries -> Nat]
  /\ orders \in Seq(Order)
  /\ packed \in [Deliveries -> SUBSET Package]
  /\ pc \in [Runs -> Pc]
  /\ phase \in [Runs -> {"submit", "poll"}]
  /\ after_id \in [Runs -> Nat]
  /\ queue \in [Runs -> SUBSET Deliveries]
  /\ row \in [Runs -> Picking]
  /\ token \in [Runs -> Nat \cup {NoToken}]
  /\ answer \in [Runs -> Answer]
  /\ reports \in [Runs -> SUBSET Package]
  /\ tokens \in Nat
  /\ trouble \in 0..MaxTrouble

\* KSP never has two orders for one allocation, whatever times out, is limited
\* (429), stops, or is claimed again.
AtMostOneOrder == \A d \in Deliveries : Cardinality(OrdersOf(d)) <= 1

\* An order that exists, or may still come to exist, is not behind a journal row
\* that would be posted.
NoSilentOrder ==
  \A d \in Deliveries :
    (OrdersOf(d) # {} \/ stray[d] > 0) =>
      binding[d].state \notin {"absent", "ready"}

\* What KSP ships is what Odoo released: an order holds the contents of the
\* delivery, also if it was released anew between the journal row and the claim.
OrderMatchesRelease ==
  \A i \in DOMAIN orders : orders[i].content = odoo[orders[i].code].content

\* A delivery that is claimed or submitted in Odoo can be taken up again: the
\* journal has its token, and the order Odoo names is KSP's for that delivery.
ClaimIsJournaled ==
  \A d \in Deliveries :
    /\ odoo[d].claim_token # NoToken =>
         binding[d].state # "absent" /\ binding[d].claim_token = odoo[d].claim_token
    /\ odoo[d].dispatch = "submitted" =>
         /\ odoo[d].wms_order_ref \in OrdersOf(d)
         /\ odoo[d].wms_order_ref = binding[d].order_id

\* Odoo moves the stock of a package once, although KSP may change what it
\* reports, and only a package that Odoo has is put down as applied.
PackageOnce ==
  \A d \in Deliveries :
    /\ \A x, y \in ledger[d] : x.id = y.id => x = y
    /\ applied[d] \subseteq ledger[d] /\ ledger[d] \subseteq staged[d]

\* The inductive invariant.  A journal row that is or was posted is for a
\* delivery that was claimed, and froze what is released ...
Frozen(d) ==
  /\ binding[d].state # "absent"
  /\ odoo[d].claimed /\ odoo[d].content = binding[d].content

Distinct(S) == \A x, y \in S : x.id = y.id => x = y

\* ... it has an order id as soon as KSP has answered, and KSP's order is its
\* only one and holds what it froze ...
DeliveryOK(d) ==
  /\ binding[d].state # "absent" => binding[d].claim_token # NoToken
  /\ odoo[d].claim_token # NoToken \/ odoo[d].dispatch # "queued"
       => odoo[d].claimed
  /\ binding[d].state \notin {"absent", "ready"} => Frozen(d)
  /\ binding[d].state \in {"absent", "ready", "posting"} => binding[d].order_id = 0
  /\ binding[d].state \in {"pending", "accepted", "acknowledged"}
       => binding[d].order_id # 0
  /\ binding[d].order_id # 0 => binding[d].order_id \in OrdersOf(d)
  /\ \A i, j \in OrdersOf(d) : i = j
  /\ \A i \in OrdersOf(d) : orders[i].content = binding[d].content
  /\ stray[d] > 0 => stray[d] = 1 /\ OrdersOf(d) = {}
  /\ OrdersOf(d) # {} \/ stray[d] > 0
       => binding[d].state \notin {"absent", "ready"}
  /\ Distinct(packed[d]) /\ Distinct(staged[d])
  /\ applied[d] \subseteq ledger[d] /\ ledger[d] \subseteq staged[d]

\* ... what a run has read or checked of it still holds ...
RunOK(r) ==
  LET d == Current(r)
  IN pc[r] \notin {"idle", "next"} =>
       /\ queue[r] # {}
       /\ pc[r] \in {"lookup", "stage", "claim", "reread"} =>
            /\ row[r].dispatch # "queued" => row[r].claimed
            /\ row[r].claimed => odoo[d].claimed /\ odoo[d].content = row[r].content
       /\ pc[r] = "stage" =>
            /\ token[r] # NoToken
            /\ row[r].dispatch # "queued" => binding[d].state # "absent"
       /\ pc[r] \in {"claim", "reread", "submit"} =>
            binding[d].state # "absent" /\ SameFrozen(r)
       /\ pc[r] = "submit" => Frozen(d)
       /\ pc[r] \in {"track", "record", "check", "ack", "acked"}
            => binding[d].order_id # 0
       /\ pc[r] = "record" =>
            /\ answer[r].order_id = binding[d].order_id
            /\ answer[r].state \in {"pending", "accepted", "uncertain"}
       /\ pc[r] = "snapshot" => Distinct(reports[r])
       /\ pc[r] \in {"apply", "mark"} => reports[r] \subseteq staged[d]
       /\ pc[r] = "mark" => reports[r] # {} /\ Event(r) \in ledger[d]

\* ... and one run at most posts it, which knows what KSP has done.
Posting(r) == pc[r] \in {"post", "await", "accept"}

PostingOK(r) ==
  LET d == Current(r)
      a == answer[r]
  IN Posting(r) =>
       /\ binding[d].state = "posting"
       /\ pc[r] \in {"post", "await"} \/ a.state = "ready"
            => OrdersOf(d) = {} /\ stray[d] = 0
       /\ pc[r] = "accept" =>
            \/ a.state \in {"ready", "uncertain"} /\ a.order_id = 0
            \/ a.state \in {"pending", "accepted"} /\ a.order_id \in OrdersOf(d)

OnePoster ==
  \A q, r \in Runs :
    Posting(q) /\ Posting(r) /\ Current(q) = Current(r) => q = r

IInv ==
  /\ TypeOK /\ ClaimIsJournaled
  /\ \A d \in Deliveries : DeliveryOK(d)
  /\ \A r \in Runs : RunOK(r) /\ PostingOK(r)
  /\ OnePoster

\* The connector posts at most once, except that KSP's 429 lets it post again.
IntentOf(b) ==
  CASE b.order_id # 0 -> "sent"
    [] b.order_id = 0 /\ b.state \in {"absent", "ready"} -> "waiting"
    [] b.order_id = 0 /\ b.state = "posting" -> "posting"
    [] OTHER -> "held"

Post == INSTANCE AtMostOncePost WITH
          Job <- Deliveries, Releasable <- TRUE,
          intent <- [d \in Deliveries |-> IntentOf(binding[d])],
          effects <- [d \in Deliveries |-> OrdersOf(d)]

PostSpec == Post!Spec

\* Every delivery ends acknowledged, or held for a person (posting, uncertain),
\* or in conflict with what the journal froze.
EveryDeliverySettles ==
  \A d \in Deliveries :
    <>[](\/ binding[d].state \in {"acknowledged", "posting", "uncertain"}
         \/ binding[d].content # odoo[d].content)
=============================================================================
