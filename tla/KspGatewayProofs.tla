--------------------------- MODULE KspGatewayProofs ---------------------------
(***************************************************************************)
(* Proofs about KspGateway, for any runs, deliveries, contents, packages   *)
(* and number of failures                                                  *)
(***************************************************************************)
EXTENDS KspGateway, TLAPS, WellFoundedInduction, FiniteSetTheorems

-----------------------------------------------------------------------------
(* What a step leaves as it is *)

\* The run q does not move.
LocalsSame(q) ==
  UNCHANGED <<pc[q], phase[q], queue[q], row[q], token[q], answer[q], reports[q]>>

\* Nothing that concerns delivery d changes.
DeliverySame(d) ==
  /\ UNCHANGED <<odoo[d], ledger[d], binding[d], staged[d], applied[d],
                 stray[d], packed[d]>>
  /\ OrdersOf(d)' = OrdersOf(d)
  /\ \A i \in OrdersOf(d) : orders'[i].content = orders[i].content

\* Nothing that a run relies on is taken back.
Grows(d) ==
  /\ binding[d].state # "absent" =>
       /\ binding'[d].state # "absent"
       /\ binding'[d].content = binding[d].content
       /\ binding'[d].claim_token = binding[d].claim_token
  /\ binding[d].order_id # 0 => binding'[d].order_id = binding[d].order_id
  /\ odoo[d].claimed => odoo'[d].claimed /\ odoo'[d].content = odoo[d].content
  /\ staged[d] \subseteq staged'[d] /\ ledger[d] \subseteq ledger'[d]
  /\ OrdersOf(d) \subseteq OrdersOf(d)'

\* Nothing that a run relies on while it posts changes.
PostsKept(d) ==
  /\ binding'[d].state = binding[d].state
  /\ OrdersOf(d) = {} /\ stray[d] = 0 => OrdersOf(d)' = {} /\ stray'[d] = 0

\* The claim in Odoo of delivery d is in the journal.
ClaimOK(d) ==
  /\ odoo[d].claim_token # NoToken =>
       binding[d].state # "absent" /\ binding[d].claim_token = odoo[d].claim_token
  /\ odoo[d].dispatch = "submitted" =>
       /\ odoo[d].wms_order_ref \in OrdersOf(d)
       /\ odoo[d].wms_order_ref = binding[d].order_id

OutsideOK ==
  /\ odoo \in [Deliveries -> Picking]
  /\ ledger \in [Deliveries -> SUBSET Package]
  /\ stray \in [Deliveries -> Nat]
  /\ orders \in Seq(Order)
  /\ packed \in [Deliveries -> SUBSET Package]

JournalOK ==
  /\ binding \in [Deliveries -> Binding]
  /\ staged \in [Deliveries -> SUBSET Package]
  /\ applied \in [Deliveries -> SUBSET Package]

LocalsOK ==
  /\ pc \in [Runs -> Pc]
  /\ phase \in [Runs -> {"submit", "poll"}]
  /\ after_id \in [Runs -> Nat]
  /\ queue \in [Runs -> SUBSET Deliveries]
  /\ row \in [Runs -> Picking]
  /\ token \in [Runs -> Nat \cup {NoToken}]
  /\ answer \in [Runs -> Answer]
  /\ reports \in [Runs -> SUBSET Package]

CountersOK == tokens \in Nat /\ trouble \in 0..MaxTrouble

LEMMA Types == TypeOK <=> OutsideOK /\ JournalOK /\ LocalsOK /\ CountersOK
BY DEF TypeOK, OutsideOK, JournalOK, LocalsOK, CountersOK

LEMMA TypesPrimed == OutsideOK' /\ JournalOK' /\ LocalsOK' /\ CountersOK' => TypeOK'
BY DEF TypeOK, OutsideOK, JournalOK, LocalsOK, CountersOK

LEMMA TypesKept ==
  /\ OutsideOK /\ UNCHANGED outside => OutsideOK'
  /\ JournalOK /\ UNCHANGED journal => JournalOK'
  /\ LocalsOK /\ UNCHANGED locals => LocalsOK'
  /\ CountersOK /\ UNCHANGED <<tokens, trouble>> => CountersOK'
  /\ CountersOK /\ Fault /\ UNCHANGED tokens => CountersOK'
<1>1. OutsideOK /\ UNCHANGED outside => OutsideOK'
  BY DEF OutsideOK, outside
<1>2. JournalOK /\ UNCHANGED journal => JournalOK'
  BY DEF JournalOK, journal
<1>3. LocalsOK /\ UNCHANGED locals => LocalsOK'
  BY DEF LocalsOK, locals
<1>4. CountersOK /\ UNCHANGED <<tokens, trouble>> => CountersOK'
  BY DEF CountersOK
<1>5. CountersOK /\ Fault /\ UNCHANGED tokens => CountersOK'
  BY ConstantsAssumption DEF CountersOK, Fault
<1> QED BY <1>1, <1>2, <1>3, <1>4, <1>5

\* The contents a delivery starts with.
LEMMA AContentIn == AContent \in Contents
BY ConstantsAssumption DEF AContent

LEMMA Nothing ==
  /\ NoRow \in Picking /\ NoAnswer \in Answer
  /\ NoBinding \in Binding /\ NoBinding.state = "absent" /\ NoBinding.order_id = 0
<1>1. AContent \in Contents
  BY AContentIn
<1> HIDE DEF AContent
<1>2. NoRow \in Picking
  BY <1>1 DEF NoRow, Picking
<1>3. NoAnswer \in Answer
  BY DEF NoAnswer, Answer, State
<1>4. NoBinding \in Binding /\ NoBinding.state = "absent" /\ NoBinding.order_id = 0
  BY <1>1 DEF NoBinding, Binding, State
<1> QED BY <1>2, <1>3, <1>4

\* Deliveries that there are have a least one.
LEMMA LeastIn ==
  ASSUME NEW S \in SUBSET Deliveries, S # {}
  PROVE  Least(S) \in S
<1> DEFINE L == OpToRel(<, Nat)
<1>1. S \subseteq Nat
  BY ConstantsAssumption
<1>2. IsWellFoundedOn(L, Nat)
  BY NatLessThanWellFounded, Zenon
<1>3. \E x \in S : \A y \in S : ~(<<y, x>> \in L)
  <2> HIDE DEF L
  <2> QED BY <1>1, <1>2, WFMin
<1>4. \A x, y \in Nat : y < x => <<y, x>> \in L
  BY Zenon DEF OpToRel
<1> HIDE DEF L
<1>5. \E x \in S : \A y \in S : ~(y < x)
  BY <1>1, <1>3, <1>4
<1>6. \E x \in S : \A y \in S : x <= y
  BY <1>1, <1>5
<1> QED BY <1>6 DEF Least

LEMMA CurrentIn ==
  ASSUME LocalsOK, NEW r \in Runs, queue[r] # {}
  PROVE  Current(r) \in Deliveries /\ Current(r) \in queue[r]
<1>1. queue[r] \in SUBSET Deliveries
  BY DEF LocalsOK
<1> QED BY <1>1, LeastIn DEF Current

\* A run that is busy has a delivery.
LEMMA BusyCurrent ==
  ASSUME IInv, NEW r \in Runs, pc[r] \notin {"idle", "next"}
  PROVE  Current(r) \in Deliveries
<1>1. queue[r] # {} /\ LocalsOK
  BY Types DEF IInv, RunOK
<1> QED BY <1>1, CurrentIn

-----------------------------------------------------------------------------
(* Runs that do not move keep what they rely on *)

LEMMA RunKept ==
  ASSUME IInv, NEW q \in Runs, LocalsSame(q), \A d \in Deliveries : Grows(d)
  PROVE  RunOK(q)'
<1> SUFFICES ASSUME pc[q] \notin {"idle", "next"}
             PROVE  RunOK(q)'
  BY DEF LocalsSame, RunOK
<1> PICK d : d = Current(q)
  OBVIOUS
<1>1. d \in Deliveries /\ Current(q)' = d
  BY BusyCurrent DEF LocalsSame, Current
<1>2. Grows(d) /\ RunOK(q) /\ LocalsSame(q)
  BY <1>1 DEF IInv
<1>3. Frozen(d) => Frozen(d)'
  BY <1>2 DEF Frozen, Grows
<1>4. Event(q)' = Event(q)
  BY DEF LocalsSame, Event
<1>5. binding[d].state # "absent" /\ SameFrozen(q) => SameFrozen(q)'
  BY <1>1, <1>2 DEF SameFrozen, Grows, LocalsSame
<1>6. Distinct(reports[q]) => Distinct(reports'[q])
  BY DEF LocalsSame
<1> HIDE DEF Distinct, Event, SameFrozen, Frozen, Current
<1> QED BY <1>1, <1>2, <1>3, <1>4, <1>5, <1>6 DEF RunOK, Grows, LocalsSame

LEMMA PostingKept ==
  ASSUME IInv, NEW q \in Runs, LocalsSame(q), \A d \in Deliveries : Grows(d),
         Posting(q) => PostsKept(Current(q))
  PROVE  PostingOK(q)'
<1> SUFFICES ASSUME Posting(q)
             PROVE  PostingOK(q)'
  BY DEF LocalsSame, Posting, PostingOK
<1> PICK d : d = Current(q)
  OBVIOUS
<1>1. d \in Deliveries /\ Current(q)' = d
  BY BusyCurrent DEF LocalsSame, Current, Posting
<1>2. Grows(d) /\ PostingOK(q) /\ LocalsSame(q) /\ PostsKept(d)
  BY <1>1 DEF IInv
<1> HIDE DEF Current
<1> QED BY <1>1, <1>2 DEF PostingOK, Posting, PostsKept, Grows, LocalsSame

-----------------------------------------------------------------------------
(* A step concerns one delivery, and moves one run at most *)

LEMMA SameKept ==
  ASSUME NEW d \in Deliveries, DeliverySame(d), DeliveryOK(d), ClaimOK(d)
  PROVE  Grows(d) /\ PostsKept(d) /\ DeliveryOK(d)' /\ ClaimOK(d)'
<1>1. Grows(d) /\ PostsKept(d) /\ ClaimOK(d)'
  BY DEF DeliverySame, Grows, PostsKept, ClaimOK
<1>2. DeliveryOK(d)'
  BY DEF DeliverySame, DeliveryOK, Frozen, Distinct
<1> QED BY <1>1, <1>2

LEMMA IInvParts ==
  IInv <=> /\ TypeOK /\ OnePoster
           /\ \A d \in Deliveries : DeliveryOK(d) /\ ClaimOK(d)
           /\ \A r \in Runs : RunOK(r) /\ PostingOK(r)
BY DEF IInv, ClaimIsJournaled, ClaimOK

LEMMA IInvPrimed ==
  /\ TypeOK' /\ OnePoster'
  /\ \A d \in Deliveries : DeliveryOK(d)' /\ ClaimOK(d)'
  /\ \A r \in Runs : RunOK(r)' /\ PostingOK(r)'
  => IInv'
BY DEF IInv, ClaimIsJournaled, ClaimOK

\* The run r goes on without a change of anything but its locals.
LEMMA LocalStep ==
  ASSUME IInv, NEW r \in Runs, UNCHANGED <<outside, journal>>, LocalsOK',
         CountersOK', \A q \in Runs \ {r} : LocalsSame(q),
         RunOK(r)', PostingOK(r)',
         Posting(r)' => Posting(r) /\ Current(r)' = Current(r)
  PROVE  IInv'
<1>1. TypeOK'
  <2>1. OutsideOK /\ JournalOK
    BY Types DEF IInv
  <2> QED BY <2>1, TypesKept, TypesPrimed
<1>2. \A d \in Deliveries : DeliverySame(d)
  BY DEF outside, journal, DeliverySame, OrdersOf
<1>3. \A d \in Deliveries :
        Grows(d) /\ PostsKept(d) /\ DeliveryOK(d)' /\ ClaimOK(d)'
  BY <1>2, SameKept, IInvParts
<1>4. ASSUME NEW q \in Runs PROVE RunOK(q)' /\ PostingOK(q)'
  <2>1. Posting(q) => PostsKept(Current(q))
    BY <1>3, BusyCurrent DEF Posting
  <2> QED BY <1>3, <2>1, RunKept, PostingKept
<1>5. OnePoster'
  <2>1. \A q \in Runs : Posting(q)' => Posting(q) /\ Current(q)' = Current(q)
    BY DEF LocalsSame, Posting, Current
  <2> QED BY <2>1 DEF IInv, OnePoster
<1> QED BY <1>1, <1>3, <1>4, <1>5, IInvPrimed

\* Delivery c changes, and the runs of Movers, one at most, go on.
LEMMA DeliveryStep ==
  ASSUME IInv, TypeOK', NEW c \in Deliveries, NEW Movers \in SUBSET Runs,
         \A q, r \in Movers : q = r,
         \A d \in Deliveries \ {c} : DeliverySame(d),
         Grows(c), DeliveryOK(c)', ClaimOK(c)',
         \A q \in Runs \ Movers :
           LocalsSame(q) /\ (Posting(q) /\ Current(q) = c => PostsKept(c)),
         \A r \in Movers :
           /\ RunOK(r)' /\ PostingOK(r)'
           /\ Posting(r)' => /\ Current(r)' = Current(r)
                             /\ \/ Posting(r)
                                \/ \A q \in Runs : Posting(q) => Current(q) # Current(r)
  PROVE  IInv'
<1>1. \A d \in Deliveries : Grows(d) /\ DeliveryOK(d)' /\ ClaimOK(d)'
  BY SameKept, IInvParts
<1>2. ASSUME NEW q \in Runs \ Movers PROVE RunOK(q)' /\ PostingOK(q)'
  <2>1. Posting(q) => PostsKept(Current(q))
    <3>1. \A d \in Deliveries \ {c} : PostsKept(d)
      BY SameKept, IInvParts
    <3> QED BY <3>1, BusyCurrent DEF Posting
  <2> QED BY <1>1, <2>1, RunKept, PostingKept
<1>3. OnePoster'
  <2>1. \A q \in Runs \ Movers :
          Posting(q)' => Posting(q) /\ Current(q)' = Current(q)
    BY DEF LocalsSame, Posting, Current
  <2>2. OnePoster
    BY DEF IInv
  <2> QED BY <2>1, <2>2 DEF OnePoster
<1> QED BY <1>1, <1>2, <1>3, IInvPrimed

-----------------------------------------------------------------------------
(* Where a run goes *)

\* The run r is at `to', with the same delivery and knowledge.
LEMMA StepLocals ==
  ASSUME LocalsOK, NEW r \in Runs, NEW from, NEW to \in Pc, Step(r, from, to)
  PROVE  /\ LocalsOK' /\ pc[r] = from /\ pc'[r] = to
         /\ UNCHANGED <<queue, row, token, answer, reports>>
         /\ \A q \in Runs \ {r} : LocalsSame(q)
         /\ Current(r)' = Current(r)
BY DEF Step, Goto, LocalsOK, LocalsSame, Current

\* A run that is done relies on nothing.
LEMMA NotBusy ==
  ASSUME NEW r \in Runs, pc'[r] \in {"idle", "next"}
  PROVE  RunOK(r)' /\ PostingOK(r)' /\ ~Posting(r)'
BY DEF RunOK, PostingOK, Posting

LEMMA LeaveLocals ==
  ASSUME LocalsOK, NEW r \in Runs, NEW from, Leave(r, from)
  PROVE  /\ LocalsOK' /\ pc[r] = from /\ pc'[r] = "next"
         /\ \A q \in Runs \ {r} : LocalsSame(q)
         /\ RunOK(r)' /\ PostingOK(r)' /\ ~Posting(r)'
<1>1. pc[r] = from /\ pc'[r] = "next" /\ \A q \in Runs \ {r} : LocalsSame(q)
  BY DEF Leave, Goto, LocalsOK, LocalsSame
<1>2. RunOK(r)' /\ PostingOK(r)' /\ ~Posting(r)'
  BY <1>1, NotBusy
<1>3. LocalsOK'
  BY Nothing DEF Leave, Goto, LocalsOK, Pc
<1> QED BY <1>1, <1>2, <1>3

-----------------------------------------------------------------------------
(* Steps that change the locals of a run only *)

\* A run gives a delivery or the whole tick up.
LEMMA IdleStep ==
  ASSUME IInv, NEW r \in Runs, UNCHANGED <<outside, journal>>, LocalsOK',
         CountersOK', \A q \in Runs \ {r} : LocalsSame(q),
         pc'[r] \in {"idle", "next"}
  PROVE  IInv'
BY NotBusy, LocalStep

LEMMA LeaveStep ==
  ASSUME IInv, NEW r \in Runs, NEW from, Leave(r, from),
         UNCHANGED <<outside, journal>>, CountersOK'
  PROVE  IInv'
<1>1. LocalsOK
  BY Types DEF IInv
<1> QED BY <1>1, LeaveLocals, IdleStep

\* A run goes on where it relies on what it has read or checked.
LEMMA GoStep ==
  ASSUME IInv, NEW r \in Runs, NEW from, NEW to \in Pc, Step(r, from, to),
         UNCHANGED <<outside, journal, tokens, trouble>>,
         queue[r] # {}, NEW d, d = Current(r),
         to \in {"claim", "reread", "submit", "await", "reconcile", "track", "ack", "packages"},
         to = "claim" => from = "stage" /\ binding[d].state # "absent" /\ SameFrozen(r),
         to = "reread" => from = "claim",
         to = "submit" => SameFrozen(r) /\ Frozen(d),
         to \in {"track", "ack"} => binding[d].order_id # 0,
         to = "await" => from = "post"
  PROVE  IInv'
<1>1. LocalsOK /\ CountersOK /\ RunOK(r) /\ PostingOK(r)
  BY Types DEF IInv
<1>2. /\ LocalsOK' /\ pc[r] = from /\ pc'[r] = to
      /\ UNCHANGED <<queue, row, token, answer, reports>>
      /\ \A q \in Runs \ {r} : LocalsSame(q)
      /\ Current(r)' = Current(r)
  BY <1>1, StepLocals
<1>3. UNCHANGED <<odoo, binding, orders, stray, staged, ledger>>
  BY DEF outside, journal
<1>4. CountersOK'
  BY <1>1, TypesKept
<1>5. RunOK(r)'
  <2>1. SameFrozen(r)' <=> SameFrozen(r)
    BY <1>2, <1>3 DEF SameFrozen
  <2>2. Frozen(d) => Frozen(d)' /\ binding'[d].state # "absent"
    BY <1>3 DEF Frozen
  <2> HIDE DEF SameFrozen, Frozen, Current, Event, Distinct
  <2> QED BY <1>1, <1>2, <1>3, <2>1, <2>2 DEF RunOK
<1>6. PostingOK(r)'
  <2>1. OrdersOf(d)' = OrdersOf(d)
    BY <1>3 DEF OrdersOf
  <2> HIDE DEF Current
  <2> QED BY <1>1, <1>2, <1>3, <2>1 DEF PostingOK, Posting
<1>7. Posting(r)' => Posting(r)
  BY <1>2 DEF Posting
<1> QED BY <1>2, <1>4, <1>5, <1>6, <1>7, LocalStep

LEMMA IdleSteps ==
  ASSUME IInv, NEW r \in Runs,
         \/ StartTick(r) \/ DiscoveryFails(r) \/ StartPolls(r) \/ EndTick(r)
         \/ Crash(r) /\ UNCHANGED stray
  PROVE  IInv'
<1>1. LocalsOK /\ CountersOK
  BY Types DEF IInv
<1>2. CASE StartTick(r)
  <2>1. Candidates(after_id[r]) \in SUBSET Deliveries
        /\ (Candidates(after_id[r]) # {} =>
              Least(Candidates(after_id[r])) \in Nat)
    <3> PICK found : found = Candidates(after_id[r])
      OBVIOUS
    <3>1. found \in SUBSET Deliveries
      BY LeastIn DEF Candidates
    <3> QED BY <3>1, LeastIn, ConstantsAssumption
  <2>2. /\ Goto(r, "idle", "next")
        /\ queue' = [queue EXCEPT ![r] = Candidates(after_id[r])]
        /\ phase' = [phase EXCEPT ![r] = "submit"]
        /\ after_id' = [after_id EXCEPT ![r] =
             IF Candidates(after_id[r]) # {} THEN Least(Candidates(after_id[r])) ELSE 0]
        /\ UNCHANGED <<outside, journal, row, token, answer, reports, tokens, trouble>>
    BY <1>2 DEF StartTick
  <2>3. LocalsOK'
    BY <1>1, <2>1, <2>2 DEF LocalsOK, Goto, Pc
  <2>4. pc'[r] = "next" /\ \A q \in Runs \ {r} : LocalsSame(q)
    BY <1>1, <2>2 DEF LocalsOK, LocalsSame, Goto
  <2>5. CountersOK'
    BY <1>1, <2>2, TypesKept
  <2> QED BY <2>2, <2>3, <2>4, <2>5, IdleStep
<1>3. CASE DiscoveryFails(r)
  <2>1. CountersOK'
    BY <1>1, <1>3, TypesKept DEF DiscoveryFails
  <2>2. LocalsOK' /\ pc'[r] = "next" /\ \A q \in Runs \ {r} : LocalsSame(q)
    BY <1>1, <1>3 DEF DiscoveryFails, LocalsOK, LocalsSame, Goto, Pc
  <2>3. UNCHANGED <<outside, journal>>
    BY <1>3 DEF DiscoveryFails
  <2> QED BY <2>1, <2>2, <2>3, IdleStep
<1>4. CASE StartPolls(r)
  <2>1. CountersOK'
    BY <1>1, <1>4, TypesKept DEF StartPolls
  <2>2. LocalsOK' /\ pc'[r] = "next" /\ \A q \in Runs \ {r} : LocalsSame(q)
    BY <1>1, <1>4 DEF StartPolls, LocalsOK, LocalsSame, Goto, Pc
  <2>3. UNCHANGED <<outside, journal>>
    BY <1>4 DEF StartPolls
  <2> QED BY <2>1, <2>2, <2>3, IdleStep
<1>5. CASE EndTick(r)
  <2>1. CountersOK'
    BY <1>1, <1>5, TypesKept DEF EndTick
  <2>2. LocalsOK' /\ pc'[r] = "idle" /\ \A q \in Runs \ {r} : LocalsSame(q)
    BY <1>1, <1>5, StepLocals DEF EndTick, Pc
  <2>3. UNCHANGED <<outside, journal>>
    BY <1>5 DEF EndTick
  <2> QED BY <2>1, <2>2, <2>3, IdleStep
<1>6. CASE Crash(r) /\ UNCHANGED stray
  <2>1. CountersOK'
    BY <1>1, <1>6, TypesKept DEF Crash
  <2>2. LocalsOK' /\ pc'[r] = "idle" /\ \A q \in Runs \ {r} : LocalsSame(q)
    BY <1>1, <1>6, Nothing DEF Crash, LocalsOK, LocalsSame, Goto, Pc
  <2>3. UNCHANGED <<outside, journal>>
    BY <1>6 DEF Crash, outside
  <2> QED BY <2>1, <2>2, <2>3, IdleStep
<1> QED BY <1>2, <1>3, <1>4, <1>5, <1>6

LEMMA LeaveSteps ==
  ASSUME IInv, NEW r \in Runs,
         \/ Skip(r) \/ LookupFails(r) \/ StageFails(r)
         \/ AcknowledgeRefused(r) \/ FetchRefused(r)
         \/ StagePackagesFails(r) \/ EndPackages(r)
         \/ OtherError(r) /\ UNCHANGED stray
         \/ ClaimUnheard(r) /\ UNCHANGED odoo
         \/ AcknowledgeUnheard(r) /\ UNCHANGED odoo
  PROVE  IInv'
<1>1. CountersOK
  BY Types DEF IInv
<1>2. /\ UNCHANGED <<outside, journal, tokens>>
      /\ UNCHANGED trouble \/ Fault
  BY DEF Skip, LookupFails, StageFails, AcknowledgeRefused, FetchRefused,
         StagePackagesFails, EndPackages, OtherError, ClaimUnheard,
         AcknowledgeUnheard, outside, journal
<1>3. \E from : Leave(r, from)
  BY DEF Skip, LookupFails, StageFails, AcknowledgeRefused, FetchRefused,
         StagePackagesFails, EndPackages, OtherError, ClaimUnheard,
         AcknowledgeUnheard
<1>4. CountersOK'
  BY <1>1, <1>2, TypesKept
<1> QED BY <1>2, <1>3, <1>4, LeaveStep

LEMMA GoSteps ==
  ASSUME IInv, NEW r \in Runs,
         \/ ClaimRefused(r) \/ Reread(r) \/ NoPost(r) \/ SendPost(r)
         \/ Reconcile(r) \/ Check(r) \/ Poll(r)
  PROVE  IInv'
<1> PICK d : d = Current(r)
  OBVIOUS
<1>1. CountersOK /\ RunOK(r) /\ PostingOK(r)
  BY Types DEF IInv
<1>2. UNCHANGED <<outside, journal, tokens, trouble>>
  BY DEF ClaimRefused, Reread, NoPost, SendPost, Reconcile, Check, Poll
<1>3. CountersOK'
  BY <1>1, <1>2, TypesKept
<1>4. ASSUME pc[r] \notin {"idle", "next"}
      PROVE  d \in Deliveries /\ DeliveryOK(d) /\ ClaimOK(d) /\ queue[r] # {}
  BY <1>1, <1>4, BusyCurrent, IInvParts DEF RunOK
<1>5. ASSUME NEW from, Leave(r, from) PROVE IInv'
  BY <1>2, <1>3, <1>5, LeaveStep
<1>6. CASE ClaimRefused(r)
  <2>1. Step(r, "claim", "reread") /\ pc[r] = "claim"
    BY <1>6 DEF ClaimRefused, Step, Goto
  <2> QED BY <1>2, <1>4, <2>1, GoStep DEF Pc
<1>7. CASE Reread(r)
  <2>1. CASE Mine(r)
    <3>1. Step(r, "reread", "submit") /\ pc[r] = "reread"
      BY <1>7, <2>1 DEF Reread, Step, Goto
    <3>2. SameFrozen(r) /\ binding[d].state # "absent"
      BY <1>1, <3>1 DEF RunOK
    <3>3. /\ odoo[d].claim_token = token[r] /\ odoo[d].content = row[r].content
          /\ binding[d].claim_token = token[r] /\ binding[d].content = row[r].content
      BY <2>1, <3>2 DEF Mine, SameFrozen
    <3>4. Frozen(d)
      BY <1>4, <3>1, <3>2, <3>3 DEF DeliveryOK, Frozen
    <3> QED BY <1>2, <1>4, <3>1, <3>2, <3>4, GoStep DEF Pc
  <2>2. CASE ~Mine(r)
    BY <1>5, <1>7, <2>2 DEF Reread
  <2> QED BY <2>1, <2>2
<1>8. CASE NoPost(r)
  <2>1. Step(r, "submit", "reconcile") /\ pc[r] = "submit"
    BY <1>8 DEF NoPost, Step, Goto
  <2> QED BY <1>2, <1>4, <2>1, GoStep DEF Pc
<1>9. CASE SendPost(r)
  <2>1. Step(r, "post", "await") /\ pc[r] = "post"
    BY <1>9 DEF SendPost, Step, Goto
  <2> QED BY <1>2, <1>4, <2>1, GoStep DEF Pc
<1>10. CASE Reconcile(r)
  <2>1. pc[r] = "reconcile"
    BY <1>10 DEF Reconcile
  <2>2. CASE binding[d].state = "pending"
    <3>1. Step(r, "reconcile", "track") /\ binding[d].order_id # 0
      BY <1>4, <1>10, <2>1, <2>2 DEF Reconcile, DeliveryOK
    <3> QED BY <1>2, <1>4, <2>1, <3>1, GoStep DEF Pc
  <2>3. CASE binding[d].state = "accepted"
    <3>1. Step(r, "reconcile", "ack") /\ binding[d].order_id # 0
      BY <1>4, <1>10, <2>1, <2>3 DEF Reconcile, DeliveryOK
    <3> QED BY <1>2, <1>4, <2>1, <3>1, GoStep DEF Pc
  <2>4. CASE binding[d].state \notin {"pending", "accepted"}
    <3>1. Leave(r, "reconcile")
      BY <1>10, <2>4 DEF Reconcile
    <3> QED BY <1>5, <3>1
  <2> QED BY <2>2, <2>3, <2>4
<1>11. CASE Check(r)
  <2>1. CASE binding[d].state = "accepted"
    <3>1. Step(r, "check", "ack") /\ pc[r] = "check"
      BY <1>11, <2>1 DEF Check
    <3>2. binding[d].order_id # 0
      BY <1>4, <2>1, <3>1 DEF DeliveryOK
    <3> QED BY <1>2, <1>4, <3>1, <3>2, GoStep DEF Pc
  <2>2. CASE binding[d].state # "accepted"
    BY <1>5, <1>11, <2>2 DEF Check
  <2> QED BY <2>1, <2>2
<1>12. CASE Poll(r)
  <2>1. /\ queue[r] # {}
        /\ Step(r, "next", IF binding[d].state = "acknowledged"
                           THEN "packages" ELSE "reconcile")
    BY <1>12 DEF Poll
  <2> QED BY <1>2, <2>1, GoStep DEF Pc
<1> QED BY <1>6, <1>7, <1>8, <1>9, <1>10, <1>11, <1>12

\* read_delivery: what is claimed when it is read stays claimed.
LEMMA ReadStep ==
  ASSUME IInv, NEW r \in Runs, Read(r)
  PROVE  IInv'
<1> PICK d : d = Current(r)
  OBVIOUS
<1>1. LocalsOK /\ CountersOK /\ OutsideOK /\ queue[r] # {}
  BY Types DEF IInv, Read
<1>2. d \in Deliveries /\ DeliveryOK(d) /\ odoo[d] \in Picking
  BY <1>1, CurrentIn DEF IInv, OutsideOK
<1>3. /\ Goto(r, "next", "lookup") /\ row' = [row EXCEPT ![r] = odoo[d]]
      /\ UNCHANGED <<outside, journal, phase, after_id, queue, token, answer,
                     reports, tokens, trouble>>
  BY DEF Read
<1>4. /\ LocalsOK' /\ pc'[r] = "lookup" /\ row'[r] = odoo[d]
      /\ \A q \in Runs \ {r} : LocalsSame(q)
      /\ Current(r)' = d
  <2>1. Pc # {} /\ "lookup" \in Pc
    BY DEF Pc
  <2> QED BY <1>1, <1>2, <1>3, <2>1 DEF LocalsOK, LocalsSame, Goto, Current
<1>5. CountersOK'
  BY <1>1, <1>3, TypesKept
<1>6. UNCHANGED odoo /\ (odoo[d].dispatch # "queued" => odoo[d].claimed)
  BY <1>2, <1>3 DEF outside, DeliveryOK
<1>7. RunOK(r)'
  <2> HIDE DEF Current, Distinct, Event, SameFrozen, Frozen
  <2> QED BY <1>1, <1>3, <1>4, <1>6 DEF RunOK
<1>8. PostingOK(r)' /\ ~Posting(r)'
  BY <1>4 DEF PostingOK, Posting
<1> QED BY <1>3, <1>4, <1>5, <1>7, <1>8, LocalStep

\* store.get: there is a token.
LEMMA LookupStep ==
  ASSUME IInv, NEW r \in Runs, Lookup(r)
  PROVE  IInv'
<1> PICK d : d = Current(r)
  OBVIOUS
<1>1. /\ LocalsOK /\ CountersOK /\ JournalOK /\ RunOK(r)
      /\ pc[r] = "lookup" /\ Resumable(r)
  BY Types DEF IInv, Lookup, Goto
<1>2. d \in Deliveries /\ DeliveryOK(d) /\ binding[d] \in Binding
  BY <1>1, BusyCurrent DEF IInv, JournalOK
<1> PICK t : t = IF binding[d].state = "absent" THEN tokens + 1
                 ELSE binding[d].claim_token
  OBVIOUS
<1>3. /\ Goto(r, "lookup", "stage") /\ token' = [token EXCEPT ![r] = t]
      /\ tokens' \in {tokens, tokens + 1}
      /\ UNCHANGED <<outside, journal, phase, after_id, queue, row, answer,
                     reports, trouble>>
  BY DEF Lookup
<1>4. t \in Nat \cup {NoToken} /\ t # NoToken
  BY <1>1, <1>2, ConstantsAssumption DEF CountersOK, Binding, DeliveryOK
<1>5. /\ LocalsOK' /\ pc'[r] = "stage" /\ token'[r] = t
      /\ \A q \in Runs \ {r} : LocalsSame(q)
      /\ Current(r)' = d
  <2>1. "stage" \in Pc
    BY DEF Pc
  <2> QED BY <1>1, <1>3, <1>4, <2>1 DEF LocalsOK, LocalsSame, Goto, Current
<1>6. CountersOK'
  BY <1>1, <1>3 DEF CountersOK
<1>7. /\ UNCHANGED <<odoo, binding>>
      /\ row[r].dispatch # "queued" => binding[d].state # "absent"
  BY <1>1, <1>3 DEF outside, journal, Resumable
<1>8. RunOK(r)'
  <2> HIDE DEF Current, Distinct, Event, SameFrozen, Frozen
  <2> QED BY <1>1, <1>3, <1>4, <1>5, <1>7 DEF RunOK
<1>9. PostingOK(r)' /\ ~Posting(r)'
  BY <1>5 DEF PostingOK, Posting
<1> QED BY <1>3, <1>5, <1>6, <1>8, <1>9, LocalStep

\* KSP has answered, or the run does not wait any longer.
LEMMA AnsweredLocals ==
  ASSUME LocalsOK, NEW r \in Runs, NEW a \in Answer, Goto(r, "await", "accept"),
         answer' = [answer EXCEPT ![r] = a],
         UNCHANGED <<phase, after_id, queue, row, token, reports>>
  PROVE  /\ LocalsOK' /\ pc[r] = "await" /\ pc'[r] = "accept" /\ answer'[r] = a
         /\ \A q \in Runs \ {r} : LocalsSame(q)
         /\ Current(r)' = Current(r)
         /\ Posting(r) /\ Posting(r)'
<1>1. "accept" \in Pc
  BY DEF Pc
<1>2. /\ LocalsOK' /\ pc[r] = "await" /\ pc'[r] = "accept" /\ answer'[r] = a
      /\ \A q \in Runs \ {r} : LocalsSame(q)
      /\ Current(r)' = Current(r)
  BY <1>1 DEF LocalsOK, LocalsSame, Goto, Current
<1>3. Posting(r) /\ Posting(r)'
  BY <1>2 DEF Posting
<1> QED BY <1>2, <1>3

\* In "accept" the run relies on its delivery only.
LEMMA AcceptRunOK ==
  ASSUME IInv, NEW r \in Runs, pc[r] = "await", pc'[r] = "accept", UNCHANGED queue
  PROVE  RunOK(r)'
<1>1. queue[r] # {}
  BY DEF IInv, RunOK
<1> HIDE DEF Current, Distinct, Event, SameFrozen, Frozen
<1> QED BY <1>1 DEF RunOK

\* 429: nothing was created, and nothing is under way.
LEMMA AnswerTooManyStep ==
  ASSUME IInv, NEW r \in Runs, AnswerTooMany(r)
  PROVE  IInv'
<1> PICK d : d = Current(r)
  OBVIOUS
<1> PICK a : a = [state |-> "ready", order_id |-> 0]
  OBVIOUS
<1>1. LocalsOK /\ CountersOK /\ PostingOK(r)
  BY Types DEF IInv
<1>2. a \in Answer /\ a.state = "ready" /\ a.order_id = 0
  BY DEF Answer, State
<1>3. /\ Goto(r, "await", "accept") /\ answer' = [answer EXCEPT ![r] = a]
      /\ UNCHANGED <<phase, after_id, queue, row, token, reports>>
      /\ UNCHANGED <<outside, journal, tokens>> /\ Fault
  BY DEF AnswerTooMany, Answered, outside
<1>4. /\ LocalsOK' /\ pc[r] = "await" /\ pc'[r] = "accept" /\ answer'[r] = a
      /\ \A q \in Runs \ {r} : LocalsSame(q)
      /\ Current(r)' = d
      /\ Posting(r) /\ Posting(r)'
  BY <1>1, <1>2, <1>3, AnsweredLocals
<1>5. CountersOK'
  BY <1>1, <1>3, TypesKept
<1>6. UNCHANGED <<binding, stray>> /\ OrdersOf(d)' = OrdersOf(d)
  BY <1>3 DEF outside, journal, OrdersOf
<1>7. PostingOK(r)'
  <2> HIDE DEF Current
  <2> QED BY <1>1, <1>2, <1>4, <1>6 DEF PostingOK
<1>8. RunOK(r)'
  BY <1>3, <1>4, AcceptRunOK
<1> QED BY <1>3, <1>4, <1>5, <1>7, <1>8, LocalStep

\* What KSP tells of the order that the journal names.
LEMMA TrackStep ==
  ASSUME IInv, NEW r \in Runs, Track(r)
  PROVE  IInv'
<1> PICK d : d = Current(r)
  OBVIOUS
<1> PICK id : id = binding[d].order_id
  OBVIOUS
<1> PICK a : a = [state |-> StateFor(orders[id].status), order_id |-> id]
  OBVIOUS
<1>1. /\ LocalsOK /\ CountersOK /\ JournalOK /\ OutsideOK /\ RunOK(r)
      /\ pc[r] = "track"
  BY Types DEF IInv, Track, Goto
<1>2. d \in Deliveries /\ DeliveryOK(d) /\ binding[d] \in Binding
  BY <1>1, BusyCurrent DEF IInv, JournalOK
<1>3. id # 0 /\ id \in Nat /\ id \in OrdersOf(d) /\ queue[r] # {}
  BY <1>1, <1>2 DEF RunOK, Binding, DeliveryOK
<1>4. orders[id] \in Order
  BY <1>1, <1>3 DEF OutsideOK, OrdersOf
<1>5. /\ a \in Answer /\ a.order_id = id
      /\ a.state \in {"pending", "accepted", "uncertain"}
  BY <1>3, <1>4 DEF Answer, State, StateFor, Order
<1>6. /\ Goto(r, "track", "record") /\ answer' = [answer EXCEPT ![r] = a]
      /\ UNCHANGED <<outside, journal, phase, after_id, queue, row, token,
                     reports, tokens, trouble>>
  BY DEF Track
<1>7. /\ LocalsOK' /\ pc'[r] = "record" /\ answer'[r] = a
      /\ \A q \in Runs \ {r} : LocalsSame(q)
      /\ Current(r)' = d
  <2>1. "record" \in Pc
    BY DEF Pc
  <2> QED BY <1>1, <1>5, <1>6, <2>1 DEF LocalsOK, LocalsSame, Goto, Current
<1>8. CountersOK'
  BY <1>1, <1>6, TypesKept
<1>9. UNCHANGED binding
  BY <1>6 DEF journal
<1>10. RunOK(r)'
  <2> HIDE DEF Current, Distinct, Event, SameFrozen, Frozen
  <2> QED BY <1>3, <1>5, <1>6, <1>7, <1>9 DEF RunOK
<1>11. PostingOK(r)' /\ ~Posting(r)'
  BY <1>7 DEF PostingOK, Posting
<1> QED BY <1>6, <1>7, <1>8, <1>10, <1>11, LocalStep

\* The packages KSP reports.
LEMMA FetchPackagesStep ==
  ASSUME IInv, NEW r \in Runs, FetchPackages(r)
  PROVE  IInv'
<1> PICK d : d = Current(r)
  OBVIOUS
<1>1. /\ LocalsOK /\ CountersOK /\ OutsideOK /\ RunOK(r)
      /\ pc[r] = "packages"
  BY Types DEF IInv, FetchPackages, Goto
<1>2. /\ d \in Deliveries /\ Distinct(packed[d])
      /\ packed[d] \in SUBSET Package /\ queue[r] # {}
  BY <1>1, BusyCurrent DEF IInv, OutsideOK, DeliveryOK, RunOK
<1>3. /\ Goto(r, "packages", "snapshot")
      /\ reports' = [reports EXCEPT ![r] = packed[d]]
      /\ UNCHANGED <<outside, journal, phase, after_id, queue, row, token, answer,
                     tokens, trouble>>
  BY DEF FetchPackages
<1>4. /\ LocalsOK' /\ pc'[r] = "snapshot" /\ reports'[r] = packed[d]
      /\ \A q \in Runs \ {r} : LocalsSame(q)
  <2>1. "snapshot" \in Pc
    BY DEF Pc
  <2> QED BY <1>1, <1>2, <1>3, <2>1 DEF LocalsOK, LocalsSame, Goto
<1>5. CountersOK'
  BY <1>1, <1>3, TypesKept
<1>6. RunOK(r)'
  <2>1. Distinct(reports'[r])
    BY <1>2, <1>4
  <2>2. Distinct(reports[r])'
    BY <2>1 DEF Distinct
  <2> HIDE DEF Current, Distinct, Event, SameFrozen, Frozen
  <2> QED BY <1>2, <1>3, <1>4, <2>2 DEF RunOK
<1>7. PostingOK(r)' /\ ~Posting(r)'
  BY <1>4 DEF PostingOK, Posting
<1> QED BY <1>3, <1>4, <1>5, <1>6, <1>7, LocalStep

-----------------------------------------------------------------------------
(* Steps of Odoo, KSP and the warehouse *)

\* Delivery c changes, and no run moves.
LEMMA OutsideStep ==
  ASSUME IInv, OutsideOK', CountersOK', UNCHANGED <<journal, locals>>,
         NEW c \in Deliveries,
         \A d \in Deliveries \ {c} : DeliverySame(d),
         Grows(c), DeliveryOK(c)', ClaimOK(c)',
         \A q \in Runs : Posting(q) /\ Current(q) = c => PostsKept(c)
  PROVE  IInv'
<1>1. TypeOK'
  <2>1. JournalOK /\ LocalsOK
    BY Types DEF IInv
  <2> QED BY <2>1, TypesKept, TypesPrimed
<1>2. \A q \in Runs : LocalsSame(q)
  BY DEF locals, LocalsSame
<1> PICK M : M = {}
  OBVIOUS
<1>3. M \in SUBSET Runs /\ Runs \ M = Runs /\ \A q : q \notin M
  OBVIOUS
<1> QED BY <1>1, <1>2, <1>3, DeliveryStep

LEMMA RereleaseStep ==
  ASSUME IInv, NEW d \in Deliveries, NEW c \in Contents, Rerelease(d, c)
  PROVE  IInv'
<1>1. /\ OutsideOK /\ CountersOK /\ DeliveryOK(d) /\ ClaimOK(d)
      /\ odoo[d] \in Picking
  BY Types, IInvParts DEF OutsideOK
<1>2. /\ odoo' = [odoo EXCEPT ![d] = odoo'[d]]
      /\ odoo'[d] = [odoo[d] EXCEPT !.content = c]
      /\ ~odoo[d].claimed
      /\ UNCHANGED <<ledger, stray, orders, packed, journal, locals, tokens, trouble>>
  BY <1>1 DEF Rerelease, OutsideOK
<1>3. /\ odoo'[d] \in Picking
      /\ odoo'[d].dispatch = odoo[d].dispatch /\ odoo'[d].claimed = odoo[d].claimed
      /\ odoo'[d].claim_token = odoo[d].claim_token
      /\ odoo'[d].wms_order_ref = odoo[d].wms_order_ref
  BY <1>1, <1>2 DEF Picking
<1>4. OutsideOK'
  BY <1>1, <1>2, <1>3 DEF OutsideOK
<1>5. CountersOK'
  BY <1>1, <1>2, TypesKept
<1>6. /\ UNCHANGED <<ledger, stray, orders, packed, binding, staged, applied>>
      /\ \A e : OrdersOf(e)' = OrdersOf(e)
      /\ \A e \in Deliveries \ {d} : odoo'[e] = odoo[e]
  BY <1>1, <1>2 DEF journal, OrdersOf, OutsideOK
<1>7. \A e \in Deliveries \ {d} : DeliverySame(e)
  BY <1>6 DEF DeliverySame
<1>8. Grows(d) /\ PostsKept(d) /\ ClaimOK(d)'
  BY <1>1, <1>2, <1>3, <1>6 DEF Grows, PostsKept, ClaimOK
<1>9. DeliveryOK(d)'
  BY <1>1, <1>2, <1>3, <1>6 DEF DeliveryOK, Frozen, Distinct
<1> QED BY <1>2, <1>4, <1>5, <1>7, <1>8, <1>9, OutsideStep

LEMMA RequeueStep ==
  ASSUME IInv, NEW d \in Deliveries, Requeue(d)
  PROVE  IInv'
<1>1. /\ OutsideOK /\ CountersOK /\ DeliveryOK(d) /\ ClaimOK(d)
      /\ odoo[d] \in Picking
  BY Types, IInvParts DEF OutsideOK
<1>2. /\ odoo' = [odoo EXCEPT ![d] = odoo'[d]]
      /\ odoo'[d] = [odoo[d] EXCEPT !.dispatch = "queued", !.claim_token = NoToken]
      /\ odoo[d].dispatch = "submitting" /\ Fault
      /\ UNCHANGED <<ledger, stray, orders, packed, journal, locals, tokens>>
  BY <1>1 DEF Requeue, OutsideOK
<1>3. /\ odoo'[d] \in Picking
      /\ odoo'[d].dispatch = "queued" /\ odoo'[d].claimed = odoo[d].claimed
      /\ odoo'[d].claim_token = NoToken /\ odoo'[d].content = odoo[d].content
  BY <1>1, <1>2 DEF Picking
<1>4. OutsideOK'
  BY <1>1, <1>2, <1>3 DEF OutsideOK
<1>5. CountersOK'
  BY <1>1, <1>2, TypesKept
<1>6. /\ UNCHANGED <<ledger, stray, orders, packed, binding, staged, applied>>
      /\ \A e : OrdersOf(e)' = OrdersOf(e)
      /\ \A e \in Deliveries \ {d} : odoo'[e] = odoo[e]
  BY <1>1, <1>2 DEF journal, OrdersOf, OutsideOK
<1>7. \A e \in Deliveries \ {d} : DeliverySame(e)
  BY <1>6 DEF DeliverySame
<1>8. Grows(d) /\ PostsKept(d) /\ ClaimOK(d)'
  BY <1>1, <1>2, <1>3, <1>6 DEF Grows, PostsKept, ClaimOK
<1>9. DeliveryOK(d)'
  BY <1>1, <1>2, <1>3, <1>6 DEF DeliveryOK, Frozen, Distinct
<1> QED BY <1>2, <1>4, <1>5, <1>7, <1>8, <1>9, OutsideStep

\* Packages are reported, changed or taken back, and stay distinct.
LEMMA PackagesStep ==
  ASSUME IInv, NEW d \in Deliveries,
         \/ \E p \in Packages : Pack(d, p)
         \/ \E x \in packed[d] : Repack(d, x)
  PROVE  IInv'
<1>1. /\ OutsideOK /\ CountersOK /\ DeliveryOK(d) /\ ClaimOK(d)
      /\ packed[d] \in SUBSET Package /\ Distinct(packed[d])
  BY Types, IInvParts DEF OutsideOK, DeliveryOK
<1>2. /\ packed' = [packed EXCEPT ![d] = packed'[d]]
      /\ packed'[d] \in SUBSET Package /\ Distinct(packed'[d])
  <2>1. ASSUME NEW p \in Packages, Pack(d, p)
        PROVE  /\ packed' = [packed EXCEPT ![d] = packed'[d]]
               /\ packed'[d] \in SUBSET Package /\ Distinct(packed'[d])
    <3> PICK x : x = [id |-> p, content |-> AContent]
      OBVIOUS
    <3>1. x \in Package /\ x.id = p
      BY AContentIn DEF Package
    <3>2. packed' = [packed EXCEPT ![d] = @ \cup {x}]
          /\ \A y \in packed[d] : y.id # p
      BY <2>1 DEF Pack
    <3>3. packed'[d] = packed[d] \cup {x}
          /\ packed' = [packed EXCEPT ![d] = packed'[d]]
      BY <1>1, <3>2 DEF OutsideOK
    <3> QED BY <1>1, <3>1, <3>2, <3>3 DEF Distinct
  <2>2. ASSUME NEW x \in packed[d], Repack(d, x)
        PROVE  /\ packed' = [packed EXCEPT ![d] = packed'[d]]
               /\ packed'[d] \in SUBSET Package /\ Distinct(packed'[d])
    <3>1. CASE packed' = [packed EXCEPT ![d] = @ \ {x}]
      <4>1. packed'[d] = packed[d] \ {x}
            /\ packed' = [packed EXCEPT ![d] = packed'[d]]
        BY <1>1, <3>1 DEF OutsideOK
      <4> QED BY <1>1, <4>1 DEF Distinct
    <3>2. ASSUME NEW c \in Contents,
                 packed' = [packed EXCEPT ![d] =
                              (@ \ {x}) \cup {[x EXCEPT !.content = c]}]
          PROVE  /\ packed' = [packed EXCEPT ![d] = packed'[d]]
                 /\ packed'[d] \in SUBSET Package /\ Distinct(packed'[d])
      <4> PICK y : y = [x EXCEPT !.content = c]
        OBVIOUS
      <4>1. y \in Package /\ y.id = x.id
        BY <1>1 DEF Package
      <4>2. packed'[d] = (packed[d] \ {x}) \cup {y}
            /\ packed' = [packed EXCEPT ![d] = packed'[d]]
        BY <1>1, <3>2 DEF OutsideOK
      <4> QED BY <1>1, <4>1, <4>2 DEF Distinct
    <3> QED BY <2>2, <3>1, <3>2 DEF Repack
  <2> QED BY <2>1, <2>2
<1>3. /\ UNCHANGED <<odoo, ledger, stray, orders, journal, locals, tokens>>
      /\ UNCHANGED trouble \/ Fault
  BY DEF Pack, Repack
<1>4. OutsideOK'
  BY <1>1, <1>2, <1>3 DEF OutsideOK
<1>5. CountersOK'
  BY <1>1, <1>3, TypesKept
<1>6. /\ UNCHANGED <<odoo, ledger, stray, orders, binding, staged, applied>>
      /\ \A e : OrdersOf(e)' = OrdersOf(e)
      /\ \A e \in Deliveries \ {d} : packed'[e] = packed[e]
  BY <1>1, <1>2, <1>3 DEF journal, OrdersOf, OutsideOK
<1>7. \A e \in Deliveries \ {d} : DeliverySame(e)
  BY <1>6 DEF DeliverySame
<1>8. Grows(d) /\ PostsKept(d) /\ ClaimOK(d)'
  BY <1>1, <1>6 DEF Grows, PostsKept, ClaimOK
<1>9. DeliveryOK(d)'
  <2>1. Distinct(packed[d])'
    BY <1>2 DEF Distinct
  <2>2. (Distinct(staged[d]) => Distinct(staged[d])') /\ (Frozen(d) => Frozen(d)')
    BY <1>6 DEF Distinct, Frozen
  <2> QED BY <1>1, <1>6, <2>1, <2>2 DEF DeliveryOK
<1> QED BY <1>3, <1>4, <1>5, <1>7, <1>8, <1>9, OutsideStep

\* The order moves on at the warehouse.
LEMMA OrderMovesStep ==
  ASSUME IInv, NEW i, NEW from, NEW to \in {"sent", "closed"},
         OrderMoves(i, from, to), UNCHANGED trouble \/ Fault
  PROVE  IInv'
<1>1. /\ OutsideOK /\ CountersOK /\ orders \in Seq(Order) /\ i \in DOMAIN orders
      /\ orders' = [orders EXCEPT ![i].status = to]
      /\ UNCHANGED <<odoo, ledger, stray, packed, journal, locals, tokens>>
  BY Types DEF IInv, OutsideOK, OrderMoves
<1>2. orders[i] \in Order /\ orders[i].code \in Deliveries
  <2>1. orders[i] \in Order
    BY <1>1
  <2> QED BY <2>1 DEF Order
<1> PICK o : o = [orders[i] EXCEPT !.status = to]
  OBVIOUS
<1>3. /\ o \in Order /\ o.code = orders[i].code /\ o.content = orders[i].content
  BY <1>2 DEF Order
<1>4. orders' = [orders EXCEPT ![i] = o]
  BY <1>1
<1>5. /\ orders' \in Seq(Order) /\ DOMAIN orders' = DOMAIN orders
      /\ \A j \in DOMAIN orders : orders'[j] = IF j = i THEN o ELSE orders[j]
  BY <1>1, <1>3, <1>4
<1>6. /\ UNCHANGED <<odoo, ledger, stray, packed, binding, staged, applied>>
      /\ \A e : OrdersOf(e)' = OrdersOf(e)
      /\ \A j \in DOMAIN orders : orders'[j].content = orders[j].content
  BY <1>1, <1>3, <1>5 DEF journal, OrdersOf
<1>7. \A e \in Deliveries : DeliverySame(e)
  BY <1>6 DEF DeliverySame, OrdersOf
<1>8. OutsideOK'
  BY <1>1, <1>5 DEF OutsideOK
<1>9. CountersOK'
  BY <1>1, TypesKept
<1> PICK c \in Deliveries : c = orders[i].code
  BY <1>2
<1>10. Grows(c) /\ PostsKept(c) /\ DeliveryOK(c)' /\ ClaimOK(c)'
  BY <1>7, SameKept, IInvParts
<1> QED BY <1>1, <1>7, <1>8, <1>9, <1>10, OutsideStep

\* An order more, for delivery c.
LEMMA Appending ==
  ASSUME OutsideOK, NEW c \in Deliveries, NEW o \in Order, o.code = c,
         orders' = Append(orders, o)
  PROVE  /\ orders' \in Seq(Order)
         /\ Len(orders) + 1 \in Nat \ {0}
         /\ OrdersOf(c)' = OrdersOf(c) \cup {Len(orders) + 1}
         /\ \A d \in Deliveries \ {c} : OrdersOf(d)' = OrdersOf(d)
         /\ \A i \in DOMAIN orders : orders'[i] = orders[i]
         /\ orders'[Len(orders) + 1] = o
<1>1. orders \in Seq(Order)
  BY DEF OutsideOK
<1>2. /\ orders' \in Seq(Order)
      /\ Len(orders) \in Nat
      /\ DOMAIN orders = 1 .. Len(orders)
      /\ DOMAIN orders' = 1 .. (Len(orders) + 1)
      /\ \A i \in 1 .. Len(orders) : orders'[i] = orders[i]
      /\ orders'[Len(orders) + 1] = o
  BY <1>1
<1>3. DOMAIN orders' = DOMAIN orders \cup {Len(orders) + 1}
      /\ Len(orders) + 1 \notin DOMAIN orders
  BY <1>2
<1>4. OrdersOf(c)' = OrdersOf(c) \cup {Len(orders) + 1}
  BY <1>2, <1>3 DEF OrdersOf
<1>5. \A d \in Deliveries \ {c} : OrdersOf(d)' = OrdersOf(d)
  BY <1>2, <1>3 DEF OrdersOf
<1> QED BY <1>2, <1>4, <1>5

\* KSP creates the order of c, which is posted or was, and has none; or a
\* request for it ends without effect, or is left under way.
LEMMA CreatedOK ==
  ASSUME OutsideOK, JournalOK, NEW c \in Deliveries, DeliveryOK(c), ClaimOK(c),
         binding[c].state \notin {"absent", "ready"}, OrdersOf(c) = {},
         UNCHANGED <<odoo, ledger, packed, binding, staged, applied>>,
         stray' \in [Deliveries -> Nat],
         \A d \in Deliveries \ {c} : stray'[d] = stray[d],
         \/ UNCHANGED orders /\ stray'[c] \in {0, 1}
         \/ /\ \E s \in {"received", "sent"} : Created(c, s)
            /\ stray'[c] = 0
  PROVE  /\ OutsideOK'
         /\ \A d \in Deliveries \ {c} : DeliverySame(d)
         /\ Grows(c) /\ DeliveryOK(c)' /\ ClaimOK(c)'
<1>1. /\ orders' \in Seq(Order)
      /\ \A d \in Deliveries \ {c} : OrdersOf(d)' = OrdersOf(d)
      /\ \A i \in DOMAIN orders : orders'[i] = orders[i]
      /\ \A i, j \in OrdersOf(c)' : i = j
      /\ \A i \in OrdersOf(c)' : orders'[i].content = binding[c].content
      /\ stray'[c] > 0 => OrdersOf(c)' = {}
  <2>1. CASE UNCHANGED orders
    BY <2>1 DEF OutsideOK, OrdersOf
  <2>2. ASSUME NEW s \in {"received", "sent"}, Created(c, s), stray'[c] = 0
        PROVE  /\ orders' \in Seq(Order)
               /\ \A d \in Deliveries \ {c} : OrdersOf(d)' = OrdersOf(d)
               /\ \A i \in DOMAIN orders : orders'[i] = orders[i]
               /\ \A i, j \in OrdersOf(c)' : i = j
               /\ \A i \in OrdersOf(c)' : orders'[i].content = binding[c].content
    <3> PICK o : o = [code |-> c, content |-> binding[c].content, status |-> s]
      OBVIOUS
    <3>1. o \in Order /\ o.code = c /\ o.content = binding[c].content
      BY DEF Order, JournalOK, Binding
    <3>2. orders' = Append(orders, o)
      BY <2>2 DEF Created
    <3>3. /\ orders' \in Seq(Order)
          /\ OrdersOf(c)' = {Len(orders) + 1}
          /\ \A d \in Deliveries \ {c} : OrdersOf(d)' = OrdersOf(d)
          /\ \A i \in DOMAIN orders : orders'[i] = orders[i]
          /\ orders'[Len(orders) + 1] = o
      BY <3>1, <3>2, Appending
    <3> QED BY <3>1, <3>3
  <2> QED BY <2>1, <2>2
<1>2. OutsideOK'
  BY <1>1 DEF OutsideOK
<1>3. \A d \in Deliveries \ {c} : DeliverySame(d)
  BY <1>1 DEF DeliverySame, OrdersOf
<1>4. Grows(c)
  BY DEF Grows
<1>5. binding[c].order_id = 0 /\ stray'[c] \in {0, 1} /\ odoo[c].dispatch # "submitted"
  BY DEF DeliveryOK, ClaimOK
<1>6. ClaimOK(c)'
  BY <1>5 DEF ClaimOK
<1>7. DeliveryOK(c)'
  <2>1. /\ Distinct(packed[c]) => Distinct(packed[c])'
        /\ Distinct(staged[c]) => Distinct(staged[c])'
        /\ Frozen(c) => Frozen(c)'
    BY DEF Distinct, Frozen
  <2> QED BY <1>1, <1>5, <2>1 DEF DeliveryOK
<1> QED BY <1>2, <1>3, <1>4, <1>6, <1>7

\* A request whose sender no longer waits.
LEMMA HandleStrayStep ==
  ASSUME IInv, NEW c \in Deliveries, HandleStray(c)
  PROVE  IInv'
<1>1. /\ OutsideOK /\ JournalOK /\ CountersOK /\ DeliveryOK(c) /\ ClaimOK(c)
  BY Types, IInvParts
<1>2. /\ stray[c] > 0 /\ stray' = [stray EXCEPT ![c] = @ - 1]
      /\ Created(c, "received") \/ UNCHANGED orders
      /\ UNCHANGED <<odoo, ledger, packed, journal, locals, tokens, trouble>>
  BY DEF HandleStray
<1>3. /\ stray[c] = 1 /\ OrdersOf(c) = {}
      /\ binding[c].state \notin {"absent", "ready"}
  BY <1>1, <1>2 DEF DeliveryOK
<1>4. /\ stray' \in [Deliveries -> Nat] /\ stray'[c] = 0
      /\ \A d \in Deliveries \ {c} : stray'[d] = stray[d]
  BY <1>1, <1>2, <1>3 DEF OutsideOK
<1>5. /\ OutsideOK'
      /\ \A d \in Deliveries \ {c} : DeliverySame(d)
      /\ Grows(c) /\ DeliveryOK(c)' /\ ClaimOK(c)'
  BY <1>1, <1>2, <1>3, <1>4, CreatedOK DEF journal
<1>6. PostsKept(c)
  BY <1>2, <1>3 DEF PostsKept, journal
<1>7. CountersOK'
  BY <1>1, <1>2, TypesKept
<1> QED BY <1>2, <1>5, <1>6, <1>7, OutsideStep

-----------------------------------------------------------------------------
(* Steps in which a run changes a delivery *)

\* Delivery c changes, and the run r goes on.
LEMMA RunStep ==
  ASSUME IInv, OutsideOK', JournalOK', LocalsOK', CountersOK',
         NEW r \in Runs, NEW c \in Deliveries,
         \A d \in Deliveries \ {c} : DeliverySame(d),
         Grows(c), DeliveryOK(c)', ClaimOK(c)',
         \A q \in Runs \ {r} :
           LocalsSame(q) /\ (Posting(q) /\ Current(q) = c => PostsKept(c)),
         RunOK(r)', PostingOK(r)',
         Posting(r)' => /\ Current(r)' = Current(r)
                       /\ \/ Posting(r)
                          \/ \A q \in Runs : Posting(q) => Current(q) # Current(r)
  PROVE  IInv'
<1> PICK M : M = {r}
  OBVIOUS
<1>1. M \in SUBSET Runs /\ (\A q \in M : q = r) /\ Runs \ M = Runs \ {r}
  OBVIOUS
<1>2. TypeOK'
  BY TypesPrimed
<1>3. \A p, q \in M : p = q
  BY <1>1
<1>4. \A q \in M :
        /\ RunOK(q)' /\ PostingOK(q)'
        /\ Posting(q)' => /\ Current(q)' = Current(q)
                          /\ \/ Posting(q)
                             \/ \A p \in Runs : Posting(p) => Current(p) # Current(q)
  BY <1>1
<1> QED BY <1>1, <1>2, <1>3, <1>4, DeliveryStep

\* A run that posts does so alone, in the journal's state "posting".
LEMMA PostingAlone ==
  ASSUME IInv, NEW r \in Runs, Posting(r)
  PROVE  /\ Current(r) \in Deliveries
         /\ binding[Current(r)].state = "posting"
         /\ \A q \in Runs \ {r} : ~(Posting(q) /\ Current(q) = Current(r))
<1>1. Current(r) \in Deliveries
  BY BusyCurrent DEF Posting
<1>2. binding[Current(r)].state = "posting"
  BY DEF IInv, PostingOK
<1>3. \A q \in Runs \ {r} : ~(Posting(q) /\ Current(q) = Current(r))
  BY DEF IInv, OnePoster
<1> QED BY <1>1, <1>2, <1>3

\* The POST of a run is over: KSP has created the order and told its id, or the
\* outcome is uncertain.
LEMMA OutcomeStep ==
  ASSUME IInv, NEW r \in Runs,
         \/ \E s \in {"received", "sent"} : AnswerCreated(r, s)
         \/ AnswerUnclear(r) \/ TransportError(r)
  PROVE  IInv'
<1> PICK c : c = Current(r)
  OBVIOUS
<1>1. /\ OutsideOK /\ JournalOK /\ LocalsOK /\ CountersOK /\ PostingOK(r)
      /\ Goto(r, "await", "accept")
      /\ UNCHANGED <<phase, after_id, queue, row, token, reports>>
      /\ UNCHANGED <<odoo, ledger, packed, journal, tokens>>
      /\ UNCHANGED trouble \/ Fault
  BY Types DEF IInv, AnswerCreated, AnswerUnclear, TransportError, Answered
<1>2. pc[r] = "await" /\ pc'[r] = "accept" /\ Posting(r)
  BY <1>1 DEF Goto, LocalsOK, Posting
<1>3. /\ c \in Deliveries /\ binding[c].state = "posting"
      /\ \A q \in Runs \ {r} : ~(Posting(q) /\ Current(q) = c)
  BY <1>2, PostingAlone
<1>4. OrdersOf(c) = {} /\ stray[c] = 0 /\ DeliveryOK(c) /\ ClaimOK(c)
  BY <1>1, <1>2, <1>3, IInvParts DEF PostingOK
<1>5. /\ stray' \in [Deliveries -> Nat]
      /\ \A d \in Deliveries \ {c} : stray'[d] = stray[d]
      /\ \/ UNCHANGED orders /\ stray'[c] \in {0, 1}
         \/ /\ \E s \in {"received", "sent"} : Created(c, s)
            /\ stray'[c] = 0
      /\ binding'[c].state = "posting"
  <2>1. CASE TransportError(r)
    <3>1. stray' = [stray EXCEPT ![c] = @ + 1] /\ UNCHANGED <<orders, binding>>
      BY <1>2, <2>1 DEF TransportError, Abandoned, journal
    <3> QED BY <1>1, <1>3, <1>4, <3>1 DEF OutsideOK
  <2>2. CASE AnswerUnclear(r) \/ \E s \in {"received", "sent"} : AnswerCreated(r, s)
    <3>1. UNCHANGED <<stray, binding>>
      BY <2>2 DEF AnswerUnclear, AnswerCreated, Answered, journal
    <3>2. UNCHANGED orders \/ \E s \in {"received", "sent"} : Created(c, s)
      BY <2>2 DEF AnswerUnclear, AnswerCreated
    <3> QED BY <1>1, <1>3, <1>4, <3>1, <3>2 DEF OutsideOK
  <2> QED BY <2>1, <2>2
<1>6. /\ OutsideOK'
      /\ \A d \in Deliveries \ {c} : DeliverySame(d)
      /\ Grows(c) /\ DeliveryOK(c)' /\ ClaimOK(c)'
  BY <1>1, <1>3, <1>4, <1>5, CreatedOK DEF journal
<1>7. \E a \in Answer :
        /\ answer' = [answer EXCEPT ![r] = a]
        /\ \/ a.state = "uncertain" /\ a.order_id = 0
           \/ a.state \in {"pending", "accepted"} /\ a.order_id \in OrdersOf(c)'
  <2>1. ASSUME NEW s \in {"received", "sent"}, AnswerCreated(r, s)
        PROVE  \E a \in Answer :
                 /\ answer' = [answer EXCEPT ![r] = a]
                 /\ a.state \in {"pending", "accepted"}
                 /\ a.order_id \in OrdersOf(c)'
    <3> PICK a : a = [state |-> StateFor(s), order_id |-> Len(orders) + 1]
      OBVIOUS
    <3> PICK o : o = [code |-> c, content |-> binding[c].content, status |-> s]
      OBVIOUS
    <3>1. o \in Order /\ o.code = c
      BY <1>1, <1>3 DEF Order, JournalOK, Binding
    <3>2. orders' = Append(orders, o)
      BY <2>1 DEF AnswerCreated, Created
    <3>3. Len(orders) + 1 \in Nat \ {0} /\ Len(orders) + 1 \in OrdersOf(c)'
      BY <1>1, <1>3, <3>1, <3>2, Appending
    <3>4. a \in Answer /\ a.state \in {"pending", "accepted"}
          /\ a.order_id = Len(orders) + 1
      BY <3>3 DEF Answer, State, StateFor
    <3> QED BY <2>1, <3>3, <3>4 DEF AnswerCreated, Answered
  <2>2. CASE AnswerUnclear(r) \/ TransportError(r)
    <3> PICK a : a = [state |-> "uncertain", order_id |-> 0]
      OBVIOUS
    <3>1. a \in Answer /\ a.state = "uncertain" /\ a.order_id = 0
      BY DEF Answer, State
    <3> QED BY <2>2, <3>1 DEF AnswerUnclear, TransportError, Answered
  <2> QED BY <2>1, <2>2
<1> PICK a \in Answer :
        /\ answer' = [answer EXCEPT ![r] = a]
        /\ \/ a.state = "uncertain" /\ a.order_id = 0
           \/ a.state \in {"pending", "accepted"} /\ a.order_id \in OrdersOf(c)'
  BY <1>7
<1>8. /\ LocalsOK' /\ answer'[r] = a
      /\ \A q \in Runs \ {r} : LocalsSame(q)
      /\ Current(r)' = c
      /\ Posting(r) /\ Posting(r)'
  BY <1>1, AnsweredLocals
<1>9. JournalOK' /\ CountersOK'
  BY <1>1, TypesKept
<1>10. PostingOK(r)'
  <2> HIDE DEF Current
  <2> QED BY <1>2, <1>5, <1>8 DEF PostingOK
<1>11. RunOK(r)'
  BY <1>1, <1>2, AcceptRunOK
<1> QED BY <1>3, <1>6, <1>8, <1>9, <1>10, <1>11, RunStep

\* A run goes, and its request stays under way.
LEMMA AbandonedStep ==
  ASSUME IInv, NEW r \in Runs, OtherError(r) \/ Crash(r), ~UNCHANGED stray
  PROVE  IInv'
<1> PICK c : c = Current(r)
  OBVIOUS
<1>1. /\ OutsideOK /\ JournalOK /\ LocalsOK /\ CountersOK /\ PostingOK(r)
      /\ UNCHANGED <<odoo, ledger, orders, packed, journal, tokens>>
      /\ Fault /\ Abandoned(r)
  BY Types DEF IInv, OtherError, Crash
<1>2. pc[r] = "await" /\ stray' = [stray EXCEPT ![c] = @ + 1] /\ Posting(r)
  BY <1>1 DEF Abandoned, Posting
<1>3. /\ c \in Deliveries /\ binding[c].state = "posting"
      /\ \A q \in Runs \ {r} : ~(Posting(q) /\ Current(q) = c)
  BY <1>2, PostingAlone
<1>4. OrdersOf(c) = {} /\ stray[c] = 0 /\ DeliveryOK(c) /\ ClaimOK(c)
  BY <1>1, <1>2, <1>3, IInvParts DEF PostingOK
<1>5. /\ stray' \in [Deliveries -> Nat] /\ stray'[c] = 1
      /\ \A d \in Deliveries \ {c} : stray'[d] = stray[d]
  BY <1>1, <1>2, <1>3, <1>4 DEF OutsideOK
<1>6. /\ OutsideOK'
      /\ \A d \in Deliveries \ {c} : DeliverySame(d)
      /\ Grows(c) /\ DeliveryOK(c)' /\ ClaimOK(c)'
  BY <1>1, <1>3, <1>4, <1>5, CreatedOK DEF journal
<1>7. LocalsOK' /\ pc'[r] \in {"idle", "next"} /\ \A q \in Runs \ {r} : LocalsSame(q)
  <2>1. CASE OtherError(r)
    BY <1>1, <2>1, LeaveLocals DEF OtherError
  <2>2. CASE Crash(r)
    BY <1>1, <2>2, Nothing DEF Crash, LocalsOK, LocalsSame, Goto, Pc
  <2> QED BY <2>1, <2>2
<1>8. JournalOK' /\ CountersOK'
  BY <1>1, TypesKept
<1> QED BY <1>3, <1>6, <1>7, <1>8, NotBusy, RunStep

\* The journal row of c is written: an order id is named for good, and a row
\* goes back to "ready" only if KSP has nothing.
LEMMA WrittenOK ==
  ASSUME OutsideOK, JournalOK, NEW c \in Deliveries, DeliveryOK(c), ClaimOK(c),
         NEW state \in State, NEW id \in Nat, Written(c, state, id),
         UNCHANGED <<outside, staged, applied>>,
         binding[c].state \notin {"absent", "ready"},
         id # 0 => id \in OrdersOf(c),
         \/ state = "ready" /\ id = 0 /\ binding[c].order_id = 0
            /\ OrdersOf(c) = {} /\ stray[c] = 0
         \/ state = "uncertain"
         \/ /\ state \in {"pending", "accepted", "acknowledged"}
            /\ id # 0 \/ binding[c].order_id # 0
  PROVE  /\ JournalOK'
         /\ \A d \in Deliveries \ {c} : DeliverySame(d)
         /\ Grows(c) /\ DeliveryOK(c)' /\ ClaimOK(c)'
         /\ id # 0 \/ binding[c].order_id # 0 => binding'[c].order_id # 0
<1> PICK n : n = IF id = 0 THEN binding[c].order_id ELSE id
  OBVIOUS
<1>1. binding[c] \in Binding /\ binding \in [Deliveries -> Binding]
  BY DEF JournalOK
<1>2. /\ binding' = [binding EXCEPT ![c] = binding'[c]]
      /\ binding'[c] = [binding[c] EXCEPT !.state = state, !.order_id = n]
  BY <1>1 DEF Written, Binding
<1>3. /\ n \in Nat
      /\ n = binding[c].order_id \/ binding[c].order_id = 0
      /\ n # 0 => n \in OrdersOf(c)
      /\ id # 0 \/ binding[c].order_id # 0 => n # 0
  BY <1>1 DEF Binding, DeliveryOK
<1>4. /\ binding'[c] \in Binding
      /\ binding'[c].state = state /\ binding'[c].order_id = n
      /\ binding'[c].content = binding[c].content
      /\ binding'[c].claim_token = binding[c].claim_token
  BY <1>1, <1>2, <1>3 DEF Binding
<1>5. /\ JournalOK'
      /\ \A d \in Deliveries \ {c} : binding'[d] = binding[d]
  BY <1>1, <1>2, <1>4 DEF JournalOK
<1>6. /\ UNCHANGED <<odoo, ledger, stray, orders, packed, staged, applied>>
      /\ \A d : OrdersOf(d)' = OrdersOf(d)
  BY DEF outside, OrdersOf
<1>7. \A d \in Deliveries \ {c} : DeliverySame(d)
  BY <1>5, <1>6 DEF DeliverySame
<1>8. state # "absent"
  OBVIOUS
<1>9. Grows(c)
  BY <1>3, <1>4, <1>6, <1>8 DEF Grows
<1>10. ClaimOK(c)'
  <2>1. \A i \in OrdersOf(c) : i # 0
    BY DEF OrdersOf, OutsideOK
  <2> QED BY <1>3, <1>4, <1>6, <1>8, <2>1 DEF ClaimOK
<1>11. DeliveryOK(c)'
  <2>1. /\ Distinct(packed[c]) => Distinct(packed[c])'
        /\ Distinct(staged[c]) => Distinct(staged[c])'
        /\ Frozen(c) => Frozen(c)'
    BY <1>4, <1>6, <1>8 DEF Distinct, Frozen
  <2> QED BY <1>3, <1>4, <1>6, <1>8, <2>1 DEF DeliveryOK
<1> QED BY <1>3, <1>4, <1>5, <1>7, <1>9, <1>10, <1>11

\* The UPDATE after the POST.
LEMMA AcceptStep ==
  ASSUME IInv, NEW r \in Runs, Accept(r)
  PROVE  IInv'
<1> PICK c : c = Current(r)
  OBVIOUS
<1> PICK a : a = answer[r]
  OBVIOUS
<1>1. /\ OutsideOK /\ JournalOK /\ LocalsOK /\ CountersOK
      /\ PostingOK(r) /\ RunOK(r)
      /\ pc[r] = "accept" /\ Posting(r) /\ Written(c, a.state, a.order_id)
      /\ UNCHANGED <<outside, staged, applied, tokens, trouble>>
  BY Types DEF IInv, Accept, Posting
<1>2. /\ c \in Deliveries /\ binding[c].state = "posting"
      /\ \A q \in Runs \ {r} : ~(Posting(q) /\ Current(q) = c)
  BY <1>1, PostingAlone
<1>3. DeliveryOK(c) /\ ClaimOK(c) /\ binding[c].order_id = 0
  BY <1>2, IInvParts DEF DeliveryOK
<1>4. a.state \in State /\ a.order_id \in Nat
  BY <1>1 DEF LocalsOK, Answer
<1>5. \A i \in OrdersOf(c) : i # 0
  BY <1>1 DEF OrdersOf, OutsideOK
<1>6. /\ a.state = "ready" => OrdersOf(c) = {} /\ stray[c] = 0
      /\ \/ a.state \in {"ready", "uncertain"} /\ a.order_id = 0
         \/ a.state \in {"pending", "accepted"} /\ a.order_id \in OrdersOf(c)
  BY <1>1 DEF PostingOK
<1>7. /\ JournalOK'
      /\ \A d \in Deliveries \ {c} : DeliverySame(d)
      /\ Grows(c) /\ DeliveryOK(c)' /\ ClaimOK(c)'
  BY <1>1, <1>2, <1>3, <1>4, <1>5, <1>6, WrittenOK
<1>8. OutsideOK' /\ CountersOK'
  BY <1>1, TypesKept
<1>9. /\ LocalsOK' /\ \A q \in Runs \ {r} : LocalsSame(q)
      /\ RunOK(r)' /\ PostingOK(r)' /\ ~Posting(r)'
  <2>1. CASE Step(r, "accept", "reconcile")
    <3>1. /\ LocalsOK' /\ \A q \in Runs \ {r} : LocalsSame(q)
          /\ pc'[r] = "reconcile" /\ queue' = queue
      BY <1>1, <2>1, StepLocals DEF Pc
    <3>2. PostingOK(r)' /\ ~Posting(r)'
      BY <3>1 DEF PostingOK, Posting
    <3>3. RunOK(r)'
      <4> HIDE DEF Current, Distinct, Event, SameFrozen, Frozen
      <4> QED BY <1>1, <3>1 DEF RunOK
    <3> QED BY <3>1, <3>2, <3>3
  <2>2. CASE Leave(r, "accept")
    BY <1>1, <2>2, LeaveLocals
  <2> QED BY <2>1, <2>2 DEF Accept
<1> QED BY <1>2, <1>7, <1>8, <1>9, RunStep

\* A row with an order id is not being posted.
LEMMA NamedOrder ==
  ASSUME IInv, NEW c \in Deliveries, binding[c].order_id # 0
  PROVE  /\ binding[c].state \notin {"absent", "ready", "posting"}
         /\ binding[c].order_id \in OrdersOf(c) /\ Frozen(c)
         /\ \A q \in Runs : Posting(q) => Current(q) # c
<1>1. DeliveryOK(c)
  BY DEF IInv
<1>2. /\ binding[c].state \notin {"absent", "ready", "posting"}
      /\ binding[c].order_id \in OrdersOf(c) /\ Frozen(c)
  BY <1>1 DEF DeliveryOK
<1> QED BY <1>2, PostingAlone

\* The UPDATEs of a row that has an order id.
LEMMA RecordSteps ==
  ASSUME IInv, NEW r \in Runs, Record(r) \/ MarkAcknowledged(r)
  PROVE  IInv'
<1> PICK c : c = Current(r)
  OBVIOUS
<1>1. /\ OutsideOK /\ JournalOK /\ LocalsOK /\ CountersOK /\ RunOK(r)
      /\ pc[r] \in {"record", "acked"}
      /\ UNCHANGED <<outside, staged, applied, tokens, trouble>>
  BY Types DEF IInv, Record, MarkAcknowledged, Leave, Goto
<1>2. /\ c \in Deliveries /\ DeliveryOK(c) /\ ClaimOK(c)
      /\ binding[c].order_id # 0 /\ queue[r] # {}
  BY <1>1, BusyCurrent, IInvParts DEF RunOK
<1>3. /\ binding[c].state \notin {"absent", "ready", "posting"}
      /\ binding[c].order_id \in OrdersOf(c)
      /\ \A q \in Runs : Posting(q) => Current(q) # c
  BY <1>2, NamedOrder
<1>4. \E state \in {"pending", "accepted", "uncertain", "acknowledged"},
         id \in {0, binding[c].order_id} :
        Written(c, state, id)
  <2>1. CASE Record(r)
    <3>1. /\ pc[r] = "record"
          /\ Written(c, answer[r].state, answer[r].order_id)
      BY <2>1 DEF Record
    <3>2. /\ answer[r].order_id = binding[c].order_id
          /\ answer[r].state \in {"pending", "accepted", "uncertain"}
      BY <1>1, <3>1 DEF RunOK
    <3> QED BY <3>1, <3>2
  <2>2. CASE MarkAcknowledged(r)
    BY <2>2 DEF MarkAcknowledged
  <2> QED BY <2>1, <2>2
<1> PICK state \in {"pending", "accepted", "uncertain", "acknowledged"},
         id \in {0, binding[c].order_id} :
        Written(c, state, id)
  BY <1>4
<1>5. state \in State /\ id \in Nat
  BY <1>1, <1>2 DEF State, JournalOK, Binding
<1>6. /\ JournalOK'
      /\ \A d \in Deliveries \ {c} : DeliverySame(d)
      /\ Grows(c) /\ DeliveryOK(c)' /\ ClaimOK(c)'
      /\ binding'[c].order_id # 0
  BY <1>1, <1>2, <1>3, <1>5, WrittenOK
<1>7. OutsideOK' /\ CountersOK'
  BY <1>1, TypesKept
<1>8. /\ LocalsOK' /\ \A q \in Runs \ {r} : LocalsSame(q)
      /\ RunOK(r)' /\ PostingOK(r)' /\ ~Posting(r)'
  <2>1. CASE Step(r, "record", "check")
    <3>1. /\ LocalsOK' /\ \A q \in Runs \ {r} : LocalsSame(q)
          /\ pc'[r] = "check" /\ queue' = queue /\ Current(r)' = c
      BY <1>1, <2>1, StepLocals DEF Pc
    <3>2. PostingOK(r)' /\ ~Posting(r)'
      BY <3>1 DEF PostingOK, Posting
    <3>3. RunOK(r)'
      <4> HIDE DEF Current, Distinct, Event, SameFrozen, Frozen
      <4> QED BY <1>2, <1>6, <3>1 DEF RunOK
    <3> QED BY <3>1, <3>2, <3>3
  <2>2. ASSUME NEW from, Leave(r, from)
        PROVE  /\ LocalsOK' /\ \A q \in Runs \ {r} : LocalsSame(q)
               /\ RunOK(r)' /\ PostingOK(r)' /\ ~Posting(r)'
    BY <1>1, <2>2, LeaveLocals
  <2> QED BY <2>1, <2>2 DEF Record, MarkAcknowledged
<1> QED BY <1>2, <1>3, <1>6, <1>7, <1>8, RunStep

\* start_post.
LEMMA StartPostStep ==
  ASSUME IInv, NEW r \in Runs, StartPost(r)
  PROVE  IInv'
<1> PICK c : c = Current(r)
  OBVIOUS
<1>1. /\ OutsideOK /\ JournalOK /\ LocalsOK /\ CountersOK /\ RunOK(r)
      /\ Step(r, "submit", "post") /\ pc[r] = "submit"
      /\ binding[c].state = "ready"
      /\ binding' = [binding EXCEPT ![c].state = "posting"]
      /\ UNCHANGED <<outside, staged, applied, tokens, trouble>>
  BY Types DEF IInv, StartPost, Step, Goto
<1>2. /\ c \in Deliveries /\ DeliveryOK(c) /\ ClaimOK(c) /\ queue[r] # {}
      /\ Frozen(c) /\ binding[c] \in Binding
  BY <1>1, BusyCurrent, IInvParts DEF RunOK, JournalOK
<1>3. /\ binding' = [binding EXCEPT ![c] = binding'[c]]
      /\ binding'[c] = [binding[c] EXCEPT !.state = "posting"]
  BY <1>1, <1>2 DEF JournalOK
<1>4. /\ binding'[c] \in Binding
      /\ binding'[c].state = "posting" /\ binding'[c].order_id = binding[c].order_id
      /\ binding'[c].content = binding[c].content
      /\ binding'[c].claim_token = binding[c].claim_token
  BY <1>2, <1>3 DEF Binding, State
<1>5. JournalOK' /\ \A d \in Deliveries \ {c} : binding'[d] = binding[d]
  BY <1>1, <1>2, <1>3, <1>4 DEF JournalOK
<1>6. /\ UNCHANGED <<odoo, ledger, stray, orders, packed, staged, applied>>
      /\ \A d : OrdersOf(d)' = OrdersOf(d)
  BY <1>1 DEF outside, OrdersOf
<1>7. \A d \in Deliveries \ {c} : DeliverySame(d)
  BY <1>5, <1>6 DEF DeliverySame
<1>8. /\ OrdersOf(c) = {} /\ stray[c] = 0 /\ binding[c].order_id = 0
  BY <1>1, <1>2, <1>6 DEF DeliveryOK, OutsideOK
<1>9. Grows(c) /\ ClaimOK(c)'
  BY <1>1, <1>2, <1>4, <1>6 DEF Grows, ClaimOK
<1>10. DeliveryOK(c)'
  <2>1. /\ Distinct(packed[c]) => Distinct(packed[c])'
        /\ Distinct(staged[c]) => Distinct(staged[c])'
        /\ Frozen(c) => Frozen(c)'
    BY <1>4, <1>6 DEF Distinct, Frozen
  <2> QED BY <1>1, <1>2, <1>4, <1>6, <1>8, <2>1 DEF DeliveryOK
<1>11. OutsideOK' /\ CountersOK'
  BY <1>1, TypesKept
<1>12. /\ LocalsOK' /\ pc'[r] = "post" /\ UNCHANGED queue
       /\ \A q \in Runs \ {r} : LocalsSame(q)
       /\ Current(r)' = c
  BY <1>1, StepLocals DEF Pc
<1>13. \A q \in Runs : Posting(q) => Current(q) # c
  BY <1>1, PostingAlone
<1>14. RunOK(r)'
  <2> HIDE DEF Current, Distinct, Event, SameFrozen, Frozen
  <2> QED BY <1>2, <1>12 DEF RunOK
<1>15. PostingOK(r)'
  <2> HIDE DEF Current
  <2> QED BY <1>4, <1>6, <1>8, <1>12 DEF PostingOK
<1> QED BY <1>2, <1>5, <1>7, <1>9, <1>10, <1>11, <1>12, <1>13, <1>14, <1>15, RunStep

\* store.stage: a row is frozen that was not there, or the one that is there is
\* the same.
LEMMA StageStep ==
  ASSUME IInv, NEW r \in Runs, Stage(r)
  PROVE  IInv'
<1> PICK c : c = Current(r)
  OBVIOUS
<1> PICK to : to = IF row[r].dispatch = "queued" THEN "claim" ELSE "submit"
  OBVIOUS
<1>1. /\ OutsideOK /\ JournalOK /\ LocalsOK /\ CountersOK /\ RunOK(r)
      /\ Goto(r, "stage", to) /\ pc[r] = "stage"
      /\ binding[c].state = "absent" \/ SameFrozen(r)
      /\ UNCHANGED <<outside, staged, applied, phase, after_id, queue, row, token,
                     answer, reports, tokens, trouble>>
  BY Types DEF IInv, Stage, Goto
<1>2. /\ c \in Deliveries /\ DeliveryOK(c) /\ ClaimOK(c) /\ queue[r] # {}
      /\ binding[c] \in Binding /\ row[r] \in Picking /\ token[r] \in Nat
      /\ to \in Pc
  BY <1>1, BusyCurrent, IInvParts DEF RunOK, JournalOK, LocalsOK, Pc
<1>3. Step(r, "stage", to)
  BY <1>1 DEF Step
<1>4. CASE binding[c].state # "absent"
  <2>1. binding' = binding
    BY <1>4 DEF Stage
  <2>2. UNCHANGED <<outside, journal, tokens, trouble>>
    BY <1>1, <2>1 DEF journal
  <2>3. to = "submit" => Frozen(c)
    <3>1. /\ row[r].dispatch # "queued" => row[r].claimed
          /\ row[r].claimed => odoo[c].claimed /\ odoo[c].content = row[r].content
      BY <1>1 DEF RunOK
    <3> QED BY <1>1, <1>4, <3>1 DEF Frozen, SameFrozen
  <2> QED BY <1>1, <1>2, <1>3, <1>4, <2>2, <2>3, GoStep
<1>5. CASE binding[c].state = "absent"
  <2> PICK b : b = [state |-> "ready", content |-> row[r].content,
                    claim_token |-> token[r], order_id |-> 0]
    OBVIOUS
  <2>1. /\ b \in Binding /\ b.state = "ready" /\ b.order_id = 0
        /\ b.content = row[r].content /\ b.claim_token = token[r]
    BY <1>2 DEF Binding, Picking, State
  <2>2. binding' = [binding EXCEPT ![c] = b]
    BY <1>5 DEF Stage
  <2>3. /\ JournalOK' /\ binding'[c] = b
        /\ \A d \in Deliveries \ {c} : binding'[d] = binding[d]
    BY <1>1, <1>2, <2>1, <2>2 DEF JournalOK
  <2>4. /\ UNCHANGED <<odoo, ledger, stray, orders, packed, staged, applied>>
        /\ \A d : OrdersOf(d)' = OrdersOf(d)
    BY <1>1 DEF outside, OrdersOf
  <2>5. \A d \in Deliveries \ {c} : DeliverySame(d)
    BY <2>3, <2>4 DEF DeliverySame
  <2>6. /\ token[r] # NoToken /\ row[r].dispatch = "queued"
    BY <1>1, <1>5 DEF RunOK
  <2>7. /\ OrdersOf(c) = {} /\ stray[c] = 0 /\ binding[c].order_id = 0
    BY <1>1, <1>2, <1>5, <2>4 DEF DeliveryOK, OutsideOK
  <2>8. Grows(c)
    BY <1>5, <2>4, <2>7 DEF Grows
  <2>9. ClaimOK(c)'
    BY <1>2, <1>5, <2>4, <2>7 DEF ClaimOK
  <2>10. DeliveryOK(c)'
    <3>1. /\ Distinct(packed[c]) => Distinct(packed[c])'
          /\ Distinct(staged[c]) => Distinct(staged[c])'
      BY <2>4 DEF Distinct
    <3> QED BY <1>2, <2>1, <2>3, <2>4, <2>6, <2>7, <3>1 DEF DeliveryOK
  <2>11. OutsideOK' /\ CountersOK'
    BY <1>1, TypesKept
  <2>12. /\ LocalsOK' /\ pc'[r] = "claim" /\ UNCHANGED <<queue, row, token>>
         /\ \A q \in Runs \ {r} : LocalsSame(q)
         /\ Current(r)' = c
    BY <1>1, <1>2, <1>3, <2>6, StepLocals
  <2>13. \A q \in Runs : Posting(q) => Current(q) # c
    BY <1>5, PostingAlone
  <2>14. SameFrozen(r)' /\ binding'[c].state # "absent"
    BY <2>1, <2>3, <2>12 DEF SameFrozen
  <2>15. RunOK(r)'
    <3> HIDE DEF Current, Distinct, Event, SameFrozen, Frozen
    <3> QED BY <1>1, <1>2, <2>4, <2>12, <2>14 DEF RunOK
  <2>16. PostingOK(r)' /\ ~Posting(r)'
    BY <2>12 DEF PostingOK, Posting
  <2> QED BY <1>2, <2>3, <2>5, <2>8, <2>9, <2>10, <2>11, <2>12, <2>13, <2>15,
             <2>16, RunStep
<1> QED BY <1>4, <1>5

\* Odoo grants a claim for the token of the journal.
LEMMA ClaimedOK ==
  ASSUME OutsideOK, NEW c \in Deliveries, DeliveryOK(c), ClaimOK(c),
         binding[c].state # "absent", odoo[c].dispatch = "queued",
         binding[c].claim_token \in Nat \cup {NoToken},
         Claimed(c, binding[c].claim_token),
         UNCHANGED <<ledger, stray, orders, packed, journal>>
  PROVE  /\ OutsideOK'
         /\ \A d \in Deliveries \ {c} : DeliverySame(d)
         /\ Grows(c) /\ PostsKept(c) /\ DeliveryOK(c)' /\ ClaimOK(c)'
         /\ odoo'[c].claimed /\ odoo'[c].content = odoo[c].content
<1> PICK t : t = binding[c].claim_token
  OBVIOUS
<1>1. /\ odoo' = [odoo EXCEPT ![c] = odoo'[c]]
      /\ odoo'[c] = [odoo[c] EXCEPT !.dispatch = "submitting", !.claim_token = t,
                                    !.claimed = TRUE]
      /\ odoo[c] \in Picking
  BY DEF Claimed, OutsideOK, Picking
<1>2. /\ odoo'[c] \in Picking
      /\ odoo'[c].dispatch = "submitting" /\ odoo'[c].claim_token = t
      /\ odoo'[c].claimed /\ odoo'[c].content = odoo[c].content
  BY <1>1 DEF Picking
<1>3. /\ OutsideOK'
      /\ \A d \in Deliveries \ {c} : odoo'[d] = odoo[d]
  BY <1>1, <1>2 DEF OutsideOK
<1>4. /\ UNCHANGED <<ledger, stray, orders, packed, binding, staged, applied>>
      /\ \A d : OrdersOf(d)' = OrdersOf(d)
  BY DEF journal, OrdersOf
<1>5. \A d \in Deliveries \ {c} : DeliverySame(d)
  BY <1>3, <1>4 DEF DeliverySame
<1>6. Grows(c) /\ PostsKept(c) /\ ClaimOK(c)'
  BY <1>2, <1>4 DEF Grows, PostsKept, ClaimOK
<1>7. DeliveryOK(c)'
  <2>1. /\ Distinct(packed[c]) => Distinct(packed[c])'
        /\ Distinct(staged[c]) => Distinct(staged[c])'
        /\ Frozen(c) => Frozen(c)'
    BY <1>2, <1>4 DEF Distinct, Frozen
  <2> QED BY <1>2, <1>4, <2>1 DEF DeliveryOK
<1> QED BY <1>2, <1>3, <1>5, <1>6, <1>7

LEMMA ClaimSteps ==
  ASSUME IInv, NEW r \in Runs, Claim(r) \/ (ClaimUnheard(r) /\ ~UNCHANGED odoo)
  PROVE  IInv'
<1> PICK c : c = Current(r)
  OBVIOUS
<1>1. /\ OutsideOK /\ JournalOK /\ LocalsOK /\ CountersOK /\ RunOK(r)
      /\ pc[r] = "claim" /\ odoo[c].dispatch = "queued" /\ Claimed(c, token[r])
      /\ UNCHANGED <<ledger, stray, orders, packed, journal, tokens>>
      /\ UNCHANGED trouble \/ Fault
  BY Types DEF IInv, Claim, ClaimUnheard, Leave, Goto
<1>2. /\ c \in Deliveries /\ DeliveryOK(c) /\ ClaimOK(c) /\ queue[r] # {}
      /\ binding[c].state # "absent" /\ SameFrozen(r)
      /\ token[r] \in Nat \cup {NoToken}
  BY <1>1, BusyCurrent, IInvParts DEF RunOK, LocalsOK
<1>3. binding[c].claim_token = token[r] /\ binding[c].content = row[r].content
  BY <1>2 DEF SameFrozen
<1>4. /\ OutsideOK'
      /\ \A d \in Deliveries \ {c} : DeliverySame(d)
      /\ Grows(c) /\ PostsKept(c) /\ DeliveryOK(c)' /\ ClaimOK(c)'
      /\ odoo'[c].claimed /\ odoo'[c].content = odoo[c].content
  BY <1>1, <1>2, <1>3, ClaimedOK
<1>5. JournalOK' /\ CountersOK'
  BY <1>1, TypesKept
<1>6. /\ LocalsOK' /\ \A q \in Runs \ {r} : LocalsSame(q)
      /\ RunOK(r)' /\ PostingOK(r)' /\ ~Posting(r)'
  <2>1. ASSUME Step(r, "claim", "submit"), odoo[c].content = row[r].content
        PROVE  /\ LocalsOK' /\ \A q \in Runs \ {r} : LocalsSame(q)
               /\ RunOK(r)' /\ PostingOK(r)' /\ ~Posting(r)'
    <3>1. /\ LocalsOK' /\ pc'[r] = "submit" /\ UNCHANGED <<queue, row, token>>
          /\ \A q \in Runs \ {r} : LocalsSame(q)
          /\ Current(r)' = c
      BY <1>1, <2>1, StepLocals DEF Pc
    <3>2. PostingOK(r)' /\ ~Posting(r)'
      BY <3>1 DEF PostingOK, Posting
    <3>3. UNCHANGED binding
      BY <1>1 DEF journal
    <3>4. SameFrozen(r)' /\ Frozen(c)'
      BY <1>2, <1>3, <1>4, <2>1, <3>1, <3>3 DEF SameFrozen, Frozen
    <3>5. RunOK(r)'
      <4> HIDE DEF Current, Distinct, Event, SameFrozen, Frozen
      <4> QED BY <1>2, <3>1, <3>3, <3>4 DEF RunOK
    <3> QED BY <3>1, <3>2, <3>5
  <2>2. CASE Leave(r, "claim")
    BY <1>1, <2>2, LeaveLocals
  <2> QED BY <2>1, <2>2 DEF Claim, ClaimUnheard
<1> QED BY <1>2, <1>4, <1>5, <1>6, RunStep

\* Odoo takes the order that the journal names.
LEMMA AcknowledgeSteps ==
  ASSUME IInv, NEW r \in Runs,
         Acknowledge(r) \/ (AcknowledgeUnheard(r) /\ ~UNCHANGED odoo)
  PROVE  IInv'
<1> PICK c : c = Current(r)
  OBVIOUS
<1>1. /\ OutsideOK /\ JournalOK /\ LocalsOK /\ CountersOK /\ RunOK(r)
      /\ pc[r] = "ack" /\ Acknowledged(c)
      /\ UNCHANGED <<ledger, stray, orders, packed, journal, tokens>>
      /\ UNCHANGED trouble \/ Fault
  BY Types DEF IInv, Acknowledge, AcknowledgeUnheard, Step, Leave, Goto
<1>2. /\ c \in Deliveries /\ DeliveryOK(c) /\ ClaimOK(c) /\ queue[r] # {}
      /\ binding[c].order_id # 0 /\ binding[c] \in Binding
  BY <1>1, BusyCurrent, IInvParts DEF RunOK, JournalOK
<1>3. /\ binding[c].order_id \in OrdersOf(c) /\ binding[c].state # "absent"
      /\ binding[c].order_id \in Nat
  BY <1>2, NamedOrder DEF Binding
<1>4. /\ odoo' = [odoo EXCEPT ![c] = odoo'[c]]
      /\ odoo'[c] = [odoo[c] EXCEPT !.dispatch = "submitted",
                                    !.wms_order_ref = binding[c].order_id]
      /\ odoo[c] \in Picking /\ odoo[c].claim_token = binding[c].claim_token
  BY <1>1, <1>2 DEF Acknowledged, OutsideOK, Picking
<1>5. /\ odoo'[c] \in Picking
      /\ odoo'[c].claim_token = odoo[c].claim_token
      /\ odoo'[c].claimed = odoo[c].claimed /\ odoo'[c].content = odoo[c].content
      /\ odoo'[c].wms_order_ref = binding[c].order_id
  BY <1>3, <1>4 DEF Picking
<1>6. /\ OutsideOK'
      /\ \A d \in Deliveries \ {c} : odoo'[d] = odoo[d]
  BY <1>1, <1>4, <1>5 DEF OutsideOK
<1>7. /\ UNCHANGED <<ledger, stray, orders, packed, binding, staged, applied>>
      /\ \A d : OrdersOf(d)' = OrdersOf(d)
  BY <1>1 DEF journal, OrdersOf
<1>8. \A d \in Deliveries \ {c} : DeliverySame(d)
  BY <1>6, <1>7 DEF DeliverySame
<1>9. odoo[c].claimed
  BY <1>2, <1>3, <1>4 DEF DeliveryOK
<1>10. Grows(c) /\ PostsKept(c) /\ ClaimOK(c)'
  BY <1>2, <1>3, <1>5, <1>7, <1>9 DEF Grows, PostsKept, ClaimOK
<1>11. DeliveryOK(c)'
  <2>1. /\ Distinct(packed[c]) => Distinct(packed[c])'
        /\ Distinct(staged[c]) => Distinct(staged[c])'
        /\ Frozen(c) => Frozen(c)'
    BY <1>5, <1>7 DEF Distinct, Frozen
  <2> QED BY <1>2, <1>5, <1>7, <1>9, <2>1 DEF DeliveryOK
<1>12. JournalOK' /\ CountersOK'
  BY <1>1, TypesKept
<1>13. /\ LocalsOK' /\ \A q \in Runs \ {r} : LocalsSame(q)
       /\ RunOK(r)' /\ PostingOK(r)' /\ ~Posting(r)'
  <2>1. CASE Step(r, "ack", "acked")
    <3>1. /\ LocalsOK' /\ pc'[r] = "acked" /\ UNCHANGED queue
          /\ \A q \in Runs \ {r} : LocalsSame(q)
          /\ Current(r)' = c
      BY <1>1, <2>1, StepLocals DEF Pc
    <3>2. PostingOK(r)' /\ ~Posting(r)'
      BY <3>1 DEF PostingOK, Posting
    <3>3. RunOK(r)'
      <4> HIDE DEF Current, Distinct, Event, SameFrozen, Frozen
      <4> QED BY <1>2, <1>7, <3>1 DEF RunOK
    <3> QED BY <3>1, <3>2, <3>3
  <2>2. CASE Leave(r, "ack")
    BY <1>1, <2>2, LeaveLocals
  <2> QED BY <2>1, <2>2 DEF Acknowledge, AcknowledgeUnheard
<1> QED BY <1>2, <1>6, <1>8, <1>10, <1>11, <1>12, <1>13, RunStep

\* The package events of c grow, in the journal before in Odoo, and in Odoo
\* before they are put down as applied.
LEMMA EventsOK ==
  ASSUME OutsideOK, NEW c \in Deliveries, DeliveryOK(c), ClaimOK(c),
         UNCHANGED <<odoo, stray, orders, packed, binding>>,
         ledger' \in [Deliveries -> SUBSET Package],
         \A d \in Deliveries \ {c} :
           UNCHANGED <<staged[d], ledger[d], applied[d]>>,
         staged[c] \subseteq staged'[c], ledger[c] \subseteq ledger'[c],
         Distinct(staged'[c]),
         applied'[c] \subseteq ledger'[c], ledger'[c] \subseteq staged'[c]
  PROVE  /\ OutsideOK'
         /\ \A d \in Deliveries \ {c} : DeliverySame(d)
         /\ Grows(c) /\ PostsKept(c) /\ DeliveryOK(c)' /\ ClaimOK(c)'
<1>1. OutsideOK'
  BY DEF OutsideOK
<1>2. \A d : OrdersOf(d)' = OrdersOf(d)
  BY DEF OrdersOf
<1>3. \A d \in Deliveries \ {c} : DeliverySame(d)
  BY <1>2 DEF DeliverySame
<1>4. Grows(c) /\ PostsKept(c) /\ ClaimOK(c)'
  BY <1>2 DEF Grows, PostsKept, ClaimOK
<1>5. DeliveryOK(c)'
  <2>1. /\ Distinct(packed[c]) => Distinct(packed[c])'
        /\ Frozen(c) => Frozen(c)' /\ Distinct(staged[c])'
    BY DEF Distinct, Frozen
  <2> QED BY <1>2, <2>1 DEF DeliveryOK
<1> QED BY <1>1, <1>3, <1>4, <1>5

LEMMA StagePackagesStep ==
  ASSUME IInv, NEW r \in Runs, StagePackages(r)
  PROVE  IInv'
<1> PICK c : c = Current(r)
  OBVIOUS
<1>1. /\ OutsideOK /\ JournalOK /\ LocalsOK /\ CountersOK /\ RunOK(r)
      /\ Goto(r, "snapshot", "apply") /\ pc[r] = "snapshot"
      /\ staged[c] \subseteq reports[r]
      /\ staged' = [staged EXCEPT ![c] = reports[r]]
      /\ reports' = [reports EXCEPT ![r] = @ \ applied[c]]
      /\ UNCHANGED <<outside, binding, applied, phase, after_id, queue, row, token,
                     answer, tokens, trouble>>
  BY Types DEF IInv, StagePackages, Goto
<1>2. /\ c \in Deliveries /\ DeliveryOK(c) /\ ClaimOK(c) /\ queue[r] # {}
      /\ Distinct(reports[r]) /\ reports[r] \in SUBSET Package
      /\ ledger[c] \in SUBSET Package /\ applied[c] \in SUBSET Package
  BY <1>1, BusyCurrent, IInvParts DEF RunOK, LocalsOK, OutsideOK, JournalOK
<1>3. applied[c] \subseteq ledger[c] /\ ledger[c] \subseteq reports[r]
  BY <1>1, <1>2 DEF DeliveryOK
<1>4. /\ UNCHANGED <<odoo, ledger, stray, orders, packed, binding, applied>>
      /\ JournalOK' /\ staged'[c] = reports[r]
      /\ \A d \in Deliveries \ {c} : staged'[d] = staged[d]
      /\ ledger' \in [Deliveries -> SUBSET Package]
  BY <1>1, <1>2 DEF outside, OutsideOK, JournalOK
<1>5. /\ OutsideOK'
      /\ \A d \in Deliveries \ {c} : DeliverySame(d)
      /\ Grows(c) /\ PostsKept(c) /\ DeliveryOK(c)' /\ ClaimOK(c)'
  BY <1>1, <1>2, <1>3, <1>4, EventsOK
<1>6. /\ LocalsOK' /\ pc'[r] = "apply" /\ Current(r)' = c
      /\ reports'[r] = reports[r] \ applied[c]
      /\ \A q \in Runs \ {r} : LocalsSame(q)
  <2>1. "apply" \in Pc
    BY DEF Pc
  <2> QED BY <1>1, <1>2, <2>1 DEF LocalsOK, LocalsSame, Goto, Current
<1>7. CountersOK'
  BY <1>1, TypesKept
<1>8. RunOK(r)'
  <2> HIDE DEF Current, Distinct, Event, SameFrozen, Frozen
  <2> QED BY <1>1, <1>2, <1>4, <1>6 DEF RunOK
<1>9. PostingOK(r)' /\ ~Posting(r)'
  BY <1>6 DEF PostingOK, Posting
<1> QED BY <1>2, <1>4, <1>5, <1>6, <1>7, <1>8, <1>9, RunStep

LEMMA ApplySteps ==
  ASSUME IInv, NEW r \in Runs, Apply(r) \/ ApplyUnheard(r)
  PROVE  IInv'
<1> PICK c : c = Current(r)
  OBVIOUS
<1> PICK x : x = Event(r)
  OBVIOUS
<1>1. /\ OutsideOK /\ JournalOK /\ LocalsOK /\ CountersOK /\ RunOK(r)
      /\ pc[r] = "apply" /\ reports[r] # {}
      /\ ledger' = [ledger EXCEPT ![c] = @ \cup {x}]
      /\ UNCHANGED <<odoo, stray, orders, packed, journal, tokens>>
      /\ UNCHANGED trouble \/ Fault
  BY Types DEF IInv, Apply, ApplyUnheard, Applied, Step, Leave, Goto
<1>2. /\ c \in Deliveries /\ DeliveryOK(c) /\ ClaimOK(c) /\ queue[r] # {}
      /\ reports[r] \subseteq staged[c] /\ staged[c] \in SUBSET Package
      /\ ledger[c] \in SUBSET Package /\ applied[c] \in SUBSET Package
  BY <1>1, BusyCurrent, IInvParts DEF RunOK, OutsideOK, JournalOK
<1>3. x \in reports[r]
  BY <1>1 DEF Event
<1> PICK L : L = ledger[c] \cup {x}
  OBVIOUS
<1>4. /\ L \in SUBSET Package /\ ledger[c] \subseteq L
      /\ applied[c] \subseteq L /\ L \subseteq staged[c] /\ Distinct(staged[c])
  BY <1>2, <1>3 DEF DeliveryOK
<1>5. /\ UNCHANGED <<odoo, stray, orders, packed, binding, staged, applied>>
      /\ JournalOK' /\ ledger'[c] = L
      /\ \A d \in Deliveries \ {c} : ledger'[d] = ledger[d]
      /\ ledger' \in [Deliveries -> SUBSET Package]
  <2>1. UNCHANGED <<odoo, stray, orders, packed, binding, staged, applied>>
    BY <1>1 DEF journal
  <2>2. JournalOK'
    BY <1>1, TypesKept
  <2>3. ledger \in [Deliveries -> SUBSET Package] /\ ledger' = [ledger EXCEPT ![c] = L]
    BY <1>1 DEF OutsideOK
  <2> QED BY <1>2, <1>4, <2>1, <2>2, <2>3
<1>6. /\ OutsideOK'
      /\ \A d \in Deliveries \ {c} : DeliverySame(d)
      /\ Grows(c) /\ PostsKept(c) /\ DeliveryOK(c)' /\ ClaimOK(c)'
  BY <1>1, <1>2, <1>4, <1>5, EventsOK
<1>7. CountersOK'
  BY <1>1, TypesKept
<1>8. /\ LocalsOK' /\ \A q \in Runs \ {r} : LocalsSame(q)
      /\ RunOK(r)' /\ PostingOK(r)' /\ ~Posting(r)'
  <2>1. CASE Step(r, "apply", "mark")
    <3>1. /\ LocalsOK' /\ pc'[r] = "mark" /\ UNCHANGED <<queue, reports>>
          /\ \A q \in Runs \ {r} : LocalsSame(q)
          /\ Current(r)' = c
      BY <1>1, <2>1, StepLocals DEF Pc
    <3>2. PostingOK(r)' /\ ~Posting(r)'
      BY <3>1 DEF PostingOK, Posting
    <3>3. Event(r)' = x
      BY <3>1 DEF Event
    <3>4. RunOK(r)'
      <4> HIDE DEF Current, Distinct, Event, SameFrozen, Frozen
      <4> QED BY <1>1, <1>2, <1>5, <1>6, <3>1, <3>3 DEF RunOK
    <3> QED BY <3>1, <3>2, <3>4
  <2>2. CASE Leave(r, "apply")
    BY <1>1, <2>2, LeaveLocals
  <2> QED BY <2>1, <2>2 DEF Apply, ApplyUnheard
<1> QED BY <1>2, <1>5, <1>6, <1>7, <1>8, RunStep

LEMMA MarkAppliedStep ==
  ASSUME IInv, NEW r \in Runs, MarkApplied(r)
  PROVE  IInv'
<1> PICK c : c = Current(r)
  OBVIOUS
<1> PICK x : x = Event(r)
  OBVIOUS
<1>1. /\ OutsideOK /\ JournalOK /\ LocalsOK /\ CountersOK /\ RunOK(r)
      /\ Goto(r, "mark", "apply") /\ pc[r] = "mark"
      /\ applied' = [applied EXCEPT ![c] = @ \cup {x}]
      /\ reports' = [reports EXCEPT ![r] = @ \ {x}]
      /\ UNCHANGED <<outside, binding, staged, phase, after_id, queue, row, token,
                     answer, tokens, trouble>>
  BY Types DEF IInv, MarkApplied, Goto
<1>2. /\ c \in Deliveries /\ DeliveryOK(c) /\ ClaimOK(c) /\ queue[r] # {}
      /\ reports[r] \subseteq staged[c] /\ x \in ledger[c]
      /\ staged[c] \in SUBSET Package
      /\ ledger[c] \in SUBSET Package /\ applied[c] \in SUBSET Package
  BY <1>1, BusyCurrent, IInvParts DEF RunOK, OutsideOK, JournalOK
<1> PICK A : A = applied[c] \cup {x}
  OBVIOUS
<1>3. /\ A \in SUBSET Package /\ A \subseteq ledger[c]
      /\ ledger[c] \subseteq staged[c] /\ Distinct(staged[c])
  BY <1>2 DEF DeliveryOK
<1>4. /\ UNCHANGED <<odoo, ledger, stray, orders, packed, binding, staged>>
      /\ JournalOK' /\ applied'[c] = A
      /\ \A d \in Deliveries \ {c} : applied'[d] = applied[d]
      /\ ledger' \in [Deliveries -> SUBSET Package]
  <2>1. UNCHANGED <<odoo, ledger, stray, orders, packed, binding, staged>>
    BY <1>1 DEF outside
  <2>2. ledger \in [Deliveries -> SUBSET Package]
    BY <1>1 DEF OutsideOK
  <2>3. applied \in [Deliveries -> SUBSET Package] /\ applied' = [applied EXCEPT ![c] = A]
    BY <1>1 DEF JournalOK
  <2>4. /\ applied'[c] = A /\ applied' \in [Deliveries -> SUBSET Package]
        /\ \A d \in Deliveries \ {c} : applied'[d] = applied[d]
    BY <1>2, <1>3, <2>3
  <2>5. JournalOK'
    BY <1>1, <2>1, <2>4 DEF JournalOK
  <2> QED BY <2>1, <2>2, <2>4, <2>5
<1>5. /\ OutsideOK'
      /\ \A d \in Deliveries \ {c} : DeliverySame(d)
      /\ Grows(c) /\ PostsKept(c) /\ DeliveryOK(c)' /\ ClaimOK(c)'
  BY <1>1, <1>2, <1>3, <1>4, EventsOK
<1>6. /\ LocalsOK' /\ pc'[r] = "apply" /\ Current(r)' = c
      /\ reports'[r] \subseteq reports[r]
      /\ \A q \in Runs \ {r} : LocalsSame(q)
  <2>1. "apply" \in Pc
    BY DEF Pc
  <2> QED BY <1>1, <1>2, <2>1 DEF LocalsOK, LocalsSame, Goto, Current
<1>7. CountersOK'
  BY <1>1, TypesKept
<1>8. RunOK(r)'
  <2>1. reports'[r] \subseteq staged'[c]
    BY <1>2, <1>4, <1>6
  <2> HIDE DEF Current, Distinct, Event, SameFrozen, Frozen
  <2> QED BY <1>1, <1>2, <1>6, <2>1 DEF RunOK
<1>9. PostingOK(r)' /\ ~Posting(r)'
  BY <1>6 DEF PostingOK, Posting
<1> QED BY <1>2, <1>4, <1>5, <1>6, <1>7, <1>8, <1>9, RunStep

-----------------------------------------------------------------------------
(* All steps *)

LEMMA InitIInv == Init => IInv
<1> SUFFICES ASSUME Init PROVE IInv
  OBVIOUS
<1> USE DEF Init
<1>1. \A d : OrdersOf(d) = {}
  BY DEF OrdersOf
<1>2. /\ odoo \in [Deliveries -> Picking]
      /\ \A d \in Deliveries :
           /\ odoo[d].dispatch = "queued" /\ odoo[d].claim_token = NoToken
           /\ ~odoo[d].claimed
  <2> PICK o : o = [dispatch |-> "queued", content |-> AContent,
                    claim_token |-> NoToken, wms_order_ref |-> 0, claimed |-> FALSE]
    OBVIOUS
  <2>1. /\ o \in Picking /\ o.dispatch = "queued" /\ o.claim_token = NoToken
        /\ ~o.claimed
    BY AContentIn DEF Picking
  <2> QED BY <2>1
<1>3. OutsideOK
  <2>1. orders \in Seq(Order)
    OBVIOUS
  <2>2. /\ ledger \in [Deliveries -> SUBSET Package]
        /\ stray \in [Deliveries -> Nat]
        /\ packed \in [Deliveries -> SUBSET Package]
    OBVIOUS
  <2> HIDE DEF Init
  <2> QED BY <1>2, <2>1, <2>2 DEF OutsideOK
<1>4. JournalOK /\ LocalsOK /\ CountersOK
  BY Nothing, ConstantsAssumption DEF JournalOK, LocalsOK, CountersOK, Pc
<1>5. \A d \in Deliveries :
        /\ binding[d].state = "absent" /\ binding[d].order_id = 0
        /\ staged[d] = {} /\ applied[d] = {} /\ ledger[d] = {} /\ packed[d] = {}
        /\ stray[d] = 0
  BY Nothing
<1>6. \A r \in Runs : pc[r] = "idle"
  OBVIOUS
<1> HIDE DEF Init
<1>7. \A d \in Deliveries : DeliveryOK(d) /\ ClaimOK(d)
  BY <1>1, <1>2, <1>5 DEF DeliveryOK, ClaimOK, Distinct
<1>8. \A r \in Runs : RunOK(r) /\ PostingOK(r) /\ ~Posting(r)
  BY <1>6 DEF RunOK, PostingOK, Posting
<1> QED BY <1>3, <1>4, <1>7, <1>8, Types, IInvParts DEF OnePoster

LEMMA NextStep == IInv /\ [Next]_vars => IInv'
<1> SUFFICES ASSUME IInv, [Next]_vars PROVE IInv'
  OBVIOUS
<1>1. ASSUME NEW r \in Runs, Progress(r) PROVE IInv'
  BY <1>1, IdleSteps, LeaveSteps, GoSteps, ReadStep, LookupStep, StageStep,
     ClaimSteps, StartPostStep, OutcomeStep, AcceptStep, TrackStep, RecordSteps,
     AcknowledgeSteps, FetchPackagesStep, StagePackagesStep, ApplySteps,
     MarkAppliedStep DEF Progress
<1>2. ASSUME NEW r \in Runs, Trouble(r) PROVE IInv'
  BY <1>2, IdleSteps, LeaveSteps, ClaimSteps, OutcomeStep, AnswerTooManyStep,
     AcknowledgeSteps, ApplySteps, AbandonedStep DEF Trouble
<1>3. CASE Outside
  <2>1. ASSUME NEW i \in DOMAIN orders, OrderSent(i) \/ OrderClosed(i) PROVE IInv'
    BY <2>1, OrderMovesStep DEF OrderSent, OrderClosed
  <2> QED BY <1>3, <2>1, RereleaseStep, RequeueStep, HandleStrayStep, PackagesStep
          DEF Outside
<1>4. CASE UNCHANGED vars
  <2>1. \A d : OrdersOf(d)' = OrdersOf(d)
    BY <1>4 DEF vars, outside, OrdersOf
  <2>2. \A d \in Deliveries : DeliverySame(d)
    BY <1>4, <2>1 DEF vars, outside, journal, DeliverySame
  <2>3. \A q \in Runs : LocalsSame(q)
    BY <1>4 DEF vars, locals, LocalsSame
  <2>4. OutsideOK' /\ JournalOK' /\ LocalsOK' /\ CountersOK'
    BY <1>4, Types, TypesKept DEF vars, IInv
  <2>5. \A d \in Deliveries :
          Grows(d) /\ PostsKept(d) /\ DeliveryOK(d)' /\ ClaimOK(d)'
    BY <2>2, SameKept, IInvParts
  <2>6. ASSUME NEW q \in Runs PROVE RunOK(q)' /\ PostingOK(q)'
    <3>1. Posting(q) => PostsKept(Current(q))
      BY <2>5, BusyCurrent DEF Posting
    <3> QED BY <2>3, <2>5, <3>1, RunKept, PostingKept
  <2>7. OnePoster'
    <3>1. \A q \in Runs : Posting(q)' => Posting(q) /\ Current(q)' = Current(q)
      BY <2>3 DEF LocalsSame, Posting, Current
    <3> QED BY <3>1 DEF IInv, OnePoster
  <2> QED BY <2>4, <2>5, <2>6, <2>7, TypesPrimed, IInvPrimed
<1> QED BY <1>1, <1>2, <1>3, <1>4 DEF Next

-----------------------------------------------------------------------------
(* Theorems *)

\* In every state Odoo, KSP, the journal and what each run has read of them
\* agree; the other theorems are parts of this invariant, or follow from it.
THEOREM Invariance == Spec => []IInv
BY InitIInv, NextStep, PTL DEF Spec

\* An order of KSP holds the contents that Odoo has released, whatever is
\* released anew, requeued, limited, broken off or retried.
THEOREM ReleaseMatched == Spec => []OrderMatchesRelease
<1>1. IInv => OrderMatchesRelease
  <2> SUFFICES ASSUME IInv, NEW i \in DOMAIN orders
               PROVE  orders[i].content = odoo[orders[i].code].content
    BY DEF OrderMatchesRelease
  <2> PICK d : d = orders[i].code
    OBVIOUS
  <2>1. orders \in Seq(Order)
    BY DEF IInv, TypeOK
  <2>2. orders[i] \in Order
    BY <2>1
  <2>3. d \in Deliveries /\ i \in OrdersOf(d)
    BY <2>2 DEF Order, OrdersOf
  <2>4. DeliveryOK(d)
    BY <2>3 DEF IInv
  <2>5. orders[i].content = binding[d].content /\ Frozen(d)
    BY <2>3, <2>4 DEF DeliveryOK
  <2> QED BY <2>5 DEF Frozen
<1> QED BY <1>1, Invariance, PTL

\* Odoo moves the stock of a package once, whatever KSP reports later, and only
\* a package that Odoo has is put down as applied.
THEOREM StockMovedOnce == Spec => []PackageOnce
<1>1. IInv => PackageOnce
  BY DEF IInv, DeliveryOK, Distinct, PackageOnce
<1> QED BY <1>1, Invariance, PTL

\* A delivery that is claimed or submitted can be taken up again from the
\* journal, and the order Odoo names is KSP's for it.
THEOREM Journaled == Spec => []ClaimIsJournaled
<1>1. IInv => ClaimIsJournaled
  BY DEF IInv
<1> QED BY <1>1, Invariance, PTL

\* KSP never has two orders for a delivery.
THEOREM OneOrder == Spec => []AtMostOneOrder
<1>1. IInv => AtMostOneOrder
  <2> SUFFICES ASSUME IInv, NEW d \in Deliveries PROVE Cardinality(OrdersOf(d)) <= 1
    BY DEF AtMostOneOrder
  <2>1. \A i, j \in OrdersOf(d) : i = j
    BY DEF IInv, DeliveryOK
  <2>2. OrdersOf(d) = {} \/ \E i : OrdersOf(d) = {i}
    BY <2>1
  <2>3. Cardinality(OrdersOf(d)) = 0 \/ Cardinality(OrdersOf(d)) = 1
    BY <2>2, FS_EmptySet, FS_Singleton
  <2> QED BY <2>3
<1> QED BY <1>1, Invariance, PTL

\* An order that exists, or may still come to exist, is not behind a journal row
\* that would be posted.
THEOREM NothingSilent == Spec => []NoSilentOrder
<1>1. IInv => NoSilentOrder
  BY DEF IInv, DeliveryOK, NoSilentOrder
<1> QED BY <1>1, Invariance, PTL

-----------------------------------------------------------------------------
(* The refinement *)

Intents == [d \in Deliveries |-> IntentOf(binding[d])]
Effects == [d \in Deliveries |-> OrdersOf(d)]

\* The intent of delivery c moves, and nothing else that the specification sees.
LEMMA MoveMaps ==
  ASSUME NEW c \in Deliveries, UNCHANGED orders,
         \A d \in Deliveries \ {c} : binding'[d] = binding[d],
         NEW a, NEW b, a = IntentOf(binding[c]), b = IntentOf(binding'[c]),
         \/ a = b
         \/ a = "waiting" /\ b = "posting"
         \/ a = "posting" /\ b = "waiting" /\ OrdersOf(c) = {}
         \/ a = "posting" /\ b = "sent" /\ OrdersOf(c) # {}
         \/ a = "posting" /\ b = "held"
  PROVE  Post!Next \/ UNCHANGED Post!vars
<1>1. UNCHANGED Effects /\ Effects[c] = OrdersOf(c)
  BY DEF Effects, OrdersOf
<1>2. Intents' = [Intents EXCEPT ![c] = b] /\ Intents[c] = a
  <2>1. \A d \in Deliveries : IntentOf(binding'[d]) =
          IF d = c THEN b ELSE IntentOf(binding[d])
    OBVIOUS
  <2>2. Intents' = [d \in Deliveries |-> IntentOf(binding'[d])]
    BY DEF Intents
  <2> QED BY <2>1, <2>2 DEF Intents
<1>3. CASE a = b
  <2>1. UNCHANGED Intents
    BY <1>2, <1>3 DEF Intents
  <2> QED BY <1>1, <2>1 DEF Post!vars, Intents, Effects
<1>4. CASE a # b
  <2>1. Post!Start(c) \/ Post!Release(c) \/ Post!Complete(c) \/ Post!Hold(c)
    BY <1>1, <1>2, <1>4 DEF Post!Start, Post!Release, Post!Complete, Post!Hold,
       Post!Move, Intents, Effects
  <2> QED BY <2>1 DEF Post!Next
<1> QED BY <1>3, <1>4

\* KSP creates the order of a delivery that is posted, or was and is held.
LEMMA CreateMaps ==
  ASSUME OutsideOK, JournalOK, NEW c \in Deliveries, OrdersOf(c) = {},
         DeliveryOK(c), binding[c].state \notin {"absent", "ready"},
         UNCHANGED binding, NEW s \in {"received", "sent"}, Created(c, s)
  PROVE  Post!Next
<1> PICK o : o = [code |-> c, content |-> binding[c].content, status |-> s]
  OBVIOUS
<1>1. o \in Order /\ o.code = c /\ orders' = Append(orders, o)
  BY DEF Order, JournalOK, Binding, Created
<1> PICK n : n = Len(orders) + 1
  OBVIOUS
<1>2. /\ OrdersOf(c)' = {n}
      /\ \A d \in Deliveries \ {c} : OrdersOf(d)' = OrdersOf(d)
  BY <1>1, Appending
<1>3. Effects' = [Effects EXCEPT ![c] = {n}] /\ Effects[c] = {} /\ n \in Effects'[c]
  BY <1>2 DEF Effects
<1>4. UNCHANGED Intents /\ Intents[c] \in {"posting", "held"}
  <2>1. binding[c].order_id = 0
    BY DEF DeliveryOK
  <2>2. IntentOf(binding[c]) \in {"posting", "held"}
    BY <2>1 DEF IntentOf
  <2> QED BY <2>2 DEF Intents
<1>5. Post!Create(c)
  BY <1>3, <1>4 DEF Post!Create, Intents, Effects
<1> QED BY <1>5 DEF Post!Next

\* KSP's answers, and the requests it handles late.
LEMMA CreationMaps ==
  ASSUME IInv,
         \/ \E r \in Runs : \/ \E s \in {"received", "sent"} : AnswerCreated(r, s)
                             \/ AnswerUnclear(r)
         \/ \E d \in Deliveries : HandleStray(d)
  PROVE  Post!Next \/ UNCHANGED Post!vars
<1>1. OutsideOK /\ JournalOK
  BY Types DEF IInv
<1>2. UNCHANGED binding
  BY DEF AnswerCreated, AnswerUnclear, Answered, HandleStray, journal
<1>3. CASE UNCHANGED orders
  BY <1>2, <1>3 DEF Post!vars, OrdersOf
<1>4. ASSUME NEW r \in Runs, NEW s \in {"received", "sent"},
             Created(Current(r), s), Goto(r, "await", "accept")
      PROVE  Post!Next
  <2> PICK c : c = Current(r)
    OBVIOUS
  <2>1. pc[r] = "await" /\ Posting(r) /\ PostingOK(r)
    BY <1>4 DEF Goto, Posting, IInv
  <2>2. c \in Deliveries /\ binding[c].state = "posting"
    BY <2>1, PostingAlone
  <2>3. OrdersOf(c) = {} /\ DeliveryOK(c)
    BY <2>1, <2>2 DEF PostingOK, IInv
  <2> QED BY <1>1, <1>2, <1>4, <2>2, <2>3, CreateMaps
<1>5. ASSUME NEW d \in Deliveries, stray[d] > 0, Created(d, "received")
      PROVE  Post!Next
  <2>1. /\ DeliveryOK(d) /\ OrdersOf(d) = {}
        /\ binding[d].state \notin {"absent", "ready"}
    BY <1>5 DEF IInv, DeliveryOK
  <2> QED BY <1>1, <1>2, <1>5, <2>1, CreateMaps
<1> QED BY <1>3, <1>4, <1>5 DEF AnswerCreated, AnswerUnclear, Answered, HandleStray

\* The updates of the journal.
LEMMA JournalMaps ==
  ASSUME IInv, NEW r \in Runs,
         Stage(r) \/ StartPost(r) \/ Accept(r) \/ Record(r) \/ MarkAcknowledged(r)
  PROVE  Post!Next \/ UNCHANGED Post!vars
<1> PICK c : c = Current(r)
  OBVIOUS
<1>1. /\ OutsideOK /\ JournalOK /\ RunOK(r) /\ PostingOK(r)
      /\ pc[r] \in {"stage", "submit", "accept", "record", "acked"}
      /\ UNCHANGED outside
  BY Types DEF IInv, Stage, StartPost, Accept, Record, MarkAcknowledged, Step,
     Leave, Goto
<1>2. /\ c \in Deliveries /\ DeliveryOK(c) /\ binding[c] \in Binding
      /\ UNCHANGED orders
  BY <1>1, BusyCurrent DEF IInv, JournalOK, outside
<1>3. CASE Stage(r)
  <2>1. CASE binding' = binding
    BY <1>2, <2>1 DEF Post!vars, OrdersOf
  <2>2. CASE binding[c].state = "absent"
    <3> PICK b : b = [state |-> "ready", content |-> row[r].content,
                      claim_token |-> token[r], order_id |-> 0]
      OBVIOUS
    <3>1. binding' = [binding EXCEPT ![c] = b]
      BY <1>3, <2>2 DEF Stage
    <3>2. /\ \A d \in Deliveries \ {c} : binding'[d] = binding[d]
          /\ binding'[c].state = "ready" /\ binding'[c].order_id = 0
      BY <1>1, <1>2, <3>1 DEF JournalOK
    <3>3. binding[c].order_id = 0
      BY <1>2, <2>2 DEF DeliveryOK
    <3>4. IntentOf(binding[c]) = IntentOf(binding'[c])
      BY <2>2, <3>2, <3>3 DEF IntentOf
    <3> QED BY <1>2, <3>2, <3>4, MoveMaps
  <2> QED BY <1>3, <2>1, <2>2 DEF Stage
<1>4. CASE StartPost(r)
  <2>1. /\ binding' = [binding EXCEPT ![c].state = "posting"]
        /\ binding[c].state = "ready"
    BY <1>4 DEF StartPost
  <2>2. /\ \A d \in Deliveries \ {c} : binding'[d] = binding[d]
        /\ binding'[c].state = "posting" /\ binding'[c].order_id = binding[c].order_id
    BY <1>1, <1>2, <2>1 DEF JournalOK, Binding
  <2>3. binding[c].order_id = 0
    BY <1>2, <2>1 DEF DeliveryOK
  <2>4. IntentOf(binding[c]) = "waiting" /\ IntentOf(binding'[c]) = "posting"
    BY <2>1, <2>2, <2>3 DEF IntentOf
  <2> QED BY <1>2, <2>2, <2>4, MoveMaps
<1>5. ASSUME NEW state, NEW id, Written(c, state, id)
      PROVE  /\ \A d \in Deliveries \ {c} : binding'[d] = binding[d]
             /\ binding'[c].state = state
             /\ binding'[c].order_id = IF id = 0 THEN binding[c].order_id ELSE id
  BY <1>1, <1>2, <1>5 DEF Written, JournalOK, Binding
<1>6. CASE Accept(r)
  <2> PICK a : a = answer[r]
    OBVIOUS
  <2>1. Written(c, a.state, a.order_id) /\ Posting(r)
    BY <1>6 DEF Accept, Posting
  <2>2. binding[c].state = "posting" /\ binding[c].order_id = 0
    BY <1>2, <2>1, PostingAlone DEF DeliveryOK
  <2>3. /\ \A d \in Deliveries \ {c} : binding'[d] = binding[d]
        /\ binding'[c].state = a.state
        /\ binding'[c].order_id = a.order_id
    BY <1>5, <2>1, <2>2
  <2>4. \A i \in OrdersOf(c) : i # 0
    BY <1>1 DEF OrdersOf, OutsideOK
  <2>5. /\ a.state = "ready" => OrdersOf(c) = {}
        /\ \/ a.state \in {"ready", "uncertain"} /\ a.order_id = 0
           \/ a.state \in {"pending", "accepted"} /\ a.order_id \in OrdersOf(c)
    BY <1>1, <1>6, <2>1 DEF PostingOK, Accept
  <2>6. IntentOf(binding[c]) = "posting"
    BY <2>2 DEF IntentOf
  <2>7. \/ IntentOf(binding'[c]) = "waiting" /\ OrdersOf(c) = {}
        \/ IntentOf(binding'[c]) = "held"
        \/ IntentOf(binding'[c]) = "sent" /\ OrdersOf(c) # {}
    BY <2>3, <2>4, <2>5 DEF IntentOf
  <2> QED BY <1>2, <2>3, <2>6, <2>7, MoveMaps
<1>7. CASE Record(r) \/ MarkAcknowledged(r)
  <2>1. binding[c].order_id # 0
    BY <1>1, <1>7 DEF RunOK, Record, MarkAcknowledged, Leave, Goto
  <2>2. \E state, id : Written(c, state, id) /\ id \in {0, binding[c].order_id}
    BY <1>1, <1>7 DEF RunOK, Record, MarkAcknowledged
  <2>3. /\ \A d \in Deliveries \ {c} : binding'[d] = binding[d]
        /\ binding'[c].order_id = binding[c].order_id
    BY <1>5, <2>2
  <2>4. IntentOf(binding[c]) = "sent" /\ IntentOf(binding'[c]) = "sent"
    BY <2>1, <2>3 DEF IntentOf
  <2> QED BY <1>2, <2>3, <2>4, MoveMaps
<1> QED BY <1>3, <1>4, <1>6, <1>7

\* The connector implements the at-most-once poster, in which a request that was
\* certainly refused (429) goes back in the line: the intent is in the journal
\* before the POST, an order id is recorded only for an order that exists, and
\* what is uncertain is never posted again.
THEOREM Refinement == Spec => PostSpec
<1>1. Init => Post!Init
  <2> SUFFICES ASSUME Init PROVE Post!Init
    OBVIOUS
  <2>1. \A d \in Deliveries : binding[d].state = "absent" /\ binding[d].order_id = 0
    BY Nothing DEF Init
  <2>2. \A d \in Deliveries : IntentOf(binding[d]) = "waiting" /\ OrdersOf(d) = {}
    BY <2>1 DEF IntentOf, OrdersOf, Init
  <2> QED BY <2>2 DEF Post!Init
<1>2. IInv /\ [Next]_vars => [Post!Next]_(Post!vars)
  <2> SUFFICES ASSUME IInv, [Next]_vars
               PROVE  Post!Next \/ UNCHANGED Post!vars
    OBVIOUS
  <2>1. CASE UNCHANGED <<binding, orders>>
    BY <2>1 DEF Post!vars, OrdersOf
  <2>2. ASSUME NEW i, NEW from, NEW to, OrderMoves(i, from, to)
        PROVE  Post!Next \/ UNCHANGED Post!vars
    <3>1. /\ orders \in Seq(Order) /\ i \in DOMAIN orders /\ UNCHANGED binding
          /\ orders' = [orders EXCEPT ![i].status = to]
      BY <2>2 DEF IInv, TypeOK, OrderMoves, journal
    <3>2. orders[i] \in Order
      BY <3>1
    <3>3. \A j \in DOMAIN orders : orders'[j].code = orders[j].code
      BY <3>1, <3>2 DEF Order
    <3>4. \A d : OrdersOf(d)' = OrdersOf(d)
      BY <3>1, <3>3 DEF OrdersOf
    <3> QED BY <3>1, <3>4 DEF Post!vars
  <2>3. ASSUME NEW r \in Runs, Progress(r)
        PROVE  Post!Next \/ UNCHANGED Post!vars
    <3>1. \/ UNCHANGED <<binding, orders>>
          \/ \E s \in {"received", "sent"} : AnswerCreated(r, s)
          \/ Stage(r) \/ StartPost(r) \/ Accept(r) \/ Record(r)
          \/ MarkAcknowledged(r)
      BY <2>3 DEF Progress, StartTick, StartPolls, EndTick, Read, Skip, Lookup,
         LookupFails, StageFails, Claim, ClaimRefused, Reread, NoPost, SendPost,
         Reconcile, Track, Check, Acknowledge, AcknowledgeRefused, Poll,
         FetchPackages, FetchRefused, StagePackages, StagePackagesFails, Apply,
         MarkApplied, EndPackages, outside, journal
    <3> QED BY <2>1, <3>1, CreationMaps, JournalMaps
  <2>4. ASSUME NEW r \in Runs, Trouble(r)
        PROVE  Post!Next \/ UNCHANGED Post!vars
    <3>1. UNCHANGED <<binding, orders>> \/ AnswerUnclear(r)
      BY <2>4 DEF Trouble, DiscoveryFails, ClaimUnheard, AnswerTooMany, Answered,
         TransportError, AcknowledgeUnheard, ApplyUnheard, OtherError, Crash,
         outside, journal
    <3> QED BY <2>1, <3>1, CreationMaps
  <2>5. CASE Outside
    <3>1. \/ UNCHANGED <<binding, orders>>
          \/ \E d \in Deliveries : HandleStray(d)
          \/ \E i, from, to : OrderMoves(i, from, to)
      BY <2>5 DEF Outside, Rerelease, Requeue, Pack, Repack, OrderSent, OrderClosed,
         journal
    <3> QED BY <2>1, <2>2, <3>1, CreationMaps
  <2>6. CASE UNCHANGED vars
    BY <2>1, <2>6 DEF vars, outside, journal
  <2> QED BY <2>3, <2>4, <2>5, <2>6 DEF Next
<1> QED BY <1>1, <1>2, Invariance, PTL DEF Spec, PostSpec, Post!Spec
=============================================================================
