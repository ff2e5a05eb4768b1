--------------------------- MODULE OrderPushProofs ---------------------------
(***************************************************************************)
(* Proofs about OrderPush, for any orders, lines, retry limits and number  *)
(* of broken connections and crashes                                       *)
(***************************************************************************)
EXTENDS OrderPush, TLAPS

-----------------------------------------------------------------------------
(* Lemmas about the operators *)

\* Appending adds one element at the end.
LEMMA Appended ==
  ASSUME NEW S, NEW s \in Seq(S), NEW e \in S
  PROVE  /\ Len(s) \in Nat
         /\ Append(s, e) \in Seq(S)
         /\ Len(Append(s, e)) = Len(s) + 1
         /\ \A i \in 1 .. Len(s) : Append(s, e)[i] = s[i]
         /\ Append(s, e)[Len(s) + 1] = e
OBVIOUS

LEMMA IdleTask ==
  ASSUME NEW o \in Orders
  PROVE  /\ Idle(o) \in Task
         /\ Idle(o).pc = "off" /\ Idle(o).lines = {} /\ Idle(o).answer = "none"
         /\ Idle(o).number = [base |-> o, suffix |-> 0] /\ Idle(o).duplicates = 0
BY ConstantsAssumption DEF Idle, Task, Number, Answer

\* What a task would post is a post.
LEMMA PostOfTask ==
  ASSUME TypeOK, NEW o \in Orders
  PROVE  PostOf(o) \in Post
BY DEF TypeOK, PostOf, Post, Task

\* A task that waits for SOS does so in the phase of the posts, and its rows
\* are pending.
LEMMA Waiting ==
  ASSUME IInv, NEW o \in Orders, task[o].pc \in {"send", "await"},
         task[o].pc = "await" \/ pc = "post"
  PROVE  /\ pc = "post"
         /\ \A l \in task[o].lines : sync[l].status = "pending"
<1>1. TaskOK(o)
  BY DEF IInv
<1>2. pc = "post"
  BY <1>1 DEF TaskOK
<1> QED BY <1>1, <1>2 DEF TaskOK

\* A sales order more: what SOS has for a line.
LEMMA OrderCreated ==
  ASSUME TypeOK, NEW p \in Post, sos' = Append(sos, p)
  PROVE  /\ sos' \in Seq(Post) /\ Len(sos) \in Nat
         /\ Len(sos') = Len(sos) + 1
         /\ \A i \in 1 .. Len(sos) : sos'[i] = sos[i]
         /\ sos'[Len(sos) + 1] = p
         /\ \A l : OrdersWith(l)' =
              OrdersWith(l) \cup (IF l \in p.lines THEN {Len(sos) + 1} ELSE {})
<1>1. /\ sos' \in Seq(Post) /\ Len(sos) \in Nat
      /\ Len(sos') = Len(sos) + 1
      /\ \A i \in 1 .. Len(sos) : sos'[i] = sos[i]
      /\ sos'[Len(sos) + 1] = p
  BY Appended DEF TypeOK
<1>2. 1 .. Len(sos') = 1 .. Len(sos) \cup {Len(sos) + 1}
  BY <1>1
<1>3. ASSUME NEW l
      PROVE  OrdersWith(l)' =
               OrdersWith(l) \cup (IF l \in p.lines THEN {Len(sos) + 1} ELSE {})
  BY <1>1, <1>2 DEF OrdersWith
<1> QED BY <1>1, <1>3

-----------------------------------------------------------------------------
(* Kinds of steps *)

\* Acenda or SOS data is loaded: nothing the invariant relates changes.
LEMMA LoadStep ==
  ASSUME IInv, NEW l \in Lines, List(l) \/ LearnSku(l)
  PROVE  IInv'
<1> USE DEF List, LearnSku
<1>1. TypeOK'
  BY DEF IInv, TypeOK
<1>2. CommittedBeforePost' /\ SentIsBacked' /\ RowsOK'
  BY DEF IInv, CommittedBeforePost, Posts, SentIsBacked, OrdersWith, RowsOK
<1>3. \A o \in Orders : TaskOK(o)'
  BY DEF IInv, TaskOK, PostOf
<1>4. \A p \in Posts' : PostOK(p)'
  BY DEF IInv, PostOK, Posts
<1>5. Exact'
  BY DEF IInv, Exact, OrdersWith
<1> QED BY <1>1, <1>2, <1>3, <1>4, <1>5 DEF IInv

\* A task goes on, without a sales order and without a change of its rows; when
\* it gives a request up, that may still arrive.
LEMMA TaskStep ==
  ASSUME IInv, NEW o \in Orders, NEW t \in Task,
         task' = [task EXCEPT ![o] = t],
         pc = "post", task[o].pc \in {"send", "await"},
         t.pc \in {"send", "await"}, t.lines = task[o].lines, t.answer # "ok",
         t.number.base \in {o, Clock}, t.number.suffix <= t.duplicates,
         t.pc = "send" => t.attempt < MaxAttempts,
         trouble' \in 0 .. MaxTrouble,
         \/ stray' = stray /\ trouble' = trouble /\ task[o].answer # "ok"
         \/ stray' \in {stray, stray \cup {PostOf(o)}} /\ trouble' # 0,
         UNCHANGED <<Database, sos, pc, open, crashes>>
  PROVE  IInv'
<1> USE DEF Database
<1>1. TypeOK'
  BY PostOfTask DEF IInv, TypeOK
<1>2. /\ task'[o] = t
      /\ \A q \in Orders : q # o => task'[q] = task[q]
      /\ \A q \in Orders : task'[q].lines = task[q].lines
  BY DEF IInv, TypeOK
<1> PICK mine : mine = PostOf(o)
  OBVIOUS
<1>3. TaskOK(o) /\ Posts' \subseteq Posts \cup {mine}
  BY DEF IInv, Posts
<1>4. \A l \in task[o].lines : sync[l].status = "pending"
  BY Waiting
<1>5. CommittedBeforePost'
  BY <1>3, <1>4 DEF IInv, CommittedBeforePost, PostOf
<1>6. SentIsBacked' /\ RowsOK'
  BY DEF IInv, SentIsBacked, OrdersWith, RowsOK
<1>7. \A q \in Orders : TaskOK(q)'
  <2>1. TaskOK(o)'
    BY <1>2, <1>3, <1>4 DEF TaskOK, PostOf
  <2>2. ASSUME NEW q \in Orders, q # o PROVE TaskOK(q)'
    BY <1>2, <2>2 DEF IInv, TaskOK, PostOf
  <2> QED BY <2>1, <2>2
<1>8. \A p \in Posts' : PostOK(p)'
  <2>1. PostOK(mine)'
    <3>1. mine.lines = task[o].lines
      BY DEF PostOf
    <3> QED BY <1>2, <1>3, <3>1 DEF IInv, TaskOK, PostOK
  <2>2. ASSUME NEW q \in Posts PROVE PostOK(q)'
    BY <1>2 DEF IInv, PostOK
  <2> QED BY <1>3, <2>1, <2>2
<1>9. Exact'
  BY <1>2 DEF IInv, Exact, OrdersWith
<1> QED BY <1>1, <1>5, <1>6, <1>7, <1>8, <1>9 DEF IInv

\* SOS creates the sales order of a task, which is told.
LEMMA CreatedStep ==
  ASSUME IInv, NEW o \in Orders,
         task[o].pc = "await", task[o].answer = "none",
         sos' = Append(sos, PostOf(o)),
         task' = [task EXCEPT ![o].answer = "ok", ![o].id = Len(sos) + 1],
         UNCHANGED <<Database, stray, pc, open, trouble, crashes>>
  PROVE  IInv'
<1> PICK p, n : p = PostOf(o) /\ n = Len(sos) + 1
  OBVIOUS
<1> USE DEF Database
<1>1. /\ p \in Post /\ p.lines = task[o].lines
      /\ p.number = task[o].number
  BY PostOfTask DEF IInv, PostOf
<1>2. /\ sos' \in Seq(Post) /\ Len(sos) \in Nat /\ Len(sos') = n
      /\ \A i \in 1 .. Len(sos) : sos'[i] = sos[i]
      /\ sos'[n] = p
      /\ \A l : OrdersWith(l)' = OrdersWith(l) \cup (IF l \in p.lines THEN {n} ELSE {})
  BY <1>1, OrderCreated DEF IInv
<1>3. /\ task' \in [Orders -> Task]
      /\ task'[o].pc = "await" /\ task'[o].answer = "ok" /\ task'[o].id = n
      /\ task'[o].lines = task[o].lines /\ task'[o].number = task[o].number
      /\ task'[o].duplicates = task[o].duplicates
      /\ \A q \in Orders : q # o => task'[q] = task[q]
  <2>1. task[o] \in Task /\ n \in Nat /\ task \in [Orders -> Task]
    BY <1>2 DEF IInv, TypeOK
  <2>2. /\ task' = [task EXCEPT ![o] = task'[o]]
        /\ task'[o] = [task[o] EXCEPT !.answer = "ok", !.id = n]
    BY <2>1
  <2>3. /\ task'[o] \in Task
        /\ task'[o].pc = "await" /\ task'[o].answer = "ok" /\ task'[o].id = n
        /\ task'[o].lines = task[o].lines /\ task'[o].number = task[o].number
        /\ task'[o].duplicates = task[o].duplicates
    BY <2>1, <2>2 DEF Task, Answer
  <2> QED BY <2>1, <2>2, <2>3
<1>4. Posts' \subseteq Posts \cup {p}
  BY <1>2 DEF Posts
<1>5. TaskOK(o)
  BY DEF IInv
<1>6. pc = "post" /\ \A l \in p.lines : sync[l].status = "pending"
  BY <1>1, Waiting
<1>7. TypeOK'
  BY <1>2, <1>3 DEF IInv, TypeOK
<1>8. CommittedBeforePost'
  BY <1>4, <1>6 DEF IInv, CommittedBeforePost
<1>9. SentIsBacked'
  BY <1>2 DEF IInv, SentIsBacked, OrdersWith
<1>10. RowsOK'
  BY DEF IInv, RowsOK
<1>11. \A q \in Orders : TaskOK(q)'
  <2>1. PostOf(o)' = p
    BY <1>1, <1>3 DEF PostOf
  <2>2. TaskOK(o)'
    BY <1>2, <1>3, <1>5, <1>6, <2>1 DEF TaskOK
  <2>3. ASSUME NEW q \in Orders, q # o PROVE TaskOK(q)'
    <3>1. TaskOK(q) /\ PostOf(q)' = PostOf(q)
      BY <1>3, <2>3 DEF IInv, PostOf
    <3> QED BY <1>2, <1>3, <2>3, <3>1 DEF TaskOK
  <2> QED BY <2>2, <2>3
<1>12. \A q \in Posts' : PostOK(q)'
  <2>1. PostOK(p)'
    BY <1>1, <1>3, <1>5 DEF IInv, TaskOK, PostOK
  <2>2. ASSUME NEW q \in Posts PROVE PostOK(q)'
    BY <1>3 DEF IInv, PostOK
  <2> QED BY <1>4, <2>1, <2>2
<1>13. Exact'
  <2> SUFFICES ASSUME trouble = 0, NEW l \in Lines
               PROVE  /\ \A i, j \in OrdersWith(l)' : i = j
                      /\ sync[l].status = "failed" => OrdersWith(l)' = {}
                      /\ \A q \in stray : l \in q.lines =>
                           /\ OrdersWith(l)' = {} /\ sync[l].status = "pending"
                           /\ \A r \in stray : l \in r.lines => q = r
                           /\ \A r \in Orders : l \notin task'[r].lines
                      /\ \A r \in Orders :
                           l \in task'[r].lines /\ task'[r].pc # "done"
                             /\ task'[r].answer # "ok"
                           => OrdersWith(l)' = {}
    BY DEF Exact
  <2>1. CASE l \in p.lines
    <3>1. OrdersWith(l)' = {n} /\ sync[l].status = "pending"
      BY <1>1, <1>2, <1>6, <2>1 DEF IInv, Exact
    <3>2. OrderOf[l] = o /\ \A q \in stray : l \notin q.lines
      BY <1>1, <1>5, <2>1 DEF IInv, Exact, TaskOK
    <3>3. \A r \in Orders : l \in task'[r].lines => r = o
      BY <1>3, <3>2 DEF IInv, TaskOK
    <3> QED BY <1>3, <3>1, <3>2, <3>3
  <2>2. CASE l \notin p.lines
    <3>1. OrdersWith(l)' = OrdersWith(l)
      BY <1>2, <2>2
    <3>2. l \notin task[o].lines
      BY <1>1, <2>2
    <3> QED BY <1>3, <3>1, <3>2 DEF IInv, Exact
  <2> QED BY <2>1, <2>2
<1> QED BY <1>7, <1>8, <1>9, <1>10, <1>11, <1>12, <1>13 DEF IInv

\* A request whose sender is gone reaches SOS, or does not.
LEMMA LateStep ==
  ASSUME IInv, NEW p \in stray, Late(p)
  PROVE  IInv'
<1> USE DEF Late, Database
<1> PICK n : n = Len(sos) + 1
  OBVIOUS
<1>1. p \in Post /\ p \in Posts /\ Posts' \subseteq Posts \cup {p}
  <2>1. p \in Post /\ p \in Posts
    BY DEF IInv, TypeOK, Posts
  <2>2. CASE sos' = Append(sos, p)
    BY <2>1, <2>2, OrderCreated DEF IInv, Posts
  <2>3. CASE UNCHANGED sos
    <3>1. stray' \subseteq stray
      OBVIOUS
    <3> QED BY <2>1, <2>3, <3>1 DEF Posts
  <2> QED BY <2>1, <2>2, <2>3
<1>2. /\ sos' \in Seq(Post) /\ Len(sos) \in Nat /\ Len(sos') >= Len(sos)
      /\ \A i \in 1 .. Len(sos) : sos'[i] = sos[i]
      /\ \A l : \/ OrdersWith(l)' = OrdersWith(l)
                \/ l \in p.lines /\ OrdersWith(l)' = OrdersWith(l) \cup {n}
  <2>1. CASE sos' = Append(sos, p)
    <3>1. /\ sos' \in Seq(Post) /\ Len(sos) \in Nat /\ Len(sos') = Len(sos) + 1
          /\ \A i \in 1 .. Len(sos) : sos'[i] = sos[i]
          /\ \A l : OrdersWith(l)' =
               OrdersWith(l) \cup (IF l \in p.lines THEN {Len(sos) + 1} ELSE {})
      BY <1>1, <2>1, OrderCreated DEF IInv
    <3>2. ASSUME NEW l
          PROVE  \/ OrdersWith(l)' = OrdersWith(l)
                 \/ l \in p.lines /\ OrdersWith(l)' = OrdersWith(l) \cup {n}
      <4>1. OrdersWith(l)' =
              OrdersWith(l) \cup (IF l \in p.lines THEN {Len(sos) + 1} ELSE {})
        BY <3>1
      <4> HIDE DEF Late
      <4> QED BY <4>1
    <3> QED BY <3>1, <3>2
  <2>2. CASE UNCHANGED sos
    BY <2>2 DEF IInv, TypeOK, OrdersWith
  <2> QED BY <2>1, <2>2
<1>3. TypeOK'
  BY <1>2 DEF IInv, TypeOK
<1>4. CommittedBeforePost'
  BY <1>1 DEF IInv, CommittedBeforePost
<1>5. SentIsBacked' /\ RowsOK'
  BY <1>2 DEF IInv, SentIsBacked, OrdersWith, RowsOK
<1>6. \A q \in Orders : TaskOK(q)'
  BY <1>2 DEF IInv, TaskOK, PostOf
<1>7. \A q \in Posts' : PostOK(q)'
  BY <1>1 DEF IInv, PostOK
<1>8. Exact'
  <2> SUFFICES ASSUME trouble = 0, NEW l \in Lines
               PROVE  /\ \A i, j \in OrdersWith(l)' : i = j
                      /\ sync[l].status = "failed" => OrdersWith(l)' = {}
                      /\ \A q \in stray' : l \in q.lines =>
                           /\ OrdersWith(l)' = {} /\ sync[l].status = "pending"
                           /\ \A r \in stray' : l \in r.lines => q = r
                           /\ \A r \in Orders : l \notin task[r].lines
                      /\ \A r \in Orders :
                           l \in task[r].lines /\ task[r].pc # "done"
                             /\ task[r].answer # "ok"
                           => OrdersWith(l)' = {}
    BY DEF Exact
  <2>1. CASE OrdersWith(l)' = OrdersWith(l)
    BY <2>1 DEF IInv, Exact
  <2>2. CASE l \in p.lines /\ OrdersWith(l)' = OrdersWith(l) \cup {n}
    <3>1. /\ OrdersWith(l) = {} /\ sync[l].status = "pending"
          /\ \A r \in stray : l \in r.lines => p = r
          /\ \A r \in Orders : l \notin task[r].lines
      BY <2>2 DEF IInv, Exact
    <3> QED BY <2>2, <3>1
  <2> QED BY <1>2, <2>1, <2>2
<1> QED BY <1>3, <1>4, <1>5, <1>6, <1>7, <1>8 DEF IInv

\* The rows of a task get their last status: "sent" with what SOS answered, and
\* "failed" where SOS has nothing or an answer was lost.
LEMMA MarkStep ==
  ASSUME IInv, NEW o \in Orders, NEW status \in {"sent", "failed"}, NEW id \in Nat,
         task[o].pc = "await", Mark(o, status, id), Done(o),
         status = "sent" => task[o].answer = "ok" /\ id = task[o].id,
         status = "failed" => task[o].answer # "ok" \/ trouble' # 0,
         trouble' \in 0 .. MaxTrouble, trouble' = trouble \/ trouble' # 0,
         \/ stray' = stray
         \/ stray' = stray \cup {PostOf(o)} /\ trouble' # 0,
         UNCHANGED <<listed, bad, known, sos, pc, open, crashes>>
  PROVE  IInv'
<1> PICK p : p = PostOf(o)
  OBVIOUS
<1> PICK mark : mark = [status |-> status,
                        sos_order_id |-> IF status = "sent" THEN id ELSE 0]
  OBVIOUS
<1>1. TaskOK(o) /\ p \in Post /\ p.lines = task[o].lines
  BY PostOfTask DEF IInv, PostOf
<1>2. pc = "post" /\ \A l \in task[o].lines : sync[l].status = "pending"
  BY Waiting
<1>3. /\ task' \in [Orders -> Task]
      /\ task'[o].pc = "done" /\ task'[o].answer = "none"
      /\ task'[o].lines = task[o].lines /\ task'[o].number = task[o].number
      /\ task'[o].duplicates = task[o].duplicates
      /\ \A q \in Orders : q # o => task'[q] = task[q]
  <2>1. task[o] \in Task /\ task \in [Orders -> Task]
    BY DEF IInv, TypeOK
  <2>2. /\ task' = [task EXCEPT ![o] = task'[o]]
        /\ task'[o] = [task[o] EXCEPT !.pc = "done", !.answer = "none"]
    BY <2>1 DEF Done
  <2>3. /\ task'[o] \in Task
        /\ task'[o].pc = "done" /\ task'[o].answer = "none"
        /\ task'[o].lines = task[o].lines /\ task'[o].number = task[o].number
        /\ task'[o].duplicates = task[o].duplicates
    BY <2>1, <2>2 DEF Task, Answer
  <2> QED BY <2>1, <2>2, <2>3
<1>4. /\ mark \in Row /\ mark.status = status /\ mark.status # "none"
      /\ mark.sos_order_id = IF status = "sent" THEN id ELSE 0
  BY DEF Row
<1>5. /\ sync' \in [Lines -> Row]
      /\ \A l \in task[o].lines : sync'[l] = mark
      /\ \A l \in Lines : l \notin task[o].lines => sync'[l] = sync[l]
  <2>1. /\ sync \in [Lines -> Row] /\ task[o].lines \subseteq Lines
        /\ \A l \in task[o].lines : sync[l].sos_order_id = 0
    BY <1>2 DEF IInv, TypeOK, Task, RowsOK
  <2> QED BY <1>4, <2>1 DEF Mark
<1>6. Posts' \subseteq Posts \cup {p}
  BY DEF Posts
<1>7. \A q \in Posts \cup {p} :
        q.lines \subseteq Lines /\ (q.lines = task[o].lines
                                    \/ q.lines \cap task[o].lines = {})
  <2>1. \A q \in Posts : q.lines \subseteq Lines
    <3>1. \A q \in Posts : q \in Post
      BY DEF IInv, TypeOK, Posts
    <3> QED BY <3>1 DEF Post
  <2> QED BY <1>1, <2>1 DEF IInv, PostOK, Post
<1> HIDE DEF Mark, Done
<1>8. TypeOK'
  BY <1>1, <1>3, <1>5 DEF IInv, TypeOK
<1>9. CommittedBeforePost'
  BY <1>1, <1>4, <1>5, <1>6, <1>7 DEF IInv, CommittedBeforePost
<1>10. SentIsBacked'
  <2> SUFFICES ASSUME NEW l \in Lines, sync'[l].status = "sent"
               PROVE  /\ sync'[l].sos_order_id \in OrdersWith(l)
                      /\ sos[sync'[l].sos_order_id].number.base \in {OrderOf[l], Clock}
    BY DEF SentIsBacked, OrdersWith
  <2>1. CASE l \in task[o].lines
    <3>1. sync'[l].sos_order_id = task[o].id /\ task[o].answer = "ok"
      BY <1>4, <1>5, <2>1
    <3>2. /\ task[o].id \in 1 .. Len(sos) /\ sos[task[o].id] = p
          /\ OrderOf[l] = o /\ p.number.base \in {o, Clock}
      BY <1>1, <2>1, <3>1 DEF TaskOK, PostOf
    <3> QED BY <1>1, <2>1, <3>1, <3>2 DEF OrdersWith
  <2>2. CASE l \notin task[o].lines
    BY <1>5, <2>2 DEF IInv, SentIsBacked
  <2> QED BY <2>1, <2>2
<1>11. RowsOK'
  BY <1>2, <1>4, <1>5 DEF IInv, RowsOK
<1>12. \A q \in Orders : TaskOK(q)'
  <2>1. TaskOK(o)'
    BY <1>1, <1>2, <1>3, <1>4, <1>5 DEF TaskOK
  <2>2. ASSUME NEW q \in Orders, q # o PROVE TaskOK(q)'
    <3>1. /\ TaskOK(q) /\ PostOf(q)' = PostOf(q) /\ task'[q] = task[q]
          /\ task[q].lines \subseteq Lines
      BY <1>3, <2>2 DEF IInv, TypeOK, PostOf, Task
    <3>2. \A l \in task[q].lines : sync'[l] = sync[l]
      BY <1>1, <1>5, <2>2, <3>1 DEF TaskOK
    <3> QED BY <3>1, <3>2 DEF TaskOK
  <2> QED BY <2>1, <2>2
<1>13. \A q \in Posts' : PostOK(q)'
  <2> SUFFICES ASSUME NEW q \in Posts \cup {p} PROVE PostOK(q)'
    BY <1>6
  <2>1. /\ \A l, m \in q.lines : OrderOf[l] = OrderOf[m] /\ sync[l] = sync[m]
        /\ \A r \in Orders : q.lines \cap task[r].lines # {} => q.lines = task[r].lines
    BY <1>1 DEF IInv, PostOK, TaskOK
  <2>2. \A l, m \in q.lines : sync'[l] = sync'[m]
    BY <1>5, <1>7, <2>1
  <2>3. \A r \in Orders : task'[r].lines = task[r].lines
    BY <1>3
  <2> QED BY <2>1, <2>2, <2>3 DEF PostOK
<1>14. Exact'
  <2> SUFFICES ASSUME trouble' = 0, NEW l \in Lines
               PROVE  /\ \A i, j \in OrdersWith(l) : i = j
                      /\ sync'[l].status = "failed" => OrdersWith(l) = {}
                      /\ \A q \in stray : l \in q.lines =>
                           /\ OrdersWith(l) = {} /\ sync'[l].status = "pending"
                           /\ \A r \in stray : l \in r.lines => q = r
                           /\ \A r \in Orders : l \notin task'[r].lines
                      /\ \A r \in Orders :
                           l \in task'[r].lines /\ task'[r].pc # "done"
                             /\ task'[r].answer # "ok"
                           => OrdersWith(l) = {}
    BY DEF Exact, OrdersWith
  <2>1. trouble = 0
    OBVIOUS
  <2>2. CASE l \in task[o].lines
    <3>1. sync'[l].status = "failed" => OrdersWith(l) = {}
      BY <1>4, <1>5, <2>1, <2>2 DEF IInv, Exact
    <3>2. \A q \in stray : l \notin q.lines
      BY <2>1, <2>2 DEF IInv, Exact
    <3> QED BY <1>3, <2>1, <3>1, <3>2 DEF IInv, Exact
  <2>3. CASE l \notin task[o].lines
    BY <1>3, <1>5, <2>1, <2>3 DEF IInv, Exact
  <2> QED BY <2>2, <2>3
<1> QED BY <1>8, <1>9, <1>10, <1>11, <1>12, <1>13, <1>14 DEF IInv

\* The run ends; what it has sent is on its way still.
LEMMA AbandonStep ==
  ASSUME IInv, Abandon,
         trouble' \in 0 .. MaxTrouble, trouble' = trouble \/ trouble' # 0,
         crashes' \in 0 .. MaxCrashes,
         UNCHANGED <<Database, sos>>
  PROVE  IInv'
<1> DEFINE Left == {p \in Orders : task[p].pc = "await" /\ task[p].answer = "none"}
<1> USE DEF Database
<1>1. /\ pc' = "idle" /\ open' = {} /\ task' = IdleTasks
      /\ stray' = stray \cup {PostOf(o) : o \in Left}
  BY DEF Abandon
<1>2. \A o \in Orders :
        /\ task'[o] \in Task
        /\ task'[o].pc = "off" /\ task'[o].lines = {} /\ task'[o].answer = "none"
        /\ task'[o].number.base = o /\ task'[o].number.suffix = 0
        /\ task'[o].duplicates = 0
  <2> TAKE o \in Orders
  <2>1. task'[o] = Idle(o)
    BY <1>1 DEF IdleTasks
  <2>2. task'[o].number = [base |-> o, suffix |-> 0]
    BY <2>1, IdleTask
  <2> QED BY <2>1, <2>2, IdleTask
<1>3. \A o \in Left : /\ o \in Orders /\ PostOf(o) \in Post
                      /\ PostOf(o).lines = task[o].lines
                      /\ TaskOK(o)
                      /\ \A l \in task[o].lines : sync[l].status = "pending"
  BY PostOfTask, Waiting DEF IInv, PostOf
<1>4. Posts' = Posts \cup {PostOf(o) : o \in Left}
  BY <1>1 DEF Posts
<1>5. TypeOK'
  <2>1. task' \in [Orders -> Task]
    BY <1>1, <1>2 DEF IdleTasks
  <2> QED BY <1>1, <1>3, <2>1 DEF IInv, TypeOK
<1>6. CommittedBeforePost'
  BY <1>3, <1>4 DEF IInv, CommittedBeforePost
<1>7. SentIsBacked' /\ RowsOK'
  BY <1>1 DEF IInv, SentIsBacked, OrdersWith, RowsOK
<1>8. \A o \in Orders : TaskOK(o)'
  BY <1>1, <1>2 DEF TaskOK
<1>9. \A q \in Posts' : PostOK(q)'
  <2>1. \A o \in Orders : task'[o].lines = {}
    BY <1>2
  <2>2. ASSUME NEW q \in Posts PROVE PostOK(q)'
    BY <2>1 DEF IInv, PostOK
  <2>3. ASSUME NEW o \in Left, NEW q, q = PostOf(o) PROVE PostOK(q)'
    BY <1>3, <2>1, <2>3 DEF PostOK, TaskOK
  <2> QED BY <1>4, <2>2, <2>3
<1>10. Exact'
  <2> SUFFICES ASSUME trouble' = 0, NEW l \in Lines
               PROVE  /\ \A i, j \in OrdersWith(l) : i = j
                      /\ sync[l].status = "failed" => OrdersWith(l) = {}
                      /\ \A q \in stray' : l \in q.lines =>
                           /\ OrdersWith(l) = {} /\ sync[l].status = "pending"
                           /\ \A r \in stray' : l \in r.lines => q = r
                           /\ \A r \in Orders : l \notin task'[r].lines
                      /\ \A r \in Orders : l \notin task'[r].lines
    BY DEF Exact, OrdersWith
  <2>1. trouble = 0 /\ \A r \in Orders : task'[r].lines = {}
    BY <1>2
  <2>2. \A o \in Left : l \in task[o].lines =>
          /\ OrdersWith(l) = {} /\ sync[l].status = "pending" /\ OrderOf[l] = o
          /\ \A q \in stray : l \notin q.lines
    BY <1>3, <2>1 DEF IInv, Exact, TaskOK
  <2>3. \A q \in stray' : l \in q.lines =>
          \/ q \in stray
          \/ \E o \in Left : q = PostOf(o) /\ l \in task[o].lines
    BY <1>1, <1>3
  <2> HIDE DEF Left
  <2> QED BY <2>1, <2>2, <2>3 DEF IInv, Exact
<1> QED BY <1>5, <1>6, <1>7, <1>8, <1>9, <1>10 DEF IInv

-----------------------------------------------------------------------------
(* The actions that only one kind fits *)

LEMMA LoadOpenStep ==
  ASSUME IInv, LoadOpen
  PROVE  IInv'
<1> USE DEF LoadOpen, Database
<1>1. TypeOK'
  BY DEF IInv, TypeOK
<1>2. CommittedBeforePost' /\ SentIsBacked' /\ RowsOK' /\ Exact'
  BY DEF IInv, CommittedBeforePost, Posts, SentIsBacked, OrdersWith, RowsOK, Exact
<1>3. \A o \in Orders : TaskOK(o)'
  <2> TAKE o \in Orders
  <2>1. TaskOK(o) /\ task[o].pc = "off" /\ PostOf(o)' = PostOf(o)
    BY DEF IInv, TaskOK, TypeOK, Task, PostOf
  <2> QED BY <2>1 DEF TaskOK
<1>4. \A p \in Posts' : PostOK(p)'
  BY DEF IInv, PostOK, Posts
<1> QED BY <1>1, <1>2, <1>3, <1>4 DEF IInv

\* The lines that are mapped have no row yet, and so no sales order.
LEMMA MapOrdersStep ==
  ASSUME IInv, MapOrders
  PROVE  IInv'
<1> DEFINE mapped == {o \in Orders : OpenOf(o) # {} /\ OpenOf(o) \subseteq known}
           T(o)   == IF o \in mapped
                     THEN [Idle(o) EXCEPT !.pc = "send", !.lines = OpenOf(o)]
                     ELSE Idle(o)
<1> USE DEF Database
<1>1. CASE Abandon
  BY <1>1, AbandonStep DEF MapOrders, IInv, TypeOK
<1>2. CASE task' = [o \in Orders |-> T(o)] /\ pc' = "upsert" /\ UNCHANGED <<open, stray>>
  <2>1. pc = "map" /\ UNCHANGED <<listed, bad, known, sync, sos, trouble, crashes>>
    BY DEF MapOrders
  <2>2. \A o \in Orders :
          /\ task'[o] \in Task /\ task'[o].pc \in {"off", "send"}
          /\ task'[o].pc = "off" => task'[o].lines = {}
          /\ task'[o].lines \subseteq OpenOf(o)
          /\ task'[o].number = [base |-> o, suffix |-> 0]
          /\ task'[o].answer = "none" /\ task'[o].duplicates = 0
          /\ task'[o].attempt = 0
    <3> TAKE o \in Orders
    <3>1. task'[o] = T(o) /\ OpenOf(o) \subseteq Lines
      BY <1>2 DEF OpenOf, IInv, TypeOK
    <3>2. Idle(o) \in Task /\ Idle(o).attempt = 0
      BY IdleTask DEF Idle
    <3>3. [Idle(o) EXCEPT !.pc = "send", !.lines = OpenOf(o)] \in Task
      BY <3>1, <3>2 DEF Task
    <3> HIDE DEF mapped
    <3>4. CASE o \in mapped
      BY <3>1, <3>2, <3>3, <3>4, IdleTask DEF Task
    <3>5. CASE o \notin mapped
      BY <3>1, <3>2, <3>5, IdleTask
    <3> QED BY <3>4, <3>5
  <2>3. \A o \in Orders : \A l \in task'[o].lines :
          /\ l \in Lines /\ OrderOf[l] = o
          /\ sync[l] = [status |-> "none", sos_order_id |-> 0]
    <3>1. \A l \in open : l \in Lines /\ sync[l] \in Row /\ sync[l].status = "none"
                          /\ sync[l].sos_order_id = 0
      BY <2>1 DEF IInv, TypeOK, RowsOK
    <3>2. \A l \in open : sync[l] = [status |-> "none", sos_order_id |-> 0]
      BY <3>1 DEF Row
    <3> QED BY <2>2, <3>1, <3>2 DEF OpenOf
  <2>4. \A p \in Posts : \A o \in Orders : p.lines \cap task'[o].lines = {}
    BY <2>3 DEF IInv, CommittedBeforePost
  <2>5. Posts' = Posts /\ \A l : OrdersWith(l)' = OrdersWith(l)
    BY <1>2, <2>1 DEF Posts, OrdersWith
  <2>6. TypeOK'
    <3>1. task' \in [Orders -> Task]
      BY <1>2, <2>2
    <3> QED BY <1>2, <2>1, <3>1 DEF IInv, TypeOK
  <2>7. CommittedBeforePost' /\ SentIsBacked' /\ RowsOK'
    BY <1>2, <2>1, <2>5 DEF IInv, CommittedBeforePost, SentIsBacked, RowsOK
  <2>8. \A o \in Orders : TaskOK(o)'
    <3> TAKE o \in Orders
    <3>1. /\ task'[o].number.base = o /\ task'[o].number.suffix = 0
          /\ task'[o].attempt < MaxAttempts
      <4>1. task'[o].number = [base |-> o, suffix |-> 0] /\ task'[o].attempt = 0
        BY <2>2
      <4> HIDE DEF mapped, T
      <4> QED BY <4>1, ConstantsAssumption
    <3>2. /\ task'[o].pc \in {"off", "send"} /\ task'[o].answer = "none"
          /\ task'[o].pc = "off" => task'[o].lines = {}
          /\ task'[o].duplicates = 0
          /\ \A l \in task'[o].lines :
               OrderOf[l] = o /\ sync[l] = [status |-> "none", sos_order_id |-> 0]
      BY <2>2, <2>3
    <3> HIDE DEF mapped, T
    <3> QED BY <1>2, <2>1, <3>1, <3>2 DEF TaskOK
  <2>9. \A p \in Posts' : PostOK(p)'
    BY <2>1, <2>4, <2>5 DEF IInv, PostOK
  <2>10. Exact'
    <3> SUFFICES ASSUME trouble = 0, NEW l \in Lines
                 PROVE  /\ \A i, j \in OrdersWith(l) : i = j
                        /\ sync[l].status = "failed" => OrdersWith(l) = {}
                        /\ \A q \in stray : l \in q.lines =>
                             /\ OrdersWith(l) = {} /\ sync[l].status = "pending"
                             /\ \A r \in stray : l \in r.lines => q = r
                             /\ \A r \in Orders : l \notin task'[r].lines
                        /\ \A r \in Orders :
                             l \in task'[r].lines => OrdersWith(l) = {}
      BY <1>2, <2>1, <2>5 DEF Exact
    <3>1. \A r \in Orders : l \in task'[r].lines => OrdersWith(l) = {}
      BY <2>3 DEF IInv, CommittedBeforePost, Posts, OrdersWith
    <3>2. \A q \in stray : l \in q.lines => \A r \in Orders : l \notin task'[r].lines
      BY <2>4 DEF Posts
    <3> QED BY <3>1, <3>2 DEF IInv, Exact
  <2> QED BY <2>6, <2>7, <2>8, <2>9, <2>10 DEF IInv
<1> QED BY <1>1, <1>2 DEF MapOrders

\* Pending rows for lines that had none.
LEMMA UpsertRowsStep ==
  ASSUME IInv, UpsertRows
  PROVE  IInv'
<1> USE DEF UpsertRows
<1>1. \A o \in Orders : TaskOK(o) /\ (task[o].lines # {} => o \in Busy)
  BY DEF IInv, TaskOK, Busy
<1>2. \A l \in Lines : l \in Batch => sync[l].status = "none"
  BY <1>1 DEF Batch, Busy, TaskOK
<1>3. /\ \A l \in Lines : l \in Batch =>
           /\ sync'[l] \in Row /\ sync'[l].status = "pending"
           /\ sync'[l].sos_order_id = sync[l].sos_order_id
           /\ sync'[l] = [sync[l] EXCEPT !.status = "pending"]
      /\ \A l \in Lines : l \notin Batch => sync'[l] = sync[l]
  BY DEF IInv, TypeOK, Row
<1>4. \A o \in Orders : \A l \in task[o].lines : l \in Batch /\ l \in Lines
  BY <1>1 DEF Batch, IInv, TypeOK, Task
<1>5. Posts' = Posts /\ \A l : OrdersWith(l)' = OrdersWith(l)
  BY DEF Posts, OrdersWith
<1>6. \A p \in Posts : \A l \in p.lines : l \in Lines /\ l \notin Batch
  <2>1. \A p \in Posts : p \in Post
    BY DEF IInv, TypeOK, Posts
  <2> QED BY <1>2, <2>1 DEF IInv, CommittedBeforePost, Post
<1>7. TypeOK'
  BY <1>3 DEF IInv, TypeOK
<1>8. CommittedBeforePost'
  BY <1>3, <1>5, <1>6 DEF IInv, CommittedBeforePost
<1>9. SentIsBacked'
  BY <1>3, <1>5 DEF IInv, SentIsBacked
<1>10. RowsOK'
  BY <1>2, <1>3 DEF IInv, RowsOK
<1>11. \A o \in Orders : TaskOK(o)'
  <2> TAKE o \in Orders
  <2>1. \A l \in task[o].lines : sync'[l].status = "pending"
    BY <1>3, <1>4
  <2>2. \A l, m \in task[o].lines : sync[l] = sync[m] /\ sync'[l] = sync'[m]
    <3>1. \A l, m \in task[o].lines : sync[l] = sync[m]
      BY <1>1 DEF TaskOK
    <3> QED BY <1>3, <1>4, <3>1
  <2>3. PostOf(o)' = PostOf(o) /\ pc = "upsert" /\ pc' = "post"
        /\ UNCHANGED <<task, sos>>
    BY DEF PostOf
  <2>4. \A l \in task[o].lines : OrderOf[l] = o
    BY <1>1 DEF TaskOK
  <2> HIDE DEF UpsertRows
  <2> QED BY <1>1, <2>1, <2>2, <2>3, <2>4 DEF TaskOK
<1>12. \A p \in Posts' : PostOK(p)'
  <2> SUFFICES ASSUME NEW p \in Posts PROVE PostOK(p)'
    BY <1>5
  <2>1. \A l \in p.lines : sync'[l] = sync[l]
    BY <1>3, <1>6
  <2> QED BY <2>1 DEF IInv, PostOK
<1>13. Exact'
  <2>1. \A l \in Lines : sync'[l].status = "failed" => sync[l].status = "failed"
    BY <1>3
  <2>2. \A q \in stray : \A l \in q.lines : sync'[l] = sync[l]
    BY <1>3, <1>6 DEF Posts
  <2> QED BY <1>5, <2>1, <2>2 DEF IInv, Exact
<1> QED BY <1>7, <1>8, <1>9, <1>10, <1>11, <1>12, <1>13 DEF IInv

-----------------------------------------------------------------------------
(* Every action is of one of these kinds *)

LEMMA SendStep ==
  ASSUME IInv, NEW o \in Orders, Send(o)
  PROVE  IInv'
<1>1. TaskOK(o) /\ task[o] \in Task
  BY DEF IInv, TypeOK
<1> PICK t : t = [task[o] EXCEPT !.pc = "await", !.answer = "none", !.attempt = @ + 1]
  OBVIOUS
<1>2. task[o].attempt < MaxAttempts /\ task[o].answer # "ok"
  BY <1>1 DEF Send, TaskOK
<1>3. t.attempt \in 0 .. MaxAttempts
  BY <1>1, <1>2, ConstantsAssumption DEF Task
<1>4. /\ t \in Task /\ t.pc = "await" /\ t.answer = "none"
      /\ t.lines = task[o].lines /\ t.number = task[o].number
      /\ t.duplicates = task[o].duplicates
  BY <1>1, <1>3 DEF Task, Answer
<1>5. task' = [task EXCEPT ![o] = t]
  BY DEF Send, IInv, TypeOK
<1>6. t.number.base \in {o, Clock} /\ t.number.suffix <= t.duplicates
  BY <1>1, <1>4 DEF TaskOK
<1> QED BY <1>2, <1>4, <1>5, <1>6, TaskStep DEF Send, IInv, TypeOK

LEMMA HandleStep ==
  ASSUME IInv, NEW o \in Orders, Handle(o)
  PROVE  IInv'
<1>1. CASE sos' = Append(sos, PostOf(o))
           /\ task' = [task EXCEPT ![o].answer = "ok", ![o].id = Len(sos) + 1]
  BY <1>1, CreatedStep DEF Handle
<1>2. ASSUME NEW a \in {"duplicate", "refused"},
             task' = [task EXCEPT ![o].answer = a], UNCHANGED sos
      PROVE  IInv'
  <2> PICK t : t = [task[o] EXCEPT !.answer = a]
    OBVIOUS
  <2>1. TaskOK(o) /\ task[o] \in Task
    BY DEF IInv, TypeOK
  <2>2. /\ t \in Task /\ t.pc = task[o].pc /\ t.answer = a
        /\ t.lines = task[o].lines /\ t.number = task[o].number
        /\ t.duplicates = task[o].duplicates
    BY <2>1 DEF Task, Answer
  <2>3. task' = [task EXCEPT ![o] = t]
    BY <1>2 DEF IInv, TypeOK
  <2>4. t.number.base \in {o, Clock} /\ t.number.suffix <= t.duplicates
    BY <2>1, <2>2 DEF TaskOK
  <2>5. /\ task[o].pc = "await" /\ task[o].answer = "none" /\ pc = "post"
        /\ trouble \in 0 .. MaxTrouble
        /\ UNCHANGED <<Database, sos, stray, pc, open, trouble, crashes>>
    BY <1>2, Waiting DEF Handle, IInv, TypeOK
  <2>6. t.pc = "await" /\ t.answer # "ok" /\ task[o].answer # "ok"
    BY <1>2, <2>2, <2>5
  <2> QED BY <2>2, <2>3, <2>4, <2>5, <2>6, TaskStep
<1> QED BY <1>1, <1>2 DEF Handle

LEMMA RenumberedStep ==
  ASSUME IInv, NEW o \in Orders, Renumbered(o)
  PROVE  IInv'
<1> PICK n : n = task[o].duplicates + 1
  OBVIOUS
<1> PICK number : number = IF n = MaxDuplicates THEN [base |-> Clock, suffix |-> 0]
                           ELSE [task[o].number EXCEPT !.suffix = @ + 1]
  OBVIOUS
<1> PICK t : t = [task[o] EXCEPT !.pc = "send", !.answer = "none", !.attempt = 0,
                                 !.duplicates = n, !.number = number]
  OBVIOUS
<1>1. TaskOK(o) /\ task[o] \in Task
  BY DEF IInv, TypeOK
<1>2. task[o].duplicates \in 0 .. MaxDuplicates /\ task[o].duplicates < MaxDuplicates
      /\ task[o].number \in Number /\ task[o].number.suffix <= task[o].duplicates
      /\ task[o].number.base \in {o, Clock}
  BY <1>1 DEF Renumbered, Task, TaskOK
<1>3. n \in 0 .. MaxDuplicates
  BY <1>2, ConstantsAssumption
<1>4. number \in Number /\ number.base \in {o, Clock} /\ number.suffix <= n
  <2>1. CASE n = MaxDuplicates
    BY <1>3, <2>1, ConstantsAssumption DEF Number
  <2>2. CASE n # MaxDuplicates
    <3>1. task[o].number.suffix + 1 \in 0 .. MaxDuplicates
          /\ task[o].number.suffix + 1 <= n
      BY <1>2, ConstantsAssumption DEF Number
    <3> QED BY <1>2, <2>2, <3>1 DEF Number
  <2> QED BY <2>1, <2>2
<1>5. /\ t \in Task /\ t.pc = "send" /\ t.answer = "none" /\ t.attempt = 0
      /\ t.lines = task[o].lines /\ t.number = number /\ t.duplicates = n
  <2>1. 0 \in 0 .. MaxAttempts
    BY ConstantsAssumption
  <2> QED BY <1>1, <1>3, <1>4, <2>1 DEF Task, Answer
<1>6. task' = [task EXCEPT ![o] = t]
  BY <1>1 DEF Renumbered, IInv, TypeOK, Task
<1>7. t.attempt < MaxAttempts
  BY <1>5, ConstantsAssumption
<1>8. task[o].pc = "await" /\ task[o].answer = "duplicate" /\ stray' = stray
      /\ UNCHANGED <<Database, sos, pc, open, trouble, crashes>>
  BY DEF Renumbered
<1> QED BY <1>4, <1>5, <1>6, <1>7, <1>8, TaskStep, Waiting DEF IInv, TypeOK

LEMMA RecordedStep ==
  ASSUME IInv, NEW o \in Orders, Recorded(o)
  PROVE  IInv'
<1>1. task[o].id \in Nat /\ trouble \in 0 .. MaxTrouble
  BY DEF IInv, TypeOK, Task
<1>2. /\ task[o].pc = "await" /\ task[o].answer = "ok"
      /\ Mark(o, "sent", task[o].id) /\ Done(o)
      /\ UNCHANGED <<listed, bad, known, sos, stray, pc, open, trouble, crashes>>
  BY DEF Recorded
<1> QED BY <1>1, <1>2, MarkStep

LEMMA FailedStep ==
  ASSUME IInv, NEW o \in Orders, Failed(o)
  PROVE  IInv'
<1>1. trouble \in 0 .. MaxTrouble
  BY DEF IInv, TypeOK
<1>2. /\ task[o].pc = "await" /\ task[o].answer # "ok"
      /\ Mark(o, "failed", 0) /\ Done(o)
      /\ UNCHANGED <<listed, bad, known, sos, stray, pc, open, trouble, crashes>>
  BY DEF Failed
<1> QED BY <1>1, <1>2, MarkStep

\* The client sends a request again that it has given up.
LEMMA RepeatStep ==
  ASSUME IInv, NEW o \in Orders, task[o].pc = "await", Trouble, Loose(o),
         task[o].attempt < MaxAttempts,
         task' = [task EXCEPT ![o].pc = "send", ![o].answer = "none"],
         UNCHANGED <<Database, sos, pc, open, crashes>>
  PROVE  IInv'
<1> PICK t : t = [task[o] EXCEPT !.pc = "send", !.answer = "none"]
  OBVIOUS
<1>1. TaskOK(o) /\ task[o] \in Task
  BY DEF IInv, TypeOK
<1>2. /\ t \in Task /\ t.pc = "send" /\ t.answer = "none"
      /\ t.attempt = task[o].attempt
      /\ t.lines = task[o].lines /\ t.number = task[o].number
      /\ t.duplicates = task[o].duplicates
  BY <1>1 DEF Task, Answer
<1>3. task' = [task EXCEPT ![o] = t]
  BY DEF IInv, TypeOK
<1>4. t.number.base \in {o, Clock} /\ t.number.suffix <= t.duplicates
  BY <1>1, <1>2 DEF TaskOK
<1>5. trouble' \in 0 .. MaxTrouble /\ trouble' # 0
  BY ConstantsAssumption DEF Trouble, IInv, TypeOK
<1>6. stray' \in {stray, stray \cup {PostOf(o)}}
  BY DEF Loose
<1> QED BY <1>2, <1>3, <1>4, <1>5, <1>6, TaskStep, Waiting

LEMMA ConnectionLostStep ==
  ASSUME IInv, NEW o \in Orders, ConnectionLost(o)
  PROVE  IInv'
<1>1. trouble' \in 0 .. MaxTrouble /\ trouble' # 0
  BY ConstantsAssumption DEF ConnectionLost, Trouble, IInv, TypeOK
<1>2. CASE Abandon
  BY <1>1, <1>2, AbandonStep DEF ConnectionLost, IInv, TypeOK
<1>3. CASE ~Abandon
  BY <1>3, RepeatStep DEF ConnectionLost
<1> QED BY <1>2, <1>3

LEMMA ServerErrorStep ==
  ASSUME IInv, NEW o \in Orders, ServerError(o)
  PROVE  IInv'
<1>1. trouble' \in 0 .. MaxTrouble /\ trouble' # 0
  BY ConstantsAssumption DEF ServerError, Trouble, IInv, TypeOK
<1>2. stray' = stray \/ stray' = stray \cup {PostOf(o)}
  BY DEF ServerError, Loose
<1>3. CASE Mark(o, "failed", 0) /\ Done(o)
  BY <1>1, <1>2, <1>3, MarkStep DEF ServerError
<1>4. CASE ~(Mark(o, "failed", 0) /\ Done(o))
  BY <1>4, RepeatStep DEF ServerError, Database
<1> QED BY <1>3, <1>4

LEMMA InitIInv == Init => IInv
<1> SUFFICES ASSUME Init PROVE IInv
  OBVIOUS
<1> USE DEF Init
<1>1. \A o \in Orders :
        /\ task[o] \in Task
        /\ task[o].pc = "off" /\ task[o].lines = {} /\ task[o].answer = "none"
        /\ task[o].number.base = o /\ task[o].number.suffix = 0
        /\ task[o].duplicates = 0
  <2> TAKE o \in Orders
  <2>1. task[o] = Idle(o)
    BY DEF IdleTasks
  <2>2. task[o].number = [base |-> o, suffix |-> 0]
    BY <2>1, IdleTask
  <2> QED BY <2>1, <2>2, IdleTask
<1>2. TypeOK
  <2>1. task \in [Orders -> Task]
    BY <1>1 DEF IdleTasks
  <2>2. sync \in [Lines -> Row]
    BY DEF Row
  <2> QED BY <2>1, <2>2, ConstantsAssumption DEF TypeOK
<1>3. Posts = {} /\ \A l : OrdersWith(l) = {}
  BY DEF Posts, OrdersWith
<1>4. CommittedBeforePost /\ SentIsBacked /\ RowsOK
  BY <1>3 DEF CommittedBeforePost, SentIsBacked, RowsOK
<1>5. \A o \in Orders : TaskOK(o)
  <2> TAKE o \in Orders
  <2> HIDE DEF Init
  <2> QED BY <1>1 DEF TaskOK
<1>6. Exact
  BY <1>1, <1>3 DEF Exact
<1> QED BY <1>2, <1>3, <1>4, <1>5, <1>6 DEF IInv

LEMMA NextStep == IInv /\ [Next]_vars => IInv'
<1> SUFFICES ASSUME IInv, [Next]_vars PROVE IInv'
  OBVIOUS
<1>1. CASE Step
  <2>1. CASE EndRun
    BY <2>1, AbandonStep DEF EndRun, IInv, TypeOK
  <2> QED BY <1>1, <2>1, MapOrdersStep, UpsertRowsStep, SendStep, HandleStep,
             RecordedStep, RenumberedStep, FailedStep DEF Step
<1>2. CASE Crash
  <2>1. crashes' \in 0 .. MaxCrashes
    BY <1>2, ConstantsAssumption DEF Crash, IInv, TypeOK
  <2> QED BY <1>2, <2>1, AbandonStep DEF Crash, IInv, TypeOK
<1>3. CASE UNCHANGED vars
  <2> USE <1>3 DEF vars
  <2>1. TypeOK' /\ CommittedBeforePost' /\ SentIsBacked' /\ RowsOK' /\ Exact'
    BY DEF IInv, TypeOK, CommittedBeforePost, Posts, SentIsBacked, OrdersWith,
           RowsOK, Exact
  <2>2. (\A o \in Orders : TaskOK(o)') /\ \A p \in Posts' : PostOK(p)'
    BY DEF IInv, TaskOK, PostOK, PostOf, Posts
  <2> QED BY <2>1, <2>2 DEF IInv
<1> QED BY <1>1, <1>2, <1>3, LoadStep, LateStep, LoadOpenStep,
           ConnectionLostStep, ServerErrorStep DEF Next

-----------------------------------------------------------------------------
(* Theorems *)

\* In every state rows, tasks, sales orders and requests under way agree; the
\* other theorems are parts of this invariant, or follow from it.
THEOREM Invariance == Spec => []IInv
BY InitIInv, NextStep, PTL DEF Spec

\* The rows of an order are committed before it is posted: SOS neither has nor
\* will get a sales order for a line without a row.
THEOREM CommittedFirst == Spec => []CommittedBeforePost
<1>1. IInv => CommittedBeforePost
  BY DEF IInv
<1> QED BY <1>1, Invariance, PTL

\* A row that says "sent" names a sales order that exists, holds its line and has
\* the number of its order or of the clock.
THEOREM Backed == Spec => []SentIsBacked
<1>1. IInv => SentIsBacked
  BY DEF IInv
<1> QED BY <1>1, Invariance, PTL

\* An order is recorded as a whole: lines that SOS has in one sales order are of
\* one Acenda order, and their rows agree.
THEOREM AsAWhole == Spec => []LinesMoveTogether
<1>1. IInv => LinesMoveTogether
  BY DEF IInv, Posts, PostOK, LinesMoveTogether
<1> QED BY <1>1, Invariance, PTL

\* Crashes, runs that end early and requests that arrive late never make SOS
\* create an order twice, or leave one behind a row that looks refused.
THEOREM CrashSafe == Spec => []CrashNeverDuplicates
<1>1. IInv => CrashNeverDuplicates
  BY DEF IInv, Exact, CrashNeverDuplicates
<1> QED BY <1>1, Invariance, PTL
=============================================================================
