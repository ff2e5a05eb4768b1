------------------------ MODULE IngestionCursorProofs ------------------------
(***************************************************************************)
(* Proofs about IngestionCursor, for any records, endpoints, queries, page *)
(* sizes, clocks, changes and failures                                     *)
(***************************************************************************)
EXTENDS IngestionCursor, TLAPS, WellFoundedInduction, FiniteSetTheorems

-----------------------------------------------------------------------------
(* Lemmas about the operators *)

LEMMA LeastNat ==
  ASSUME NEW T \in SUBSET Nat, T # {}
  PROVE  \E x \in T : \A y \in T : x <= y
<1> DEFINE L == OpToRel(<, Nat)
<1>1. IsWellFoundedOn(L, Nat)
  BY NatLessThanWellFounded, Zenon
<1>2. \E x \in T : \A y \in T : ~(<<y, x>> \in L)
  <2> HIDE DEF L
  <2> QED BY <1>1, WFMin
<1>3. \A x, y \in Nat : y < x => <<y, x>> \in L
  BY Zenon DEF OpToRel
<1> HIDE DEF L
<1>4. \E x \in T : \A y \in T : ~(y < x)
  BY <1>2, <1>3
<1> QED BY <1>4

\* The page that position a is on.
LEMMA Quotient ==
  ASSUME NEW a \in Nat, NEW P \in Nat \ {0}
  PROVE  \E p \in Nat : p * P <= a /\ a < (p + 1) * P
<1> DEFINE T == {q \in Nat : a < q * P}
<1>1. a + 1 \in T
  <2>1. (a + 1) * P >= a + 1
    OBVIOUS
  <2> QED BY <2>1
<1>2. PICK q \in T : \A x \in T : q <= x
  <2> HIDE DEF T
  <2>1. T \in SUBSET Nat
    BY DEF T
  <2> QED BY <1>1, <2>1, LeastNat
<1>3. q # 0
  <2>1. 0 * P = 0
    OBVIOUS
  <2> QED BY <1>2, <2>1
<1>4. q - 1 \in Nat /\ q - 1 \notin T
  BY <1>2, <1>3
<1>5. (q - 1) * P <= a /\ a < ((q - 1) + 1) * P
  <2>1. (q - 1) * P \in Int /\ (q - 1) + 1 = q
    BY <1>2
  <2> QED BY <1>2, <1>4, <2>1
<1> QED BY <1>4, <1>5

LEMMA Monotone ==
  ASSUME NEW p \in Nat, NEW a \in Nat, NEW b \in Nat, a <= b
  PROVE  p * a <= p * b
<1>1. b - a \in Nat /\ p * (b - a) \in Nat
  OBVIOUS
<1>2. p * b = p * a + p * (b - a)
  OBVIOUS
<1>3. p * a \in Nat
  OBVIOUS
<1> QED BY <1>1, <1>2, <1>3

LEMMA MatchingFinite ==
  ASSUME NEW e, NEW w
  PROVE  IsFiniteSet(Matching(e, w)) /\ Matching(e, w) \subseteq Records
<1>1. Matching(e, w) \subseteq Records
  BY DEF Matching
<1> QED BY <1>1, ConstantsAssumption, FS_Subset

\* If the code is told what there is, every record that matches is on the first
\* page or on one of the rest.
LEMMA Paged ==
  ASSUME NEW e, NEW w, PageSize <= Size(e), NEW r \in Matching(e, w)
  PROVE  \/ r \in Page(e, w, 0)
         \/ \E p \in Rest(Cardinality(Matching(e, w))) : r \in Page(e, w, p)
<1> DEFINE match == Matching(e, w)
           earlier == {q \in match : q < r}
           before == Cardinality(earlier)
           total == Cardinality(match)
           size == Size(e)
<1>1. IsFiniteSet(match) /\ match \subseteq Records
  BY MatchingFinite
<1>2. IsFiniteSet(earlier) /\ before \in Nat /\ total \in Nat /\ before < total
  <2>1. r \in match /\ r \in Nat
    BY <1>1, ConstantsAssumption
  <2>2. earlier \subseteq match /\ r \notin earlier
    BY <2>1
  <2> HIDE DEF match, earlier
  <2>3. /\ IsFiniteSet(earlier) /\ before <= total
        /\ before = total => earlier = match
    BY <1>1, <2>2, FS_Subset
  <2>4. before \in Nat /\ total \in Nat
    BY <1>1, <2>3, FS_CardinalityType
  <2> QED BY <2>1, <2>2, <2>3, <2>4
<1>3. size \in Nat \ {0} /\ PageSize \in Nat \ {0} /\ PageSize <= size
  BY ConstantsAssumption DEF Size
<1>4. PICK p \in Nat : p * size <= before /\ before < (p + 1) * size
  <2> HIDE DEF before, size
  <2> QED BY <1>2, <1>3, Quotient
<1>5. r \in Page(e, w, p)
  BY <1>4 DEF Page
<1>6. CASE p = 0
  BY <1>5, <1>6
<1>7. CASE p # 0
  <2> HIDE DEF before, total, size
  <2>1. p * PageSize <= p * size /\ p * 1 <= p * PageSize /\ p * 1 = p
    BY <1>3, Monotone
  <2>2. p * PageSize \in Nat /\ p * size \in Nat
    BY <1>3
  <2>3. p * PageSize < total /\ p \in 1 .. total
    BY <1>2, <1>4, <1>7, <2>1, <2>2
  <2>4. p \in Rest(total)
    BY <2>3 DEF Rest
  <2> QED BY <1>5, <2>4 DEF total
<1> QED BY <1>6, <1>7

\* The latest time of what was fetched.
LEMMA LatestIn ==
  ASSUME NEW S \in SUBSET Copy, S # {}
  PROVE  /\ Latest(S) \in Time
         /\ \A c \in S : c.stamp <= Latest(S)
         /\ \E c \in S : Latest(S) = c.stamp
<1> DEFINE T == {MaxNow - c.stamp : c \in S}
<1>1. \A c \in S : c.stamp \in Time /\ MaxNow - c.stamp \in Nat
  BY ConstantsAssumption DEF Copy, Time
<1>2. T \in SUBSET Nat /\ T # {}
  BY <1>1
<1>3. PICK x \in T : \A y \in T : x <= y
  <2> HIDE DEF T
  <2> QED BY <1>2, LeastNat
<1>4. PICK m \in S : x = MaxNow - m.stamp
  BY <1>3
<1>5. \A c \in S : c.stamp <= m.stamp
  <2> TAKE c \in S
  <2>1. MaxNow - m.stamp <= MaxNow - c.stamp
    BY <1>3, <1>4
  <2>2. c.stamp \in Nat /\ m.stamp \in Nat
    BY <1>1 DEF Time
  <2> QED BY <2>1, <2>2, ConstantsAssumption
<1>6. \E t \in {c.stamp : c \in S} : \A c \in S : c.stamp <= t
  BY <1>5
<1>7. /\ Latest(S) \in {c.stamp : c \in S}
      /\ \A c \in S : c.stamp <= Latest(S)
  BY <1>6 DEF Latest
<1> QED BY <1>1, <1>7

-----------------------------------------------------------------------------
(* What steps keep *)

\* Copies are of what the source has, or had.
LEMMA CopyIn ==
  ASSUME TypeOK, NEW r \in Records, version[r] > 0
  PROVE  CopyOf(r) \in Copy /\ CopyOf(r).stamp = stamp[r]
BY ConstantsAssumption DEF TypeOK, CopyOf, Copy

LEMMA PageCopies ==
  ASSUME TypeOK, NEW e, NEW w, NEW p
  PROVE  /\ {CopyOf(r) : r \in Page(e, w, p)} \subseteq Copy
         /\ \A r \in Page(e, w, p) :
              /\ r \in Records /\ version[r] > 0 /\ EndpointOf[r] = e
              /\ Passes(e, stamp[r], w)
<1>1. \A r \in Page(e, w, p) :
        /\ r \in Records /\ version[r] > 0 /\ EndpointOf[r] = e
        /\ Passes(e, stamp[r], w)
  BY DEF Page, Matching, Size
<1> QED BY <1>1, CopyIn

LEMMA FetchedTimes ==
  ASSUME TypeOK, NEW e \in Endpoints
  PROVE  \A c \in records[e] : c.stamp \in Nat
<1>1. records[e] \subseteq Copy
  BY DEF TypeOK
<1>2. \A c \in Copy : c.stamp \in Nat
  BY ConstantsAssumption DEF Copy, Time
<1> QED BY <1>1, <1>2

\* The source has not changed, and no more is passed than before.
LEMMA StillCovered ==
  ASSUME UNCHANGED site, lake \subseteq lake', exposed \subseteq exposed',
         NEW r, NEW c, Covered(r, c)
  PROVE  Covered(r, c)'
BY DEF site, Covered, Ahead, Passes, CopyOf, Acenda

\* Nothing happens to endpoint e.
EndpointSame(e) == UNCHANGED <<pc[e], since[e], left[e], records[e], memory[e]>>

LEMMA StillOK ==
  ASSUME UNCHANGED <<site, clock, run_started_at>>,
         lake \subseteq lake', exposed \subseteq exposed',
         NEW e \in Endpoints, RunOK(e), EndpointSame(e)
  PROVE  RunOK(e)'
<1>1. \A r : CopyOf(r)' = CopyOf(r)
  BY DEF site, CopyOf
<1>2. \A r : Seen(r, e) => Seen(r, e)'
  BY <1>1 DEF Seen, EndpointSame, site, Acenda
<1>3. \A w : Matching(e, w)' = Matching(e, w)
  BY DEF Matching, Passes, site, Acenda
<1>4. \A w, p : Page(e, w, p)' = Page(e, w, p)
  BY <1>3 DEF Page, Size, Acenda, site
<1>5. \A r : Coming(r, e) => Coming(r, e)'
  BY <1>4 DEF Coming, EndpointSame
<1>6. \A r : Later(r, e) => Later(r, e)'
  BY DEF Later, EndpointSame, site, Acenda
<1> HIDE DEF Seen, Coming, Later
<1> QED BY <1>2, <1>5, <1>6 DEF RunOK, EndpointSame, site, Acenda, Fetching

\* A step that leaves the source and the cursors as they are.
LEMMA CursorsKept ==
  ASSUME IInv, UNCHANGED <<site, memory, disk>>, lake \subseteq lake',
         exposed \subseteq exposed',
         clock' = clock \/ (clock <= clock' /\ clock' \in Time)
  PROVE  /\ NothingPassed' /\ (hidden \subseteq exposed)'
         /\ \A e \in Endpoints : CursorsOK(e)'
<1>1. ASSUME NEW e \in Endpoints PROVE CursorsOK(e)'
  <2>1. /\ CursorsOK(e) /\ UNCHANGED <<query, memory, disk>>
        /\ memory[e] \in Nat /\ clock \in Nat /\ Time \subseteq Nat
    BY ConstantsAssumption DEF IInv, TypeOK, Time, site
  <2>2. clock <= clock' /\ clock' \in Nat
    <3>1. CASE clock' = clock
      BY <2>1, <3>1
    <3>2. CASE clock <= clock' /\ clock' \in Time
      BY <2>1, <3>2
    <3> QED BY <3>1, <3>2
  <2>3. ~Acenda(e) => memory[e] <= clock'
    BY <2>1, <2>2 DEF CursorsOK
  <2> QED BY <2>1, <2>3 DEF CursorsOK, Acenda
<1>2. NothingPassed'
  <2>1. ASSUME NEW r \in Records, version[r] > 0
        PROVE  Covered(r, memory[EndpointOf[r]])' /\ Covered(r, disk[EndpointOf[r]])'
    <3>1. Covered(r, memory[EndpointOf[r]]) /\ Covered(r, disk[EndpointOf[r]])
      BY <2>1 DEF IInv, NothingPassed
    <3>2. \A c : Covered(r, c) => Covered(r, c)'
      BY StillCovered
    <3>3. /\ memory'[EndpointOf[r]] = memory[EndpointOf[r]]
          /\ disk'[EndpointOf[r]] = disk[EndpointOf[r]]
      OBVIOUS
    <3> QED BY <3>1, <3>2, <3>3 DEF Covered, Ahead, Passes, Acenda
  <2> QED BY <2>1 DEF NothingPassed, site
<1> QED BY <1>1, <1>2 DEF IInv, site

\* A step of the run with one endpoint, which leaves the source, the cursors
\* and the other endpoints as they are.
LEMMA RunStep ==
  ASSUME IInv, TypeOK', UNCHANGED <<site, clock, memory, disk, run_started_at>>,
         lake \subseteq lake', exposed \subseteq exposed',
         NEW e \in Endpoints, RunOK(e)',
         \A f \in Endpoints \ {e} : EndpointSame(f)
  PROVE  IInv'
<1>1. NothingPassed' /\ \A f \in Endpoints : CursorsOK(f)'
  BY CursorsKept
<1>2. \A f \in Endpoints : RunOK(f)
  BY DEF IInv
<1>3. ASSUME NEW f \in Endpoints PROVE RunOK(f)'
  <2>1. CASE f = e
    BY <2>1
  <2>2. CASE f # e
    <3>1. EndpointSame(f) /\ RunOK(f)
      BY <1>2, <2>2
    <3> QED BY <3>1, StillOK
  <2> QED BY <2>1, <2>2
<1>4. (hidden \subseteq exposed)'
  BY DEF IInv, site
<1> QED BY <1>1, <1>3, <1>4 DEF IInv

\* The types after such a step.
LEMMA RunTypes ==
  ASSUME TypeOK, UNCHANGED <<site, clock, memory, disk, run_started_at>>,
         lake' \subseteq Copy, exposed' \subseteq Records,
         NEW e \in Endpoints,
         NEW p \in Pc, pc' = [pc EXCEPT ![e] = p],
         NEW w \in Int, since' = [since EXCEPT ![e] = w],
         NEW l \in SUBSET Nat, left' = [left EXCEPT ![e] = l],
         NEW s \in SUBSET Copy, records' = [records EXCEPT ![e] = s],
         trouble' \in 0..MaxTrouble
  PROVE  /\ TypeOK'
         /\ \A f \in Endpoints \ {e} : EndpointSame(f)
         /\ pc'[e] = p /\ since'[e] = w /\ left'[e] = l /\ records'[e] = s
<1>1. /\ pc \in [Endpoints -> Pc] /\ since \in [Endpoints -> Int]
      /\ left \in [Endpoints -> SUBSET Nat]
      /\ records \in [Endpoints -> SUBSET Copy]
  BY DEF TypeOK
<1>2. /\ pc' \in [Endpoints -> Pc] /\ since' \in [Endpoints -> Int]
      /\ left' \in [Endpoints -> SUBSET Nat]
      /\ records' \in [Endpoints -> SUBSET Copy]
  BY <1>1
<1>3. pc'[e] = p /\ since'[e] = w /\ left'[e] = l /\ records'[e] = s
  BY <1>1
<1>4. ASSUME NEW f \in Endpoints \ {e} PROVE EndpointSame(f)
  BY <1>1 DEF EndpointSame
<1>5. TypeOK'
  BY <1>2 DEF TypeOK, site, Copy, Time
<1> QED BY <1>3, <1>4, <1>5

LEMMA FaultTypes ==
  ASSUME TypeOK, Fault \/ UNCHANGED trouble
  PROVE  trouble' \in 0..MaxTrouble
BY ConstantsAssumption DEF TypeOK, Fault

\* A step that changes only where the run is with e.
LEMMA OnlyPc ==
  ASSUME IInv, NEW e \in Endpoints, NEW p \in Pc, pc' = [pc EXCEPT ![e] = p],
         UNCHANGED <<site, clock, memory, disk, run_started_at, since, left, records,
                     exposed>>,
         lake \subseteq lake', lake' \subseteq Copy,
         Fault \/ UNCHANGED trouble
  PROVE  /\ TypeOK' /\ pc'[e] = p
         /\ \A f \in Endpoints \ {e} : EndpointSame(f)
<1>1. TypeOK /\ trouble' \in 0..MaxTrouble /\ exposed' \subseteq Records
  BY FaultTypes DEF IInv, TypeOK
<1>2. pc' \in [Endpoints -> Pc] /\ pc'[e] = p
  BY <1>1 DEF TypeOK
<1>3. TypeOK'
  BY <1>1, <1>2 DEF TypeOK, site, Copy, Time
<1>4. ASSUME NEW f \in Endpoints \ {e} PROVE EndpointSame(f)
  <2>1. pc'[f] = pc[f]
    BY <1>1 DEF TypeOK
  <2> QED BY <2>1 DEF EndpointSame
<1> QED BY <1>2, <1>3, <1>4

-----------------------------------------------------------------------------
(* The steps of a run *)

LEMMA HandleOK ==
  ASSUME IInv, NEW e \in Endpoints, Handle(e)
  PROVE  IInv'
<1> DEFINE to == IF records[e] = {} THEN "state" ELSE "row"
<1>1. to \in Pc /\ pc[e] = "fetched" /\ pc' = [pc EXCEPT ![e] = to]
  BY DEF Handle, Goto, Pc
<1>2. UNCHANGED <<site, clock, memory, disk, lake, run_started_at, since, left, records,
                  trouble, exposed>>
  BY DEF Handle
<1>3. TypeOK' /\ pc'[e] = to /\ \A f \in Endpoints \ {e} : EndpointSame(f)
  <2>1. lake' = lake /\ lake \subseteq Copy
    BY <1>2 DEF IInv, TypeOK
  <2> HIDE DEF to
  <2> QED BY <1>1, <1>2, <2>1, OnlyPc
<1>4. RunOK(e)'
  <2>1. RunOK(e)
    BY DEF IInv
  <2>2. \A r : Seen(r, e)' = Seen(r, e) /\ Later(r, e)' = Later(r, e)
    BY <1>2 DEF Seen, Later, CopyOf, site, Acenda
  <2> HIDE DEF Seen, Later
  <2>3. pc'[e] = "state" => records[e] = {}
    BY <1>3
  <2>4. pc'[e] \in {"row", "state"}
    BY <1>3
  <2> QED BY <1>1, <1>2, <2>1, <2>2, <2>3, <2>4 DEF RunOK, site, Acenda, Fetching
<1> QED BY <1>2, <1>3, <1>4, RunStep

LEMMA InsertRowOK ==
  ASSUME IInv, NEW e \in Endpoints, InsertRow(e)
  PROVE  IInv'
<1>1. pc[e] = "row" /\ pc' = [pc EXCEPT ![e] = "state"] /\ lake' = lake \cup records[e]
  BY DEF InsertRow, Goto
<1>2. UNCHANGED <<site, clock, memory, disk, run_started_at, since, left, records,
                  trouble, exposed>>
  BY DEF InsertRow
<1>3. TypeOK' /\ pc'[e] = "state" /\ \A f \in Endpoints \ {e} : EndpointSame(f)
  <2>1. lake \subseteq lake' /\ lake' \subseteq Copy
    BY <1>1 DEF IInv, TypeOK
  <2> QED BY <1>1, <1>2, <2>1, OnlyPc DEF Pc
<1>4. RunOK(e)'
  <2>1. RunOK(e)
    BY DEF IInv
  <2>2. \A r : (Seen(r, e) => Seen(r, e)') /\ Later(r, e)' = Later(r, e)
    BY <1>1, <1>2 DEF Seen, Later, CopyOf, site, Acenda
  <2> HIDE DEF Seen, Later
  <2>3. records'[e] \subseteq lake'
    BY <1>1, <1>2
  <2> QED BY <1>1, <1>2, <1>3, <2>1, <2>2, <2>3 DEF RunOK, site, Acenda, Fetching
<1>5. lake \subseteq lake'
  BY <1>1
<1> QED BY <1>2, <1>3, <1>4, <1>5, RunStep

LEMMA FirstPageFailsOK ==
  ASSUME IInv, NEW e \in Endpoints, FirstPageFails(e)
  PROVE  IInv'
<1>1. /\ pc[e] = "queued" /\ pc' = [pc EXCEPT ![e] = "done"] /\ Fault
      /\ UNCHANGED <<site, clock, memory, disk, lake, run_started_at, since, left,
                     records, exposed>>
  BY DEF FirstPageFails, Goto
<1>2. TypeOK' /\ pc'[e] = "done" /\ \A f \in Endpoints \ {e} : EndpointSame(f)
  <2>1. lake' = lake /\ lake \subseteq Copy
    BY <1>1 DEF IInv, TypeOK
  <2> QED BY <1>1, <2>1, OnlyPc DEF Pc
<1>3. RunOK(e)'
  <2>1. RunOK(e)
    BY DEF IInv
  <2> QED BY <1>1, <1>2, <2>1 DEF RunOK, site, Acenda, Fetching
<1> QED BY <1>1, <1>2, <1>3, RunStep

LEMMA FirstPageOK ==
  ASSUME IInv, NEW e \in Endpoints, FirstPage(e)
  PROVE  IInv'
<1>1. TypeOK /\ memory[e] \in Nat /\ now \in Nat /\ Time \subseteq Nat
  BY ConstantsAssumption DEF IInv, TypeOK, Time
<1> DEFINE Answer(w, total) ==
             LET rest == Rest(total)
                 unasked == IF Told(e, w, total) THEN {} ELSE Unasked(e, w, rest)
             IN /\ Goto(e, "queued", IF rest # {} THEN "pages" ELSE "fetched")
                /\ since' = [since EXCEPT ![e] = w]
                /\ left' = [left EXCEPT ![e] = rest]
                /\ records' = [records EXCEPT ![e] = {CopyOf(r) : r \in Page(e, w, 0)}]
                /\ exposed' = exposed \cup TooOld(e, w) \cup unasked
                /\ UNCHANGED <<site, clock, memory, disk, lake, run_started_at, trouble>>
<1>2. PICK w \in Watermarks(e) : \E total \in Totals(e, w) : Answer(w, total)
  BY Zenon DEF FirstPage
<1>3. PICK total \in Totals(e, w) : Answer(w, total)
  BY <1>2
<1> DEFINE rest == Rest(total)
           got == {CopyOf(r) : r \in Page(e, w, 0)}
           to == IF rest # {} THEN "pages" ELSE "fetched"
           unasked == IF Told(e, w, total) THEN {} ELSE Unasked(e, w, rest)
           new == TooOld(e, w) \cup unasked
<1>4. /\ pc[e] = "queued" /\ pc' = [pc EXCEPT ![e] = to]
      /\ since' = [since EXCEPT ![e] = w]
      /\ left' = [left EXCEPT ![e] = rest]
      /\ records' = [records EXCEPT ![e] = got]
      /\ exposed' = exposed \cup new
      /\ UNCHANGED <<site, clock, memory, disk, lake, run_started_at, trouble>>
  BY <1>3 DEF Goto
<1>5. /\ got \subseteq Copy
      /\ \A r \in Page(e, w, 0) :
           /\ r \in Records /\ version[r] > 0 /\ EndpointOf[r] = e
           /\ Passes(e, stamp[r], w)
  BY <1>1, PageCopies
<1>6. w \in Int /\ (memory[e] # 0 => w = memory[e])
  BY <1>1, ConstantsAssumption DEF Watermarks, Readings
<1>7. rest \subseteq Nat
  <2>1. IsFiniteSet(Page(e, w, 0))
    <3>1. Page(e, w, 0) \subseteq Matching(e, w)
      BY DEF Page
    <3> QED BY <3>1, MatchingFinite, FS_Subset
  <2>2. total \in Nat
    BY <2>1, MatchingFinite, FS_CardinalityType DEF Totals
  <2> QED BY <2>2 DEF Rest
<1>8. /\ TypeOK' /\ \A f \in Endpoints \ {e} : EndpointSame(f)
      /\ pc'[e] = to /\ since'[e] = w /\ left'[e] = rest /\ records'[e] = got
  <2>1. lake' \subseteq Copy /\ trouble' \in 0..MaxTrouble
    BY <1>1, <1>4 DEF TypeOK
  <2>2. exposed' \subseteq Records
    <3>1. TooOld(e, w) \subseteq Records
      BY DEF TooOld
    <3>2. unasked \subseteq Records
      BY DEF Unasked, Matching
    <3> QED BY <1>1, <1>4, <3>1, <3>2 DEF TypeOK
  <2>3. to \in Pc
    BY DEF Pc
  <2>4. got \in SUBSET Copy /\ rest \in SUBSET Nat /\ w \in Int
    BY <1>5, <1>6, <1>7
  <2>5. UNCHANGED <<site, clock, memory, disk, run_started_at>>
    BY <1>4
  <2> HIDE DEF rest, got, to, new
  <2> QED BY <1>1, <1>4, <2>1, <2>2, <2>3, <2>4, <2>5, RunTypes
<1>9. \A c \in got : memory[e] <= c.stamp
  <2>1. ASSUME NEW r \in Page(e, w, 0)
        PROVE  memory[e] <= CopyOf(r).stamp
    <3>1. r \in Records /\ Passes(e, stamp[r], w)
      BY <1>5
    <3>2. stamp[r] \in Nat
      BY <1>1, <3>1 DEF TypeOK
    <3> QED BY <1>1, <1>6, <3>1, <3>2 DEF CopyOf, Passes
  <2> QED BY <2>1
\* A record that the query leaves out, or that no page will have, is covered by
\* the cursor or is exposed.
<1>10. ASSUME NEW r \in Records, EndpointOf[r] = e, version[r] > 0
      PROVE  Seen(r, e)' \/ (\E p \in rest : r \in Page(e, w, p))
  <2>1. CopyOf(r)' = CopyOf(r)
    BY <1>4 DEF CopyOf, site
  <2>2. r \in new => Seen(r, e)'
    BY <1>4 DEF Seen
  <2>3. r \in Page(e, w, 0) => Seen(r, e)'
    <3>1. r \in Page(e, w, 0) => CopyOf(r) \in records'[e]
      BY <1>8
    <3> QED BY <2>1, <3>1 DEF Seen
  <2>4. CASE r \in Matching(e, w)
    <3>1. CASE Told(e, w, total)
      <4>1. total = Cardinality(Matching(e, w)) /\ PageSize <= Size(e)
        BY <3>1 DEF Told
      <4>2. r \in Page(e, w, 0) \/ \E p \in rest : r \in Page(e, w, p)
        BY <2>4, <4>1, Paged
      <4> QED BY <2>3, <4>2
    <3>2. CASE ~Told(e, w, total)
      <4>1. r \in unasked \/ r \in Page(e, w, 0) \/ \E p \in rest : r \in Page(e, w, p)
        BY <2>4, <3>2 DEF Unasked
      <4> QED BY <2>2, <2>3, <4>1
    <3> QED BY <3>1, <3>2
  <2>5. CASE r \in hidden
    <3>1. r \in exposed'
      BY <1>4, <2>5 DEF IInv
    <3> QED BY <3>1 DEF Seen
  <2>6. CASE r \notin Matching(e, w) /\ r \notin hidden
    <3>1. ~Passes(e, stamp[r], w)
      BY <1>10, <2>6 DEF Matching
    <3>2. CASE memory[e] = 0
      <4>1. r \in TooOld(e, w)
        BY <1>10, <3>1, <3>2 DEF TooOld
      <4> QED BY <2>2, <4>1
    <3>3. CASE memory[e] # 0
      <4>1. Covered(r, memory[e])
        BY <1>10 DEF IInv, NothingPassed
      <4>2. CopyOf(r) \in lake \/ r \in exposed
        BY <1>6, <1>10, <3>1, <3>3, <4>1 DEF Covered, Ahead
      <4> QED BY <1>4, <2>1, <4>2 DEF Seen
    <3> QED BY <3>2, <3>3
  <2> QED BY <2>4, <2>5, <2>6
<1>11. \A r : (\E p \in rest : r \in Page(e, w, p)) => Coming(r, e)' /\ rest # {}
  <2>1. \A p : Page(e, since[e], p)' = Page(e, w, p)
    <3>1. since'[e] = w
      BY <1>8
    <3> QED BY <1>4, <3>1 DEF Page, Matching, Passes, Acenda, Size, site
  <2>2. left'[e] = rest
    BY <1>8
  <2> HIDE DEF rest
  <2> QED BY <2>1, <2>2 DEF Coming
<1>12. RunOK(e)'
  <2>1. RunOK(e) /\ run_started_at # NoRun
    BY <1>4 DEF IInv, RunOK, Fetching
  <2>2. /\ run_started_at' # NoRun /\ run_started_at' <= clock'
        /\ ~Acenda(e)' => memory'[e] <= run_started_at'
    BY <1>4, <2>1 DEF RunOK, Acenda, site, Fetching
  <2>3. \A c \in records'[e] : memory'[e] <= c.stamp
    BY <1>4, <1>8, <1>9
  <2>4. rest # {} => \A r \in Records : EndpointOf[r] = e /\ version'[r] > 0 =>
           Seen(r, e)' \/ Coming(r, e)'
    BY <1>4, <1>10, <1>11 DEF site
  <2>5. rest = {} => \A r \in Records : EndpointOf[r] = e /\ version'[r] > 0 =>
           Seen(r, e)'
    BY <1>4, <1>10, <1>11 DEF site
  <2>6. pc'[e] = to /\ memory'[e] \in {0, since'[e]}
    BY <1>4, <1>6, <1>8
  <2> HIDE DEF Seen, Coming, rest
  <2> QED BY <2>2, <2>3, <2>4, <2>5, <2>6 DEF RunOK, Fetching
<1>13. exposed \subseteq exposed' /\ lake \subseteq lake'
  BY <1>4
<1> HIDE DEF rest, got, to, new
<1> QED BY <1>4, <1>8, <1>12, <1>13, RunStep

\* A page less to come, whose records are there or exposed.
LEMMA PageStep ==
  ASSUME IInv, NEW e \in Endpoints, NEW p, PageDone(e, p),
         exposed \subseteq exposed', exposed' \subseteq Records,
         NEW got \in SUBSET Copy,
         records' = [records EXCEPT ![e] = @ \cup got],
         \A c \in got : memory[e] <= c.stamp,
         \A r \in Page(e, since[e], p) : CopyOf(r) \in got \/ r \in exposed',
         Fault \/ UNCHANGED trouble
  PROVE  IInv'
<1> DEFINE to == IF left[e] = {p} THEN "fetched" ELSE "pages"
           rest == left[e] \ {p}
           all == records[e] \cup got
<1>1. /\ pc[e] = "pages" /\ p \in left[e]
      /\ pc' = [pc EXCEPT ![e] = to]
      /\ left' = [left EXCEPT ![e] = rest]
      /\ UNCHANGED <<site, clock, memory, disk, lake, run_started_at, since>>
  BY DEF PageDone, Goto
<1>2. TypeOK /\ trouble' \in 0..MaxTrouble
  BY FaultTypes DEF IInv
<1>3. /\ pc'[e] = to /\ left'[e] = rest /\ records'[e] = all
      /\ pc' \in [Endpoints -> Pc] /\ left' \in [Endpoints -> SUBSET Nat]
      /\ records' \in [Endpoints -> SUBSET Copy]
  <2>1. to \in Pc /\ rest \in SUBSET Nat /\ all \in SUBSET Copy
    BY <1>2 DEF TypeOK, Pc
  <2>2. records' = [records EXCEPT ![e] = all]
    BY <1>2 DEF TypeOK
  <2> HIDE DEF to, rest, all
  <2> QED BY <1>1, <1>2, <2>1, <2>2 DEF TypeOK
<1>4. TypeOK'
  BY <1>1, <1>2, <1>3 DEF TypeOK, site, Copy, Time
<1>5. ASSUME NEW f \in Endpoints \ {e} PROVE EndpointSame(f)
  <2> HIDE DEF to, rest
  <2> QED BY <1>1, <1>2 DEF EndpointSame, TypeOK
<1>6. RunOK(e)
  BY DEF IInv
<1>7. \A r : CopyOf(r)' = CopyOf(r) /\ \A q : Page(e, since[e], q)' = Page(e, since[e], q)
  BY <1>1 DEF CopyOf, Page, Matching, Passes, site, Size, Acenda
<1>8. ASSUME NEW r \in Records, EndpointOf[r] = e, version[r] > 0
      PROVE  Seen(r, e)' \/ (Coming(r, e)' /\ rest # {})
  <2>1. Seen(r, e) \/ Coming(r, e)
    BY <1>1, <1>6, <1>8 DEF RunOK, Fetching
  <2>2. Seen(r, e) => Seen(r, e)'
    BY <1>1, <1>3, <1>7 DEF Seen, site, Acenda
  <2>3. ASSUME NEW q \in left[e], r \in Page(e, since[e], q)
        PROVE  Seen(r, e)' \/ (Coming(r, e)' /\ rest # {})
    <3>1. CASE q = p
      <4>1. CopyOf(r) \in all \/ r \in exposed'
        BY <2>3, <3>1
      <4> QED BY <1>3, <1>7, <4>1 DEF Seen
    <3>2. CASE q # p
      <4>1. q \in left'[e] /\ rest # {}
        BY <1>3, <2>3, <3>2
      <4>2. r \in Page(e, since[e], q)'
        BY <1>7, <2>3
      <4> QED BY <4>1, <4>2 DEF Coming
    <3> QED BY <3>1, <3>2
  <2> QED BY <2>1, <2>2, <2>3 DEF Coming
<1>9. RunOK(e)'
  <2>1. /\ run_started_at' # NoRun /\ run_started_at' <= clock'
        /\ ~Acenda(e)' => memory'[e] <= run_started_at'
    BY <1>1, <1>6 DEF RunOK, site, Acenda, Fetching
  <2>2. \A c \in records'[e] : memory'[e] <= c.stamp
    BY <1>1, <1>3, <1>6 DEF RunOK, site, Acenda, Fetching
  <2>3. \A r \in Records : EndpointOf[r] = e /\ version'[r] > 0 =>
          Seen(r, e)' \/ (Coming(r, e)' /\ rest # {})
    BY <1>1, <1>8 DEF site
  <2>4. /\ pc'[e] \in {"pages", "fetched"} /\ (pc'[e] = "fetched" => rest = {})
        /\ memory'[e] \in {0, since'[e]}
    BY <1>1, <1>3, <1>6 DEF RunOK, Fetching
  <2> HIDE DEF Seen, Coming, rest, to
  <2> QED BY <2>1, <2>2, <2>3, <2>4 DEF RunOK, Fetching
<1>10. lake \subseteq lake' /\ UNCHANGED <<site, clock, memory, disk, run_started_at>>
  BY <1>1
<1> QED BY <1>4, <1>5, <1>9, <1>10, RunStep

LEMMA NextPageOK ==
  ASSUME IInv, NEW e \in Endpoints, NEW p \in left[e], NextPage(e, p)
  PROVE  IInv'
<1> DEFINE got == {CopyOf(r) : r \in Page(e, since[e], p)}
<1>1. /\ PageDone(e, p) /\ UNCHANGED <<trouble, exposed>>
      /\ records' = [records EXCEPT ![e] = @ \cup got]
  BY DEF NextPage
<1>2. TypeOK
  BY DEF IInv
<1>3. got \in SUBSET Copy
  BY <1>2, PageCopies
<1>4. ASSUME NEW r \in Page(e, since[e], p)
      PROVE  memory[e] <= CopyOf(r).stamp 
  <2>1. r \in Records /\ Passes(e, stamp[r], since[e])
    BY <1>2, PageCopies
  <2>2. memory[e] <= stamp[r]
    <3>1. pc[e] = "pages" /\ RunOK(e)
      BY <1>1 DEF IInv, PageDone, Goto
    <3>2. memory[e] \in {0, since[e]} /\ stamp[r] \in Nat
      BY <1>2, <2>1, <3>1, ConstantsAssumption DEF RunOK, TypeOK, Time, Fetching
    <3>3. since[e] \in Int
      BY <1>2 DEF TypeOK
    <3> QED BY <2>1, <3>2, <3>3 DEF Passes
  <2> QED BY <2>2 DEF CopyOf
<1>5. \A c \in got : memory[e] <= c.stamp
  BY <1>4
<1>6. exposed \subseteq exposed' /\ exposed' \subseteq Records
  BY <1>1, <1>2 DEF TypeOK
<1>7. \A r \in Page(e, since[e], p) : CopyOf(r) \in got
  OBVIOUS
<1> HIDE DEF got
<1> QED BY <1>1, <1>3, <1>5, <1>6, <1>7, PageStep

LEMMA PageFailsOK ==
  ASSUME IInv, NEW e \in Endpoints, NEW p \in left[e], PageFails(e, p)
  PROVE  IInv'
<1>1. /\ PageDone(e, p) /\ Fault
      /\ exposed' = exposed \cup Page(e, since[e], p)
      /\ records' = records
  BY DEF PageFails
<1>2. TypeOK
  BY DEF IInv
<1> DEFINE got == {}
<1>3. got \in SUBSET Copy /\ records' = [records EXCEPT ![e] = @ \cup got]
  BY <1>1, <1>2 DEF TypeOK
<1>4. exposed \subseteq exposed' /\ exposed' \subseteq Records
  <2>1. Page(e, since[e], p) \subseteq Records
    BY DEF Page, Matching, Size
  <2> QED BY <1>1, <1>2, <2>1 DEF TypeOK
<1>5. \A r \in Page(e, since[e], p) : r \in exposed'
  BY <1>1
<1>6. \A c \in got : memory[e] <= c.stamp
  OBVIOUS
<1> HIDE DEF got
<1> QED BY <1>1, <1>3, <1>4, <1>5, <1>6, PageStep

\* What the cursor passes when it moves is in the lake.
LEMMA AdvanceOK ==
  ASSUME IInv, NEW e \in Endpoints, Advance(e)
  PROVE  IInv'
<1> DEFINE to == IF Acenda(e) /\ records[e] = {} THEN "done" ELSE "save"
           t == Cursor(e)
<1>1. /\ pc[e] = "state" /\ pc' = [pc EXCEPT ![e] = to]
      /\ memory' = [memory EXCEPT ![e] = t]
      /\ UNCHANGED <<site, clock, disk, lake, run_started_at, since, left, records,
                     trouble, exposed>>
  BY DEF Advance, Goto
<1>2. TypeOK /\ CursorsOK(e) /\ RunOK(e)
  BY DEF IInv
<1>3. /\ run_started_at # NoRun /\ run_started_at <= clock
      /\ ~Acenda(e) => memory[e] <= run_started_at
      /\ \A c \in records[e] : memory[e] <= c.stamp
      /\ \A r \in Records : EndpointOf[r] = e /\ version[r] > 0 =>
        Seen(r, e) \/ Later(r, e)
      /\ records[e] \subseteq lake
  <2> HIDE DEF Seen, Later
  <2> QED BY <1>1, <1>2 DEF RunOK, Fetching
<1>4. /\ run_started_at \in Time /\ clock \in Time /\ records[e] \in SUBSET Copy
      /\ memory[e] \in Time /\ disk[e] \in Time /\ Time \subseteq Nat
  BY <1>2, <1>3, ConstantsAssumption DEF TypeOK, Time
<1>5. /\ t \in Time /\ memory[e] <= t
      /\ ~Acenda(e) => t = run_started_at
      /\ Acenda(e) /\ records[e] = {} => t = memory[e]
      /\ Acenda(e) /\ records[e] # {} => \E c \in records[e] : t = c.stamp
  <2>1. CASE ~Acenda(e)
    <3>1. t = run_started_at
      BY <2>1 DEF Cursor
    <3> HIDE DEF t
    <3> QED BY <1>3, <1>4, <2>1, <3>1
  <2>2. CASE Acenda(e) /\ records[e] = {}
    <3>1. t = memory[e]
      BY <2>2 DEF Cursor
    <3>2. memory[e] \in Nat
      BY <1>4
    <3>3. memory[e] <= memory[e]
      BY <3>2
    <3> HIDE DEF t
    <3> QED BY <1>4, <2>2, <3>1, <3>3
  <2>3. CASE Acenda(e) /\ records[e] # {}
    <3>1. t = Latest(records[e])
      BY <2>3 DEF Cursor
    <3>2. t \in Time /\ \E c \in records[e] : t = c.stamp
      BY <1>4, <2>3, <3>1, LatestIn
    <3> HIDE DEF t
    <3> QED BY <1>3, <2>3, <3>2
  <2> HIDE DEF t
  <2> QED BY <2>1, <2>2, <2>3
<1>6. memory' \in [Endpoints -> Time] /\ memory'[e] = t /\ pc'[e] = to
      /\ pc' \in [Endpoints -> Pc]
  <2>1. to \in Pc
    BY DEF Pc
  <2> HIDE DEF to, t
  <2> QED BY <1>1, <1>2, <1>5, <2>1 DEF TypeOK
<1>7. TypeOK'
  BY <1>1, <1>2, <1>6 DEF TypeOK, site, Copy, Time
<1>8. ASSUME NEW f \in Endpoints \ {e} PROVE EndpointSame(f)
  <2> HIDE DEF to, t
  <2> QED BY <1>1, <1>2 DEF EndpointSame, TypeOK
<1>9. \A f : Acenda(f)' = Acenda(f)
  BY <1>1 DEF Acenda, site
<1>10. ASSUME NEW f \in Endpoints PROVE CursorsOK(f)' /\ RunOK(f)'
  <2>1. CASE f = e
    <3>1. CursorsOK(e)'
      <4> HIDE DEF t, to
      <4>1. disk[e] <= memory[e] /\ disk[e] \in Nat /\ memory[e] \in Nat /\ t \in Nat
        BY <1>2, <1>4, <1>5 DEF CursorsOK
      <4>2. disk[e] <= t /\ (~Acenda(e) => t <= clock)
        BY <1>3, <1>5, <4>1
      <4>3. disk'[e] = disk[e] /\ memory'[e] = t /\ clock' = clock
        BY <1>1, <1>6
      <4> QED BY <1>9, <4>2, <4>3 DEF CursorsOK
    <3>2. RunOK(e)'
      <4>1. pc'[e] \in {"save", "done"}
        BY <1>6
      <4>2. /\ run_started_at' # NoRun /\ run_started_at' <= clock'
            /\ ~Acenda(e)' => memory'[e] <= run_started_at'
        <5> HIDE DEF t
        <5> QED BY <1>1, <1>3, <1>4, <1>5, <1>6, <1>9
      <4> QED BY <4>1, <4>2 DEF RunOK, Fetching
    <3> QED BY <2>1, <3>1, <3>2
  <2>2. CASE f # e
    <3>1. EndpointSame(f) /\ RunOK(f) /\ CursorsOK(f)
      BY <1>8, <2>2 DEF IInv
    <3>2. /\ lake \subseteq lake' /\ exposed \subseteq exposed'
          /\ UNCHANGED <<site, clock, run_started_at>>
      BY <1>1
    <3>3. RunOK(f)'
      BY <3>1, <3>2, StillOK
    <3> QED BY <1>1, <1>9, <3>1, <3>3 DEF CursorsOK, EndpointSame
  <2> QED BY <2>1, <2>2
<1>11. NothingPassed'
  <2>1. ASSUME NEW r \in Records, version[r] > 0
        PROVE  Covered(r, memory'[EndpointOf[r]]) /\ Covered(r, disk[EndpointOf[r]])
    <3>1. Covered(r, memory[EndpointOf[r]]) /\ Covered(r, disk[EndpointOf[r]])
      BY <2>1 DEF IInv, NothingPassed
    <3>2. EndpointOf[r] \in Endpoints /\ stamp[r] \in Nat
      BY <1>2, <1>4, ConstantsAssumption DEF TypeOK
    <3>3. CASE EndpointOf[r] # e
      <4>1. memory'[EndpointOf[r]] = memory[EndpointOf[r]]
        BY <1>8, <3>2, <3>3 DEF EndpointSame
      <4> QED BY <3>1, <4>1
    <3>4. CASE r \in hidden
      BY <3>1, <3>4 DEF IInv, Covered
    <3>5. CASE EndpointOf[r] = e /\ Seen(r, e) /\ r \notin hidden
      <4>1. r \in exposed \/ CopyOf(r) \in lake
              \/ (~Acenda(e) /\ stamp[r] >= run_started_at)
        BY <1>3, <3>5 DEF Seen
      <4>2. ~Acenda(e) /\ stamp[r] >= run_started_at => Passes(e, stamp[r], t)
        <5> HIDE DEF t
        <5> QED BY <1>5 DEF Passes
      <4>3. Covered(r, t)
        BY <3>5, <4>1, <4>2 DEF Covered, Ahead
      <4> QED BY <1>6, <3>1, <3>5, <4>3
    <3>6. CASE EndpointOf[r] = e /\ Later(r, e) /\ r \notin hidden
      <4>1. CASE records[e] = {}
        <5>1. t = memory[e]
          <6> HIDE DEF t
          <6> QED BY <1>5, <3>6, <4>1 DEF Later
        <5> QED BY <1>6, <3>1, <3>6, <5>1
      <4>2. CASE records[e] # {}
        <5>1. t < stamp[r] /\ Acenda(e)
          <6> HIDE DEF t
          <6> QED BY <1>5, <3>6, <4>2 DEF Later
        <5>2. Passes(e, stamp[r], t)
          <6> HIDE DEF t
          <6> QED BY <1>4, <1>5, <3>2, <5>1 DEF Passes
        <5>3. Covered(r, t)
          BY <3>6, <5>2 DEF Covered, Ahead
        <5> QED BY <1>6, <3>1, <3>6, <5>3
      <4> QED BY <4>1, <4>2
    <3> QED BY <1>3, <2>1, <3>3, <3>4, <3>5, <3>6
  <2>2. \A r, c : Covered(r, c) => Covered(r, c)'
    <3>1. lake \subseteq lake' /\ exposed \subseteq exposed' /\ UNCHANGED site
      BY <1>1
    <3> QED BY <3>1, StillCovered
  <2>3. \A r \in Records : version'[r] > 0 =>
          /\ (Ahead(r, memory[EndpointOf[r]]) \/ CopyOf(r) \in lake \/ r \in exposed)'
          /\ (Ahead(r, disk[EndpointOf[r]]) \/ CopyOf(r) \in lake \/ r \in exposed)'
    <3> HIDE DEF t, to
    <3> QED BY <1>1, <2>1 DEF Covered, Ahead, Passes, Acenda, CopyOf, site
  <2> QED BY <2>3 DEF NothingPassed, Covered
<1>12. (hidden \subseteq exposed)'
  BY <1>1 DEF IInv, site
<1> HIDE DEF t, to
<1> QED BY <1>7, <1>10, <1>11, <1>12 DEF IInv

LEMMA SaveOK ==
  ASSUME IInv, NEW e \in Endpoints, Save(e)
  PROVE  IInv'
<1>1. /\ pc[e] = "save" /\ pc' = [pc EXCEPT ![e] = "done"] /\ disk' = memory
      /\ UNCHANGED <<site, clock, memory, lake, run_started_at, since, left, records,
                     trouble, exposed>>
  BY DEF Save, Goto
<1>2. TypeOK
  BY DEF IInv
<1>3. pc' \in [Endpoints -> Pc] /\ pc'[e] = "done"
  BY <1>1, <1>2 DEF TypeOK, Pc
<1>4. TypeOK'
  BY <1>1, <1>2, <1>3 DEF TypeOK, site, Copy, Time
<1>5. ASSUME NEW f \in Endpoints PROVE CursorsOK(f)' /\ RunOK(f)'
  <2>1. RunOK(f) /\ CursorsOK(f) /\ memory[f] \in Nat
    BY <1>2, ConstantsAssumption DEF IInv, TypeOK, Time
  <2>2. CursorsOK(f)'
    BY <1>1, <2>1 DEF CursorsOK, site, Acenda
  <2>3. CASE f = e
    <3>1. RunOK(e)'
      BY <1>1, <1>3, <2>1, <2>3 DEF RunOK, site, Acenda, Fetching
    <3> QED BY <2>2, <2>3, <3>1
  <2>4. CASE f # e
    <3>1. EndpointSame(f)
      BY <1>1, <1>2, <2>4 DEF EndpointSame, TypeOK
    <3>2. /\ lake \subseteq lake' /\ exposed \subseteq exposed'
          /\ UNCHANGED <<site, clock, run_started_at>>
      BY <1>1
    <3> QED BY <2>1, <2>2, <3>1, <3>2, StillOK
  <2> QED BY <2>3, <2>4
<1>6. NothingPassed'
  BY <1>1 DEF IInv, NothingPassed, Covered, Ahead, Passes, CopyOf, site, Acenda
<1>7. (hidden \subseteq exposed)'
  BY <1>1 DEF IInv, site
<1> QED BY <1>4, <1>5, <1>6, <1>7 DEF IInv

-----------------------------------------------------------------------------
(* The start and the ends of a run *)

LEMMA ResetTypes ==
  ASSUME Reset
  PROVE  /\ run_started_at' = NoRun
         /\ pc' \in [Endpoints -> Pc] /\ since' \in [Endpoints -> Int]
         /\ left' \in [Endpoints -> SUBSET Nat]
         /\ records' \in [Endpoints -> SUBSET Copy]
         /\ \A e \in Endpoints : pc'[e] = "idle"
BY DEF Reset, Pc

\* The end of a run, its records in the lake or not.
LEMMA EndsOK ==
  ASSUME IInv, Reset, UNCHANGED <<site, clock, memory, disk, exposed>>,
         lake \subseteq lake', lake' \subseteq Copy,
         Fault \/ UNCHANGED trouble
  PROVE  IInv'
<1>1. TypeOK /\ trouble' \in 0..MaxTrouble
  BY FaultTypes DEF IInv
<1>2. TypeOK'
  BY <1>1, ResetTypes DEF TypeOK, site, Copy, Time
<1>3. NothingPassed' /\ \A e \in Endpoints : CursorsOK(e)'
  <2>1. exposed \subseteq exposed' /\ UNCHANGED <<site, clock, memory, disk>>
    OBVIOUS
  <2> QED BY <2>1, CursorsKept
<1>4. \A e \in Endpoints : RunOK(e)'
  BY ResetTypes DEF RunOK, Fetching
<1>5. (hidden \subseteq exposed)'
  BY DEF IInv, site
<1> QED BY <1>2, <1>3, <1>4, <1>5 DEF IInv

LEMMA RunFailsOK ==
  ASSUME IInv, NEW e \in Endpoints, RunFails(e)
  PROVE  IInv'
<1>1. /\ Fault /\ Reset /\ UNCHANGED <<site, clock, memory, disk, exposed>>
      /\ lake' \in {lake, lake \cup records[e]}
  BY DEF RunFails
<1>2. lake \subseteq Copy /\ records[e] \subseteq Copy
  BY DEF IInv, TypeOK
<1>3. lake \subseteq lake' /\ lake' \subseteq Copy
  BY <1>1, <1>2
<1> QED BY <1>1, <1>3, EndsOK

LEMMA EndRunOK ==
  ASSUME IInv, EndRun
  PROVE  IInv'
<1>1. Reset /\ UNCHANGED <<site, clock, memory, disk, lake, trouble, exposed>>
  BY DEF EndRun
<1>2. lake \subseteq lake' /\ lake' \subseteq Copy
  BY <1>1 DEF IInv, TypeOK
<1> QED BY <1>1, <1>2, EndsOK

LEMMA CrashOK ==
  ASSUME IInv, Crash
  PROVE  IInv'
<1>1. /\ Fault /\ Reset /\ memory' = disk
      /\ UNCHANGED <<site, clock, disk, lake, exposed>>
  BY DEF Crash
<1>2. TypeOK /\ trouble' \in 0..MaxTrouble
  BY <1>1, FaultTypes DEF IInv
<1>3. TypeOK'
  BY <1>1, <1>2, ResetTypes DEF TypeOK, site, Copy, Time
<1>4. NothingPassed'
  BY <1>1 DEF IInv, NothingPassed, Covered, Ahead, Passes, CopyOf, site, Acenda
<1>5. ASSUME NEW e \in Endpoints PROVE CursorsOK(e)' /\ RunOK(e)'
  <2>1. CursorsOK(e) /\ disk[e] \in Nat /\ memory[e] \in Nat /\ clock \in Nat
    BY <1>2, ConstantsAssumption DEF IInv, TypeOK, Time
  <2>2. CursorsOK(e)'
    BY <1>1, <2>1 DEF CursorsOK, site, Acenda
  <2>3. RunOK(e)'
    BY <1>1, ResetTypes DEF RunOK, Fetching
  <2> QED BY <2>2, <2>3
<1>6. (hidden \subseteq exposed)'
  BY <1>1 DEF IInv, site
<1> QED BY <1>3, <1>4, <1>5, <1>6 DEF IInv

LEMMA StartRunOK ==
  ASSUME IInv, StartRun
  PROVE  IInv'
<1>1. /\ run_started_at' \in Readings /\ clock' = run_started_at'
      /\ pc' = [e \in Endpoints |-> "queued"]
      /\ UNCHANGED <<site, memory, disk, lake, since, left, records, trouble, exposed>>
  BY DEF StartRun
<1>2. TypeOK /\ clock \in Nat /\ Time \subseteq Nat
  BY ConstantsAssumption DEF IInv, TypeOK, Time
<1>3. run_started_at' \in Time /\ clock <= run_started_at' /\ run_started_at' # NoRun
  BY <1>1, <1>2, ConstantsAssumption DEF Readings
<1>4. pc' \in [Endpoints -> Pc]
  BY <1>1 DEF Pc
<1>5. TypeOK'
  BY <1>1, <1>2, <1>3, <1>4 DEF TypeOK, site, Copy, Time
<1>6. NothingPassed' /\ (hidden \subseteq exposed)' /\ \A e \in Endpoints : CursorsOK(e)'
  <2>1. /\ lake \subseteq lake' /\ exposed \subseteq exposed'
        /\ UNCHANGED <<site, memory, disk>>
        /\ clock <= clock' /\ clock' \in Time
    BY <1>1, <1>3
  <2> QED BY <2>1, CursorsKept
<1>7. ASSUME NEW e \in Endpoints PROVE RunOK(e)'
  <2>1. pc'[e] = "queued"
    BY <1>1
  <2>2. ~Acenda(e)' => memory'[e] <= run_started_at'
    <3>1. /\ UNCHANGED <<query, memory>> /\ memory[e] \in Nat
          /\ ~Acenda(e) => memory[e] <= clock
      BY <1>1, <1>2 DEF IInv, CursorsOK, TypeOK, site
    <3>2. run_started_at' \in Nat
      BY <1>2, <1>3
    <3> QED BY <1>2, <1>3, <3>1, <3>2 DEF Acenda
  <2>3. run_started_at' # NoRun /\ run_started_at' <= clock'
    BY <1>1, <1>2, <1>3
  <2> QED BY <2>1, <2>2, <2>3 DEF RunOK, Fetching
<1> QED BY <1>5, <1>6, <1>7 DEF IInv

-----------------------------------------------------------------------------
(* The source *)

LEMMA TickOK ==
  ASSUME IInv, Tick
  PROVE  IInv'
<1>1. /\ now < MaxNow /\ now' = now + 1
      /\ UNCHANGED <<query, changes, version, stamp, hidden, clock, memory, disk,
                     lake, run, trouble, exposed>>
  BY DEF Tick
<1>2. TypeOK /\ now \in Nat
  BY ConstantsAssumption DEF IInv, TypeOK, Time
<1>3. TypeOK'
  BY <1>1, <1>2, ConstantsAssumption DEF TypeOK, Time, Copy, run
<1>4. NothingPassed' /\ (hidden \subseteq exposed)'
  BY <1>1 DEF IInv, NothingPassed, Covered, Ahead, Passes, Acenda, CopyOf
<1>5. ASSUME NEW e \in Endpoints PROVE CursorsOK(e)' /\ RunOK(e)'
  <2>1. CursorsOK(e) /\ RunOK(e)
    BY DEF IInv
  <2>2. CursorsOK(e)'
    BY <1>1, <2>1 DEF CursorsOK, Acenda
  <2>3. \A r : Seen(r, e)' = Seen(r, e) /\ Later(r, e)' = Later(r, e)
    BY <1>1 DEF Seen, Later, Acenda, CopyOf, run
  <2>4. \A w, p : Page(e, w, p)' = Page(e, w, p)
    BY <1>1 DEF Page, Matching, Passes, Acenda, Size
  <2>5. \A r : Coming(r, e)' = Coming(r, e)
    BY <1>1, <2>4 DEF Coming, run
  <2>6. Acenda(e)' = Acenda(e)
    BY <1>1 DEF Acenda
  <2> HIDE DEF Seen, Later, Coming
  <2>7. RunOK(e)'
    BY <1>1, <2>1, <2>3, <2>5, <2>6 DEF RunOK, Fetching, run
  <2> QED BY <2>2, <2>7
<1> QED BY <1>3, <1>4, <1>5 DEF IInv

\* A change uncovers nothing: what the cursors or the run may pass, the record
\* itself or one that it moves, is exposed.
LEMMA ChangeOK ==
  ASSUME IInv, NEW r \in Records, Change(r)
  PROVE  IInv'
<1> DEFINE d == EndpointOf[r]
<1>1. /\ changes < MaxChanges /\ changes' = changes + 1
      /\ version' = [version EXCEPT ![r] = changes + 1]
      /\ UNCHANGED <<query, now, clock, memory, disk, lake, run, trouble>>
  BY DEF Change
<1>2. PICK s \in Stamps(r), hide \in BOOLEAN :
        /\ stamp' = [stamp EXCEPT ![r] = s]
        /\ hidden' = IF hide THEN hidden \cup {r} ELSE hidden \ {r}
        /\ exposed' = (exposed \ {r}) \cup ExposedBy(r, s, hide)
  BY DEF Change
<1>3. /\ TypeOK /\ now \in Time /\ Time \subseteq Nat /\ d \in Endpoints
      /\ version \in [Records -> 0..changes] /\ changes \in Nat
      /\ stamp \in [Records -> Time] /\ memory[d] \in Nat /\ disk[d] \in Nat
  BY ConstantsAssumption DEF IInv, TypeOK, Time
<1>4. s \in Time
  BY <1>3, ConstantsAssumption DEF Stamps, Time
<1>5. version'[r] = changes + 1 /\ stamp'[r] = s
  BY <1>1, <1>2, <1>3
<1>6. \A q \in Records \ {r} :
        /\ version'[q] = version[q] /\ stamp'[q] = stamp[q]
        /\ q \in hidden' <=> q \in hidden
        /\ q \in exposed => q \in exposed'
  BY <1>1, <1>2, <1>3
<1>7. TypeOK'
  <2>1. changes' \in 0..MaxChanges
    BY <1>1, <1>3, ConstantsAssumption
  <2>2. version' \in [Records -> 0..changes']
    BY <1>1, <1>3
  <2>3. stamp' \in [Records -> Time]
    BY <1>2, <1>3, <1>4
  <2>4. exposed' \subseteq Records
    BY <1>2, <1>3 DEF TypeOK, ExposedBy, Unfetched, Matching
  <2>5. hidden' \subseteq Records
    BY <1>2, <1>3 DEF TypeOK
  <2> QED BY <1>1, <1>3, <2>1, <2>2, <2>3, <2>4, <2>5 DEF TypeOK, Time, Copy, run
<1>8. \A q \in Records \ {r} : CopyOf(q)' = CopyOf(q)
  BY <1>6 DEF CopyOf
<1>9. \A e : Acenda(e)' = Acenda(e)
  BY <1>1 DEF Acenda
\* r is exposed, or where the next query finds it, if this one does not.
<1>10. ASSUME r \notin exposed'
       PROVE  /\ ~hide
              /\ ~Acenda(d) => s >= memory[d]
              /\ ~Acenda(d) /\ pc[d] \in Fetching => ~(s < run_started_at)
              /\ Acenda(d) => /\ pc[d] # "pages" /\ s > memory[d]
                              /\ \A c \in records[d] : s > c.stamp
  <2>1. r \notin ExposedBy(r, s, hide)
    BY <1>2, <1>10
  <2>2. ~hide
    BY <2>1 DEF ExposedBy
  <2>3. ~Acenda(d) => ~(s < memory[d]) /\ ~(pc[d] \in Fetching /\ s < run_started_at)
    BY <2>1 DEF ExposedBy
  <2>4. Acenda(d) => /\ pc[d] # "pages" /\ ~(s <= memory[d])
                     /\ \A c \in records[d] : ~(s <= c.stamp)
    BY <2>1 DEF ExposedBy
  <2>5. \A c \in records[d] : c.stamp \in Nat
    BY <1>3, FetchedTimes
  <2>6. s \in Nat
    BY <1>3, <1>4
  <2> HIDE DEF d
  <2> QED BY <1>3, <2>2, <2>3, <2>4, <2>5, <2>6
<1>11. (hidden \subseteq exposed)'
  <2>1. \A q \in hidden' \ {r} : q \in exposed'
    BY <1>3, <1>6, <1>7 DEF IInv, TypeOK
  <2>2. r \in hidden' => r \in exposed'
    BY <1>2, <1>10
  <2> QED BY <2>1, <2>2
<1>12. NothingPassed'
  <2>1. ASSUME NEW q \in Records, version'[q] > 0
        PROVE  Covered(q, memory[EndpointOf[q]])' /\ Covered(q, disk[EndpointOf[q]])'
    <3>1. CASE q # r
      <4>1. Covered(q, memory[EndpointOf[q]]) /\ Covered(q, disk[EndpointOf[q]])
        BY <1>6, <2>1, <3>1 DEF IInv, NothingPassed
      <4> QED BY <1>1, <1>6, <1>8, <3>1, <4>1 DEF Covered, Ahead, Passes, Acenda
    <3>2. CASE q = r /\ r \in exposed'
      BY <3>2 DEF Covered
    <3>3. CASE q = r /\ r \notin exposed'
      <4>1. disk[d] <= memory[d]
        BY <1>3 DEF IInv, CursorsOK
      <4>2. s \in Nat
        BY <1>3, <1>4
      <4>3. r \notin hidden'
        BY <1>11, <3>3
      <4>4. /\ ~Acenda(d) => s >= memory[d] /\ s >= disk[d]
            /\ Acenda(d) => s > memory[d] /\ s > disk[d]
        <5> HIDE DEF d
        <5> QED BY <1>3, <1>10, <3>3, <4>1, <4>2
      <4>5. Passes(d, s, memory[d]) /\ Passes(d, s, disk[d])
        BY <4>4 DEF Passes
      <4>6. Passes(d, stamp[r], memory[d])' /\ Passes(d, stamp[r], disk[d])'
        BY <1>1, <1>5, <4>5 DEF Passes, Acenda
      <4> QED BY <3>3, <4>3, <4>6 DEF Covered, Ahead
    <3> QED BY <3>1, <3>2, <3>3
  <2> QED BY <2>1 DEF NothingPassed
<1>13. ASSUME NEW e \in Endpoints PROVE CursorsOK(e)'
  BY <1>1, <1>9 DEF IInv, CursorsOK
<1>14. ASSUME NEW e \in Endpoints PROVE RunOK(e)'
  <2>1. RunOK(e)
    BY DEF IInv
  <2>2. /\ run_started_at' = run_started_at /\ pc'[e] = pc[e] /\ since'[e] = since[e]
        /\ left'[e] = left[e] /\ records'[e] = records[e] /\ clock' = clock
        /\ memory'[e] = memory[e] /\ lake' = lake
    BY <1>1 DEF run
  \* The changed record.
  <2>3. ASSUME EndpointOf[r] = e, pc[e] \in Fetching
        PROVE  Seen(r, e)' \/ (Later(r, e)' /\ pc[e] # "pages")
    <3>1. CASE r \in exposed'
      BY <3>1 DEF Seen
    <3>2. CASE r \notin exposed' /\ ~Acenda(e)
      <4>1. run_started_at \in Nat
        <5>1. run_started_at # NoRun
          BY <2>1, <2>3 DEF RunOK, Fetching
        <5> QED BY <1>3, <5>1 DEF TypeOK
      <4>2. ~(s < run_started_at) /\ s \in Nat
        BY <1>3, <1>4, <1>10, <2>3, <3>2
      <4>3. s >= run_started_at
        BY <4>1, <4>2
      <4> QED BY <1>5, <1>9, <2>2, <3>2, <4>3 DEF Seen
    <3>3. CASE r \notin exposed' /\ Acenda(e)
      <4>1. pc[e] # "pages" /\ \A c \in records[e] : s > c.stamp
        BY <1>10, <2>3, <3>3
      <4>2. \A c \in records[e] : c.stamp \in Nat
        BY <1>3, FetchedTimes
      <4>3. \A c \in records[e] : c.stamp < s
        BY <1>3, <1>4, <4>1, <4>2
      <4> QED BY <1>5, <1>9, <2>2, <3>3, <4>1, <4>3 DEF Later
    <3> QED BY <3>1, <3>2, <3>3
  \* The others.
  <2>4. ASSUME NEW q \in Records \ {r}
        PROVE  /\ Seen(q, e) => Seen(q, e)'
               /\ Later(q, e) => Later(q, e)'
    BY <1>6, <1>8, <1>9, <2>2 DEF Seen, Later
  <2>5. ASSUME NEW q \in Records \ {r}, pc[e] = "pages", Coming(q, e)
        PROVE  Seen(q, e)' \/ Coming(q, e)'
    <3> DEFINE w == since[e]
               matches == ~hide /\ Passes(e, s, w)
    <3>1. PICK p \in left[e] : q \in Page(e, w, p)
      BY <2>5 DEF Coming
    <3>2. q \in Matching(e, w)
      BY <3>1 DEF Page
    \* The pages are as they were.
    <3>3. CASE d # e \/ (r \in Matching(e, w) <=> matches)
      <4>1. r \in Matching(e, since[e])' <=> d = e /\ matches
        BY <1>1, <1>2, <1>3, <1>5, <1>9, <2>2 DEF Matching, Passes
      <4>2. r \in Matching(e, w) <=> d = e /\ matches
        BY <3>3 DEF Matching
      <4>3. \A x \in Records \ {r} :
              x \in Matching(e, since[e])' <=> x \in Matching(e, w)
        BY <1>6, <1>9, <2>2 DEF Matching, Passes
      <4>4. Matching(e, since[e])' = Matching(e, w)
        <5>1. Matching(e, since[e])' \subseteq Records /\ Matching(e, w) \subseteq Records
          BY DEF Matching
        <5> QED BY <4>1, <4>2, <4>3, <5>1
      <4>5. Page(e, since[e], p)' = Page(e, w, p)
        BY <1>9, <4>4 DEF Page, Size
      <4> QED BY <2>2, <3>1, <4>5 DEF Coming
    \* They are not, and q may have moved.
    <3>4. CASE d = e /\ ~(r \in Matching(e, w) <=> matches)
      <4>1. CASE CopyOf(q) \in records[e]
        BY <1>8, <2>2, <4>1 DEF Seen
      <4>2. CASE CopyOf(q) \notin records[e]
        <5>1. q \in Unfetched(e) \ {r}
          BY <3>2, <4>2 DEF Unfetched
        <5>2. q \in ExposedBy(r, s, hide)
          BY <2>5, <3>4, <5>1 DEF ExposedBy
        <5> QED BY <1>2, <5>2 DEF Seen
      <4> QED BY <4>1, <4>2
    <3> QED BY <3>3, <3>4
  <2>6. \A q \in Records \ {r} : version'[q] = version[q]
    BY <1>6
  <2>7. pc[e] = "pages" =>
          \A q \in Records : EndpointOf[q] = e /\ version'[q] > 0 =>
            Seen(q, e)' \/ Coming(q, e)'
    <3> HIDE DEF Seen, Coming, Later
    <3> QED BY <2>1, <2>3, <2>4, <2>5, <2>6 DEF RunOK, Fetching
  <2>8. pc[e] \in {"fetched", "row", "state"} =>
          \A q \in Records : EndpointOf[q] = e /\ version'[q] > 0 =>
            Seen(q, e)' \/ Later(q, e)'
    <3> HIDE DEF Seen, Coming, Later
    <3> QED BY <2>1, <2>3, <2>4, <2>6 DEF RunOK, Fetching
  <2> HIDE DEF Seen, Coming, Later
  <2> QED BY <1>9, <2>1, <2>2, <2>7, <2>8 DEF RunOK, Fetching
<1> QED BY <1>7, <1>11, <1>12, <1>13, <1>14 DEF IInv

-----------------------------------------------------------------------------
(* The theorems *)

LEMMA InitOK == Init => IInv
<1> SUFFICES ASSUME Init PROVE IInv
  OBVIOUS
<1>1. TypeOK
  <2>1. now = 1 /\ changes = 0 /\ trouble = 0
    BY DEF Init
  <2> QED BY <2>1, ConstantsAssumption DEF Init, TypeOK, Time, Pc
<1>2. NothingPassed
  BY DEF Init, NothingPassed
<1>3. ASSUME NEW e \in Endpoints PROVE CursorsOK(e) /\ RunOK(e)
  BY DEF Init, CursorsOK, RunOK, Fetching
<1>4. hidden \subseteq exposed
  BY DEF Init
<1> QED BY <1>1, <1>2, <1>3, <1>4 DEF IInv

LEMMA StutterOK ==
  ASSUME IInv, UNCHANGED vars
  PROVE  IInv'
<1>1. UNCHANGED <<site, clock, memory, disk, lake, run_started_at, pc, since, left,
                  records, trouble, exposed>>
  BY DEF vars, run
<1>2. TypeOK'
  BY <1>1 DEF IInv, TypeOK, site, Copy, Time
<1>3. /\ lake \subseteq lake' /\ exposed \subseteq exposed'
      /\ UNCHANGED <<site, clock, memory, disk>>
      /\ UNCHANGED <<site, clock, run_started_at>>
  BY <1>1
<1>4. NothingPassed' /\ \A e \in Endpoints : CursorsOK(e)'
  BY <1>3, CursorsKept
<1>5. ASSUME NEW e \in Endpoints PROVE RunOK(e)'
  <2>1. RunOK(e) /\ EndpointSame(e)
    BY <1>1 DEF IInv, EndpointSame
  <2> QED BY <1>3, <2>1, StillOK
<1>6. (hidden \subseteq exposed)'
  BY <1>1 DEF IInv, site
<1> QED BY <1>2, <1>4, <1>5, <1>6 DEF IInv

LEMMA StepOK ==
  ASSUME IInv, [Next]_vars
  PROVE  IInv'
<1>1. CASE Tick
  BY <1>1, TickOK
<1>2. CASE \E r \in Records : Change(r)
  BY <1>2, ChangeOK
<1>3. CASE StartRun
  BY <1>3, StartRunOK
<1>4. CASE EndRun
  BY <1>4, EndRunOK
<1>5. CASE Crash
  BY <1>5, CrashOK
<1>6. ASSUME NEW e \in Endpoints,
             \/ FirstPage(e) \/ FirstPageFails(e)
             \/ \E p \in left[e] : NextPage(e, p) \/ PageFails(e, p)
             \/ Handle(e) \/ InsertRow(e) \/ Advance(e) \/ Save(e)
             \/ RunFails(e)
      PROVE  IInv'
  <2>1. CASE FirstPage(e)
    BY <2>1, FirstPageOK
  <2>2. CASE FirstPageFails(e)
    BY <2>2, FirstPageFailsOK
  <2>3. CASE \E p \in left[e] : NextPage(e, p) \/ PageFails(e, p)
    BY <2>3, NextPageOK, PageFailsOK
  <2>4. CASE Handle(e)
    BY <2>4, HandleOK
  <2>5. CASE InsertRow(e)
    BY <2>5, InsertRowOK
  <2>6. CASE Advance(e)
    BY <2>6, AdvanceOK
  <2>7. CASE Save(e)
    BY <2>7, SaveOK
  <2>8. CASE RunFails(e)
    BY <2>8, RunFailsOK
  <2> QED BY <1>6, <2>1, <2>2, <2>3, <2>4, <2>5, <2>6, <2>7, <2>8
<1>7. CASE UNCHANGED vars
  BY <1>7, StutterOK
<1> QED BY <1>1, <1>2, <1>3, <1>4, <1>5, <1>6, <1>7 DEF Next

\* The cursor in memory is never behind that of the file, nor (SOS) ahead of the
\* worker's clock, and at every step of a run (get_sos_data, get_acenda_data, the
\* lake row, update_state_file, StateStore.update) what its cursor is going to
\* pass has been fetched, is to come, will be asked for again or is exposed.
THEOREM Invariance == Spec => []IInv
<1>1. IInv /\ [Next]_vars => IInv'
  BY StepOK
<1> QED BY InitOK, <1>1, PTL DEF Spec

\* For any records, endpoints, pages, queries and clocks, and any changes, failures
\* and restarts: a record whose present state neither cursor would fetch again is
\* in the lake, or for one of these reasons it is not (sync_endpoints_job).  The
\* source hides it; its page was skipped, or never asked for as the source told
\* less than there is; it moved between pages; its query does not compare when it
\* changed, or the worker's clock is ahead (SOS); it was overtaken or changed at
\* the instant of the cursor (Acenda); it is older than a first run looks.
THEOREM NoneMissed == Spec => []NothingPassed
<1>1. IInv => NothingPassed
  BY DEF IInv
<1> QED BY Invariance, <1>1, PTL

\* StateStore's file never takes an endpoint's cursor back, whichever endpoint
\* saves it and whatever failed before.
THEOREM FileForward == Spec => CursorForward
<1>1. ASSUME IInv, [Next]_vars PROVE \A e \in Endpoints : disk[e] <= disk'[e]
  <2>1. TypeOK /\ \A e \in Endpoints : CursorsOK(e)
    BY <1>1 DEF IInv
  <2>2. disk' = disk \/ disk' = memory
    BY <1>1 DEF Next, Tick, Change, StartRun, EndRun, Crash, FirstPage, FirstPageFails,
                NextPage, PageFails, PageDone, Handle, InsertRow, Advance, Save,
                RunFails, vars
  <2>3. \A e \in Endpoints : disk[e] \in Nat /\ disk[e] <= memory[e]
    BY <2>1, ConstantsAssumption DEF CursorsOK, TypeOK, Time
  <2> QED BY <2>2, <2>3
<1>2. IInv /\ [Next]_vars => [\A e \in Endpoints : disk[e] <= disk'[e]]_vars
  BY <1>1
<1> QED BY Invariance, <1>2, PTL DEF Spec, CursorForward
=============================================================================
