-------------------------- MODULE DeploymentProofs --------------------------
(***************************************************************************)
(* Proofs about Deployment, for any number of pushes, versions, rows and   *)
(* values.                                                                 *)
(***************************************************************************)
EXTENDS Deployment, TLAPS, WellFoundedInduction

-----------------------------------------------------------------------------
(* Recursion over the operations of a revision *)

\* Every set of naturals that is not empty has a least element: induction, for
\* properties of a natural that are given as a set.
LEMMA LeastNatural ==
  ASSUME NEW S, S \subseteq Nat, S # {}
  PROVE  \E n \in S : \A m \in S : ~(m < n)
<1>1. PICK n \in S : \A m \in S : ~(<<m, n>> \in OpToRel(<, Nat))
  BY NatLessThanWellFounded, WFMin
<1>2. \A m \in S : m < n => <<m, n>> \in OpToRel(<, Nat)
  BY DEF OpToRel
<1> QED BY <1>1, <1>2

LEMMA NaturalInduction ==
  ASSUME NEW S, 0 \in S, \A n \in Nat : n \in S => n + 1 \in S
  PROVE  Nat \subseteq S
<1> DEFINE T == Nat \ S
<1> SUFFICES ASSUME T # {} PROVE FALSE
  OBVIOUS
<1>1. PICK n \in T : \A m \in T : ~(m < n)
  BY LeastNatural
<1>2. n # 0 /\ n \in Nat
  OBVIOUS
<1>3. n - 1 \in Nat /\ n - 1 < n /\ (n - 1) + 1 = n
  BY <1>2
<1>4. n - 1 \in S
  BY <1>1, <1>3
<1> QED BY <1>3, <1>4

\* The only element of a set, and what is made of it.
LEMMA OnceSingle == ASSUME NEW x PROVE Once({x}) = x
BY DEF Once

LEMMA OnceAdvance ==
  ASSUME NEW y, NEW ops, NEW k
  PROVE  Once({Advance(x, ops, k) : x \in {y}}) = Advance(y, ops, k)
<1>1. {Advance(x, ops, k) : x \in {y}} = {Advance(y, ops, k)}
  OBVIOUS
<1> QED BY <1>1, OnceSingle

\* What RunOps says of its function.
RunStep(run, d, ops, k) ==
  run[k] = IF k = 0 THEN [db |-> d, done |-> 0] ELSE Advance(run[k - 1], ops, k)

IsRun(run, d, ops, n) ==
  /\ run = [k \in 0..n |-> run[k]]
  /\ \A k \in 0..n : RunStep(run, d, ops, k)

\* There is such a function, for any number of operations.
LEMMA RunExists ==
  ASSUME NEW d, NEW ops, NEW n \in Nat
  PROVE  \E run : IsRun(run, d, ops, n)
<1> DEFINE S == {m \in Nat : \E run : IsRun(run, d, ops, m)}
<1>1. 0 \in S
  <2> DEFINE run == [k \in 0..0 |-> [db |-> d, done |-> 0]]
  <2>1. IsRun(run, d, ops, 0)
    BY DEF IsRun, RunStep
  <2> QED BY <2>1
<1>2. ASSUME NEW m \in Nat, m \in S
      PROVE  m + 1 \in S
  <2>1. PICK run : IsRun(run, d, ops, m)
    BY <1>2
  <2> DEFINE more == [k \in 0..(m + 1) |->
                        IF k = m + 1 THEN Advance(run[m], ops, m + 1) ELSE run[k]]
  <2>2. /\ \A k \in 0..m : more[k] = run[k]
        /\ more[m + 1] = Advance(run[m], ops, m + 1)
        /\ more = [k \in 0..(m + 1) |-> more[k]]
    OBVIOUS
  <2> HIDE DEF more
  <2>3. ASSUME NEW k \in 0..(m + 1)
        PROVE  RunStep(more, d, ops, k)
    <3>1. CASE k \in 0..m
      <4>1. RunStep(run, d, ops, k) /\ (k = 0 \/ k - 1 \in 0..m)
        BY <2>1, <3>1 DEF IsRun
      <4> QED BY <2>2, <3>1, <4>1 DEF RunStep
    <3>2. CASE k = m + 1
      <4>1. k - 1 = m /\ m \in 0..m /\ k # 0
        BY <3>2
      <4> QED BY <2>2, <3>2, <4>1 DEF RunStep
    <3> QED BY <3>1, <3>2
  <2>4. IsRun(more, d, ops, m + 1)
    BY <2>2, <2>3 DEF IsRun
  <2> QED BY <2>4
<1> HIDE DEF S
<1>3. n \in S
  BY <1>1, <1>2, NaturalInduction
<1> QED BY <1>3 DEF S

\* RunOps is where such a function leads.
LEMMA RunOpsRuns ==
  ASSUME NEW d, NEW ops, Len(ops) \in Nat
  PROVE  \E run : IsRun(run, d, ops, Len(ops)) /\ RunOps(d, ops) = run[Len(ops)]
<1> DEFINE Body(run) == [k \in 0..Len(ops) |->
             IF k = 0 THEN [db |-> d, done |-> 0]
                      ELSE Once({Advance(x, ops, k) : x \in {run[k - 1]}})]
           Run == CHOOSE run : run = Body(run)
<1>1. ASSUME NEW run
      PROVE  (run = Body(run)) <=> IsRun(run, d, ops, Len(ops))
  <2>1. \A k \in 0..Len(ops) :
          Body(run)[k] = IF k = 0 THEN [db |-> d, done |-> 0]
                                  ELSE Advance(run[k - 1], ops, k)
    BY OnceAdvance
  <2>2. Body(run) = [k \in 0..Len(ops) |-> Body(run)[k]]
    OBVIOUS
  <2> HIDE DEF Body
  <2> QED BY <2>1, <2>2 DEF IsRun, RunStep
<1>2. \E run : run = Body(run)
  BY <1>1, RunExists
<1>3. Run = Body(Run)
  BY <1>2
<1>4. RunFrom(d, ops) = Run[Len(ops)]
  BY DEF RunFrom
<1>5. RunOps(d, ops) = RunFrom(d, ops)
  <2>1. {RunFrom(e, o) : e \in {d}, o \in {ops}} = {RunFrom(d, ops)}
    OBVIOUS
  <2> QED BY <2>1, OnceSingle DEF RunOps
<1> QED BY <1>1, <1>3, <1>4, <1>5

-----------------------------------------------------------------------------
(* Operations do the same to databases that are alike *)

AllOps == UpOps \union DownOps

\* PostgreSQL refuses an operation in the one and not in the other only for a row, or
\* for a type that was left behind.
LEMMA PossibleAlike ==
  ASSUME NEW d, NEW e, Like(d, e), NEW o, o.do \in AllOps \ ByRows, Possible(e, o)
  PROVE  Possible(d, o)
<1> USE DEF Possible, Like
<1>1. CASE o.do = "create schema"
  BY <1>1
<1>2. CASE o.do = "drop schema"
  BY <1>2
<1>3. CASE o.do = "create"
  BY <1>3
<1>4. CASE o.do = "drop"
  BY <1>4
<1>5. CASE o.do = "move"
  BY <1>5
<1>6. CASE o.do \in {"add column", "drop column", "copy column"}
  BY <1>6
<1>7. CASE o.do \in {"relax", "fill", "unrefer"}
  BY <1>7
<1> QED BY <1>1, <1>2, <1>3, <1>4, <1>5, <1>6, <1>7 DEF AllOps, UpOps, DownOps, ByRows

\* What a database has, and what stays when some of it changes.
LEMMA Fields ==
  DOMAIN Nothing = {"schemas", "tables", "refs", "columns", "rules", "types", "odd",
                    "orphans", "values"}
BY DEF Nothing

LEMMA StaysDatabase ==
  ASSUME NEW d, IsDatabase(d), NEW x, x = [f \in DOMAIN d |-> x[f]],
         x.values \subseteq x.columns, \A y \in x.odd : y = <<y[1], y[2]>>
  PROVE  IsDatabase(x)
<1>1. DOMAIN d = DOMAIN Nothing
  BY DEF IsDatabase
<1> QED BY <1>1 DEF IsDatabase

LEMMA DatabaseFields ==
  ASSUME NEW d, IsDatabase(d)
  PROVE  DOMAIN d = {"schemas", "tables", "refs", "columns", "rules", "types", "odd", "orphans",
                     "values"}
BY Fields DEF IsDatabase

\* Dropping and moving tables does the same to databases that are alike.
KeptIn(T, S) == {x \in S : x[1] \notin T}

LEMMA WithoutFields ==
  ASSUME NEW d, IsDatabase(d), NEW T
  PROVE  /\ IsDatabase(Without(d, T))
         /\ Without(d, T).tables = d.tables \ T
         /\ Without(d, T).refs = KeptIn(T, d.refs)
         /\ Without(d, T).columns = KeptIn(T, d.columns)
         /\ Without(d, T).rules = KeptIn(T, d.rules)
         /\ Without(d, T).odd = KeptIn(T, d.odd)
         /\ Without(d, T).values = KeptIn(T, d.values)
         /\ Without(d, T).schemas = d.schemas
         /\ Without(d, T).types = d.types
<1> DEFINE x == [d EXCEPT !.tables = d.tables \ T, !.refs = KeptIn(T, d.refs),
                          !.columns = KeptIn(T, d.columns), !.rules = KeptIn(T, d.rules),
                          !.odd = KeptIn(T, d.odd), !.orphans = KeptIn(T, d.orphans),
                          !.values = KeptIn(T, d.values)]
<1>1. DOMAIN d = {"schemas", "tables", "refs", "columns", "rules", "types", "odd", "orphans", "values"}
  BY DatabaseFields
<1>2. Without(d, T) = x
  BY <1>1 DEF Without, KeptIn
<1>3. x = [f \in DOMAIN d |-> x[f]]
  OBVIOUS
<1>4. /\ x.tables = d.tables \ T /\ x.refs = KeptIn(T, d.refs)
      /\ x.columns = KeptIn(T, d.columns) /\ x.rules = KeptIn(T, d.rules)
  BY <1>1
<1>5. x.odd = KeptIn(T, d.odd) /\ x.values = KeptIn(T, d.values)
  BY <1>1
<1>6. x.schemas = d.schemas /\ x.types = d.types
  BY <1>1
<1> HIDE DEF x
<1>7. IsDatabase(x)
  <2>1. d.values \subseteq d.columns /\ \A y \in d.odd : y = <<y[1], y[2]>>
    BY DEF IsDatabase
  <2>2. x.values \subseteq x.columns /\ \A y \in x.odd : y = <<y[1], y[2]>>
    BY <1>4, <1>5, <2>1 DEF KeptIn
  <2> QED BY <1>3, <2>2, StaysDatabase
<1> QED BY <1>2, <1>4, <1>5, <1>6, <1>7

LEMMA WithoutAlike ==
  ASSUME NEW d, NEW e, IsDatabase(d), IsDatabase(e), Like(d, e), NEW T
  PROVE  Like(Without(d, T), Without(e, T))
<1>0. /\ d.tables = e.tables /\ d.refs = e.refs /\ d.columns = e.columns /\ d.rules = e.rules
      /\ e.values \subseteq d.values
  BY DEF Like
<1>1. /\ Without(d, T).tables = Without(e, T).tables
      /\ Without(d, T).refs = Without(e, T).refs
  <2>1. /\ Without(d, T).tables = d.tables \ T /\ Without(e, T).tables = e.tables \ T
        /\ Without(d, T).refs = KeptIn(T, d.refs) /\ Without(e, T).refs = KeptIn(T, e.refs)
    BY WithoutFields
  <2> QED BY <1>0, <2>1
<1>2. /\ Without(d, T).columns = Without(e, T).columns
      /\ Without(d, T).rules = Without(e, T).rules
  <2>1. /\ Without(d, T).columns = KeptIn(T, d.columns)
        /\ Without(e, T).columns = KeptIn(T, e.columns)
        /\ Without(d, T).rules = KeptIn(T, d.rules) /\ Without(e, T).rules = KeptIn(T, e.rules)
    BY WithoutFields
  <2> QED BY <1>0, <2>1
<1>3. /\ Without(d, T).schemas = d.schemas /\ Without(d, T).types = d.types
      /\ Without(e, T).schemas = e.schemas /\ Without(e, T).types = e.types
  BY WithoutFields
<1>4. Without(e, T).values \subseteq Without(d, T).values
  <2>1. Without(d, T).values = KeptIn(T, d.values) /\ Without(e, T).values = KeptIn(T, e.values)
    BY WithoutFields
  <2> QED BY <1>0, <2>1 DEF KeptIn
<1> QED BY <1>1, <1>2, <1>3, <1>4 DEF Like

NewName(T, s, u) == IF u \in T THEN [u EXCEPT ![1] = s] ELSE u
NewTables(T, s, S) == {NewName(T, s, u) : u \in S}
NewFirst(T, s, S)  == {<<NewName(T, s, x[1]), x[2]>> : x \in S}
NewBoth(T, s, S)   == {<<NewName(T, s, x[1]), NewName(T, s, x[2])>> : x \in S}

LEMMA MovedFields ==
  ASSUME NEW d, IsDatabase(d), NEW T, NEW s
  PROVE  /\ IsDatabase(Moved(d, T, s))
         /\ Moved(d, T, s).tables = NewTables(T, s, d.tables)
         /\ Moved(d, T, s).refs = NewBoth(T, s, d.refs)
         /\ Moved(d, T, s).columns = NewFirst(T, s, d.columns)
         /\ Moved(d, T, s).rules = NewFirst(T, s, d.rules)
         /\ Moved(d, T, s).odd = NewFirst(T, s, d.odd)
         /\ Moved(d, T, s).values = NewFirst(T, s, d.values)
         /\ Moved(d, T, s).schemas = d.schemas
         /\ Moved(d, T, s).types = d.types
<1> DEFINE x == [d EXCEPT !.tables = NewTables(T, s, d.tables), !.refs = NewBoth(T, s, d.refs),
                          !.orphans = NewBoth(T, s, d.orphans),
                          !.columns = NewFirst(T, s, d.columns), !.rules = NewFirst(T, s, d.rules),
                          !.odd = NewFirst(T, s, d.odd), !.values = NewFirst(T, s, d.values)]
<1>1. DOMAIN d = {"schemas", "tables", "refs", "columns", "rules", "types", "odd", "orphans", "values"}
  BY DatabaseFields
<1>2. Moved(d, T, s) = x
  BY <1>1 DEF Moved, NewTables, NewBoth, NewFirst, NewName
<1>3. x = [f \in DOMAIN d |-> x[f]]
  OBVIOUS
<1>4. /\ x.tables = NewTables(T, s, d.tables) /\ x.refs = NewBoth(T, s, d.refs)
      /\ x.columns = NewFirst(T, s, d.columns) /\ x.rules = NewFirst(T, s, d.rules)
  BY <1>1
<1>5. x.odd = NewFirst(T, s, d.odd) /\ x.values = NewFirst(T, s, d.values)
  BY <1>1
<1>6. x.schemas = d.schemas /\ x.types = d.types
  BY <1>1
<1> HIDE DEF x
<1>7. IsDatabase(x)
  <2>1. d.values \subseteq d.columns
    BY DEF IsDatabase
  <2>2. x.values \subseteq x.columns
    BY <1>4, <1>5, <2>1 DEF NewFirst
  <2>3. \A y \in x.odd : y = <<y[1], y[2]>>
    BY <1>5 DEF NewFirst
  <2> QED BY <1>3, <2>2, <2>3, StaysDatabase
<1> QED BY <1>2, <1>4, <1>5, <1>6, <1>7

LEMMA MovedAlike ==
  ASSUME NEW d, NEW e, IsDatabase(d), IsDatabase(e), Like(d, e), NEW T, NEW s
  PROVE  Like(Moved(d, T, s), Moved(e, T, s))
<1>0. /\ d.tables = e.tables /\ d.refs = e.refs /\ d.columns = e.columns /\ d.rules = e.rules
      /\ e.values \subseteq d.values
  BY DEF Like
<1>1. /\ Moved(d, T, s).tables = Moved(e, T, s).tables
      /\ Moved(d, T, s).refs = Moved(e, T, s).refs
      /\ Moved(d, T, s).columns = Moved(e, T, s).columns
      /\ Moved(d, T, s).rules = Moved(e, T, s).rules
  BY <1>0, MovedFields
<1>2. /\ Moved(d, T, s).schemas = d.schemas /\ Moved(d, T, s).types = d.types
      /\ Moved(e, T, s).schemas = e.schemas /\ Moved(e, T, s).types = e.types
  BY MovedFields
<1>3. Moved(e, T, s).values \subseteq Moved(d, T, s).values
  <2>1. /\ Moved(d, T, s).values = NewFirst(T, s, d.values)
        /\ Moved(e, T, s).values = NewFirst(T, s, e.values)
    BY MovedFields
  <2> QED BY <1>0, <2>1 DEF NewFirst
<1> QED BY <1>1, <1>2, <1>3 DEF Like

\* What the other operations leave alone.
LEMMA DoneElsewhere ==
  ASSUME NEW d, IsDatabase(d), NEW o, o.do \in AllOps \ {"drop", "move"}
  PROVE  /\ Done(d, o) = [f \in DOMAIN d |-> Done(d, o)[f]]
         /\ Done(d, o).odd = IF o.do = "fill" THEN d.odd \ {o.rule} ELSE d.odd
         /\ o.do \notin {"add column", "drop column"} => Done(d, o).columns = d.columns
         /\ o.do \notin {"copy column", "drop column"} => Done(d, o).values = d.values
<1>1. d = [f \in DOMAIN d |-> d[f]]
  BY DEF IsDatabase
<1>2. "odd" \in DOMAIN d /\ "columns" \in DOMAIN d /\ "values" \in DOMAIN d
  BY DatabaseFields
<1>3. CASE o.do \in {"create schema", "drop schema", "create"}
  <2>1. Done(d, o) = [f \in DOMAIN d |-> Done(d, o)[f]]
    BY <1>1, <1>3 DEF Done
  <2>2. Done(d, o).odd = d.odd
    BY <1>2, <1>3 DEF Done
  <2>3. Done(d, o).columns = d.columns /\ Done(d, o).values = d.values
    BY <1>2, <1>3 DEF Done
  <2> QED BY <1>3, <2>1, <2>2, <2>3
<1>4. CASE o.do = "add column"
  <2>1. Done(d, o) = [f \in DOMAIN d |-> Done(d, o)[f]]
    BY <1>1, <1>4 DEF Done
  <2>2. Done(d, o).odd = d.odd
    BY <1>2, <1>4 DEF Done
  <2>3. Done(d, o).values = d.values
    BY <1>2, <1>4 DEF Done
  <2> QED BY <1>4, <2>1, <2>2, <2>3
<1>5. CASE o.do = "drop column"
  <2>1. Done(d, o) = [f \in DOMAIN d |-> Done(d, o)[f]]
    BY <1>1, <1>5 DEF Done
  <2>2. Done(d, o).odd = d.odd
    BY <1>2, <1>5 DEF Done
  <2> QED BY <1>5, <2>1, <2>2
<1>6. CASE o.do = "copy column"
  <2>1. Done(d, o) = [f \in DOMAIN d |-> Done(d, o)[f]]
    BY <1>1, <1>6 DEF Done
  <2>2. Done(d, o).odd = d.odd
    BY <1>2, <1>6 DEF Done
  <2>3. Done(d, o).columns = d.columns
    BY <1>2, <1>6 DEF Done
  <2> QED BY <1>6, <2>1, <2>2, <2>3
<1>7. CASE o.do \in {"require", "relax"}
  <2>1. Done(d, o) = [f \in DOMAIN d |-> Done(d, o)[f]]
    BY <1>1, <1>7 DEF Done
  <2>2. Done(d, o).odd = d.odd
    BY <1>2, <1>7 DEF Done
  <2>3. Done(d, o).columns = d.columns /\ Done(d, o).values = d.values
    BY <1>2, <1>7 DEF Done
  <2> QED BY <1>7, <2>1, <2>2, <2>3
<1>8. CASE o.do = "fill"
  <2>1. Done(d, o) = [f \in DOMAIN d |-> Done(d, o)[f]]
    BY <1>1, <1>8 DEF Done
  <2>2. Done(d, o).odd = d.odd \ {o.rule}
    BY <1>2, <1>8 DEF Done
  <2>3. Done(d, o).columns = d.columns /\ Done(d, o).values = d.values
    BY <1>2, <1>8 DEF Done
  <2> QED BY <1>8, <2>1, <2>2, <2>3
<1>9. CASE o.do \in {"refer", "unrefer", "create type"}
  <2>1. Done(d, o) = [f \in DOMAIN d |-> Done(d, o)[f]]
    BY <1>1, <1>9 DEF Done
  <2>2. Done(d, o).odd = d.odd
    BY <1>2, <1>9 DEF Done
  <2>3. Done(d, o).columns = d.columns /\ Done(d, o).values = d.values
    BY <1>2, <1>9 DEF Done
  <2> QED BY <1>9, <2>1, <2>2, <2>3
<1> QED BY <1>3, <1>4, <1>5, <1>6, <1>7, <1>8, <1>9 DEF AllOps, UpOps, DownOps

\* An operation makes a database of a database, and of databases that are alike some
\* that are alike again.
LEMMA DoneDatabase ==
  ASSUME NEW d, IsDatabase(d), NEW o, o.do \in AllOps, Possible(d, o)
  PROVE  IsDatabase(Done(d, o))
<1>1. CASE o.do \in {"drop", "move"}
  BY <1>1, WithoutFields, MovedFields DEF Done
<1>2. CASE o.do \notin {"drop", "move"}
  <2>1. /\ d.values \subseteq d.columns
        /\ DOMAIN d = {"schemas", "tables", "refs", "columns", "rules", "types", "odd", "orphans", "values"}
    BY DatabaseFields DEF IsDatabase
  <2>2. Done(d, o).values \subseteq Done(d, o).columns
    <3>1. CASE o.do = "add column"
      BY <2>1, <3>1 DEF Done
    <3>2. CASE o.do = "drop column"
      BY <2>1, <3>2 DEF Done
    <3>3. CASE o.do = "copy column"
      <4>1. <<o.table, o.to>> \in d.columns
        BY <3>3 DEF Possible
      <4>2. Done(d, o).columns = d.columns
        BY <1>2, <3>3, DoneElsewhere
      <4>3. Done(d, o).values \subseteq d.values \union {<<o.table, o.to>>}
        BY <2>1, <3>3 DEF Done
      <4> QED BY <2>1, <4>1, <4>2, <4>3
    <3>4. CASE o.do \notin {"add column", "drop column", "copy column"}
      BY <1>2, <2>1, <3>4, DoneElsewhere
    <3> QED BY <3>1, <3>2, <3>3, <3>4
  <2>3. /\ Done(d, o) = [f \in DOMAIN d |-> Done(d, o)[f]]
        /\ Done(d, o).odd = IF o.do = "fill" THEN d.odd \ {o.rule} ELSE d.odd
    BY <1>2, DoneElsewhere
  <2>4. \A y \in Done(d, o).odd : y = <<y[1], y[2]>>
    BY <2>3 DEF IsDatabase
  <2> QED BY <2>2, <2>3, <2>4, StaysDatabase
<1> QED BY <1>1, <1>2

SameTables(d, e) ==
  d.tables = e.tables /\ d.refs = e.refs /\ d.columns = e.columns /\ d.rules = e.rules

SameSchemas(d, e) ==
  /\ e.schemas \subseteq d.schemas /\ d.schemas \subseteq e.schemas \union LeftBehind
  /\ e.types \subseteq d.types

LEMMA LikeParts ==
  ASSUME NEW d, NEW e
  PROVE  Like(d, e) <=> SameTables(d, e) /\ SameSchemas(d, e) /\ e.values \subseteq d.values
BY DEF Like, SameTables, SameSchemas

LEMMA DoneAlike ==
  ASSUME NEW d, NEW e, IsDatabase(d), IsDatabase(e), Like(d, e), NEW o, o.do \in AllOps
  PROVE  Like(Done(d, o), Done(e, o))
<1>0. /\ DOMAIN d = DOMAIN Nothing /\ DOMAIN e = DOMAIN Nothing
      /\ SameTables(d, e) /\ SameSchemas(d, e) /\ e.values \subseteq d.values
  BY LikeParts DEF IsDatabase
<1>1. ASSUME o.do \notin {"drop", "move"}
      PROVE  Done(e, o).values \subseteq Done(d, o).values
  <2>1. CASE o.do \notin {"copy column", "drop column"}
    <3>1. Done(d, o).values = d.values /\ Done(e, o).values = e.values
      BY <1>1, <2>1, DoneElsewhere
    <3> QED BY <1>0, <3>1
  <2>2. CASE o.do = "drop column"
    BY <1>0, <2>2, Fields DEF Done
  <2>3. CASE o.do = "copy column"
    <3>1. ASSUME NEW x, DOMAIN x = DOMAIN Nothing
          PROVE  Done(x, o).values = IF <<o.table, o.column>> \in x.values
                                       THEN x.values \union {<<o.table, o.to>>} ELSE x.values
      BY <2>3, <3>1, Fields DEF Done
    <3> QED BY <1>0, <3>1
  <2> QED BY <2>1, <2>2, <2>3
<1>2. CASE o.do = "drop"
  BY <1>2, WithoutAlike DEF Done
<1>3. CASE o.do = "move"
  BY <1>3, MovedAlike DEF Done
<1>4. CASE o.do \in {"create schema", "drop schema"}
  <2>1. SameTables(Done(d, o), Done(e, o))
    BY <1>0, <1>4, Fields DEF Done, SameTables
  <2>2. SameSchemas(Done(d, o), Done(e, o))
    BY <1>0, <1>4, Fields DEF Done, SameSchemas
  <2> QED BY <1>1, <1>4, <2>1, <2>2, LikeParts
<1>5. CASE o.do = "create"
  <2>1. SameTables(Done(d, o), Done(e, o))
    BY <1>0, <1>5, Fields DEF Done, SameTables
  <2>2. SameSchemas(Done(d, o), Done(e, o))
    BY <1>0, <1>5, Fields DEF Done, SameSchemas
  <2> QED BY <1>1, <1>5, <2>1, <2>2, LikeParts
<1>6. CASE o.do = "add column"
  <2>1. SameTables(Done(d, o), Done(e, o))
    BY <1>0, <1>6, Fields DEF Done, SameTables
  <2>2. SameSchemas(Done(d, o), Done(e, o))
    BY <1>0, <1>6, Fields DEF Done, SameSchemas
  <2> QED BY <1>1, <1>6, <2>1, <2>2, LikeParts
<1>7. CASE o.do = "drop column"
  <2>1. SameTables(Done(d, o), Done(e, o))
    BY <1>0, <1>7, Fields DEF Done, SameTables
  <2>2. SameSchemas(Done(d, o), Done(e, o))
    BY <1>0, <1>7, Fields DEF Done, SameSchemas
  <2> QED BY <1>1, <1>7, <2>1, <2>2, LikeParts
<1>8. CASE o.do = "copy column"
  <2>1. ASSUME NEW x, DOMAIN x = DOMAIN Nothing
        PROVE  \A f \in DOMAIN Nothing : f # "values" => Done(x, o)[f] = x[f]
    BY <1>8, <2>1 DEF Done
  <2>2. /\ \A f \in DOMAIN Nothing : f # "values" => Done(d, o)[f] = d[f]
        /\ \A f \in DOMAIN Nothing : f # "values" => Done(e, o)[f] = e[f]
    BY <1>0, <2>1
  <2>3. SameTables(Done(d, o), Done(e, o)) /\ SameSchemas(Done(d, o), Done(e, o))
    BY <1>0, <2>2, Fields DEF SameTables, SameSchemas
  <2> QED BY <1>1, <1>8, <2>3, LikeParts
<1>9. CASE o.do \in {"require", "relax", "fill"}
  <2>1. SameTables(Done(d, o), Done(e, o))
    BY <1>0, <1>9, Fields DEF Done, SameTables
  <2>2. SameSchemas(Done(d, o), Done(e, o))
    BY <1>0, <1>9, Fields DEF Done, SameSchemas
  <2> QED BY <1>1, <1>9, <2>1, <2>2, LikeParts
<1>10. CASE o.do \in {"refer", "unrefer", "create type"}
  <2>1. SameTables(Done(d, o), Done(e, o))
    BY <1>0, <1>10, Fields DEF Done, SameTables
  <2>2. SameSchemas(Done(d, o), Done(e, o))
    BY <1>0, <1>10, Fields DEF Done, SameSchemas
  <2> QED BY <1>1, <1>10, <2>1, <2>2, LikeParts
<1> QED BY <1>2, <1>3, <1>4, <1>5, <1>6, <1>7, <1>8, <1>9, <1>10 DEF AllOps, UpOps, DownOps

LEMMA LikeTransitive ==
  ASSUME NEW d, NEW e, NEW f, Like(d, e), Like(e, f)
  PROVE  Like(d, f)
BY DEF Like

-----------------------------------------------------------------------------
(* A whole revision on databases that are alike *)

\* How far two runs of the same operations got when k of them were tried.
Together(x, y, ops, k) ==
  /\ x[k].done \in 0..k /\ y[k].done \in 0..k
  /\ y[k].done = k =>
       IF x[k].done = k THEN IsDatabase(x[k].db) /\ IsDatabase(y[k].db) /\ Like(x[k].db, y[k].db)
                        ELSE ops[x[k].done + 1].do \in ByRows

\* One more operation.
LEMMA TogetherStep ==
  ASSUME NEW x, NEW y, NEW d, NEW e, NEW ops, NEW n \in Nat,
         IsRun(x, d, ops, n), IsRun(y, e, ops, n), \A i \in 1..n : ops[i].do \in AllOps,
         NEW k \in Nat, k + 1 \in 0..n, Together(x, y, ops, k)
  PROVE  Together(x, y, ops, k + 1)
<1>1. k + 1 # 0 /\ (k + 1) - 1 = k /\ k + 1 \in 1..n
  OBVIOUS
<1>2. x[k + 1] = Advance(x[k], ops, k + 1) /\ y[k + 1] = Advance(y[k], ops, k + 1)
  BY <1>1 DEF IsRun, RunStep
<1> DEFINE o == ops[k + 1]
<1>3. o.do \in AllOps
  BY <1>1
<1>4. \A z \in {x, y} :
        \/ z[k].done = k /\ Possible(z[k].db, o) /\ z[k + 1].done = k + 1
             /\ z[k + 1].db = Done(z[k].db, o)
        \/ ~(z[k].done = k /\ Possible(z[k].db, o)) /\ z[k + 1] = z[k]
  BY <1>1, <1>2 DEF Advance
<1>5. x[k].done \in 0..k /\ y[k].done \in 0..k
  BY DEF Together
<1>6. x[k + 1].done \in 0..(k + 1) /\ y[k + 1].done \in 0..(k + 1)
  BY <1>4, <1>5
<1> HIDE DEF o
<1>7. CASE y[k + 1].done # k + 1
  BY <1>6, <1>7 DEF Together
<1>8. CASE y[k + 1].done = k + 1
  <2>1. y[k].done = k /\ Possible(y[k].db, o) /\ y[k + 1].db = Done(y[k].db, o)
    BY <1>4, <1>5, <1>8
  <2>2. CASE x[k].done # k
    <3>1. x[k + 1] = x[k] /\ x[k].done # k + 1
      BY <1>4, <1>5, <2>2
    <3>2. ops[x[k].done + 1].do \in ByRows
      BY <2>1, <2>2 DEF Together
    <3> QED BY <1>6, <3>1, <3>2 DEF Together
  <2>3. CASE x[k].done = k
    <3>1. IsDatabase(x[k].db) /\ IsDatabase(y[k].db) /\ Like(x[k].db, y[k].db)
      BY <2>1, <2>3 DEF Together
    <3>2. CASE Possible(x[k].db, o)
      <4>1. x[k + 1].done = k + 1 /\ x[k + 1].db = Done(x[k].db, o)
        BY <1>4, <2>3, <3>2
      <4>2. IsDatabase(x[k + 1].db) /\ IsDatabase(y[k + 1].db)
        BY <1>3, <2>1, <3>1, <3>2, <4>1, DoneDatabase
      <4>3. Like(x[k + 1].db, y[k + 1].db)
        BY <1>3, <2>1, <3>1, <4>1, DoneAlike
      <4> QED BY <1>6, <4>1, <4>2, <4>3 DEF Together
    <3>3. CASE ~Possible(x[k].db, o)
      <4>1. x[k + 1].done = k /\ k # k + 1
        BY <1>4, <2>3, <3>3
      <4>2. o.do \in ByRows
        BY <1>3, <2>1, <3>1, <3>3, PossibleAlike
      <4> QED BY <1>6, <4>1, <4>2 DEF Together, o
    <3> QED BY <3>2, <3>3
  <2> QED BY <2>2, <2>3
<1> QED BY <1>7, <1>8

LEMMA RunsTogether ==
  ASSUME NEW d, NEW e, IsDatabase(d), IsDatabase(e), Like(d, e), NEW ops, NEW n \in Nat,
         NEW x, NEW y, IsRun(x, d, ops, n), IsRun(y, e, ops, n),
         \A i \in 1..n : ops[i].do \in AllOps
  PROVE  Together(x, y, ops, n)
<1> DEFINE S == {k \in Nat : k <= n => Together(x, y, ops, k)}
<1>1. 0 \in S
  <2>1. x[0] = [db |-> d, done |-> 0] /\ y[0] = [db |-> e, done |-> 0]
    <3>1. 0 \in 0..n
      OBVIOUS
    <3>2. RunStep(x, d, ops, 0) /\ RunStep(y, e, ops, 0)
      BY <3>1 DEF IsRun
    <3> QED BY <3>2 DEF RunStep
  <2>2. Together(x, y, ops, 0)
    BY <2>1 DEF Together
  <2> QED BY <2>2
<1>2. ASSUME NEW k \in Nat, k \in S
      PROVE  k + 1 \in S
  <2> SUFFICES ASSUME k + 1 <= n PROVE Together(x, y, ops, k + 1)
    OBVIOUS
  <2>1. k + 1 \in 0..n /\ Together(x, y, ops, k)
    BY <1>2
  <2> QED BY <2>1, TogetherStep
<1> HIDE DEF S
<1>3. n \in S
  BY <1>1, <1>2, NaturalInduction
<1> QED BY <1>3 DEF S

\* What goes through on a database does on one that is alike, and leads to one that is
\* alike, unless a row or a type is in the way.
LEMMA RunOpsAlike ==
  ASSUME NEW d, NEW e, IsDatabase(d), IsDatabase(e), Like(d, e), NEW ops, Len(ops) \in Nat,
         \A i \in 1..Len(ops) : ops[i].do \in AllOps, RunOps(e, ops).done = Len(ops)
  PROVE  /\ RunOps(d, ops).done \in 0..Len(ops)
         /\ IF RunOps(d, ops).done = Len(ops)
              THEN IsDatabase(RunOps(d, ops).db) /\ Like(RunOps(d, ops).db, RunOps(e, ops).db)
              ELSE ops[RunOps(d, ops).done + 1].do \in ByRows
<1>1. PICK x : IsRun(x, d, ops, Len(ops)) /\ RunOps(d, ops) = x[Len(ops)]
  BY RunOpsRuns
<1>2. PICK y : IsRun(y, e, ops, Len(ops)) /\ RunOps(e, ops) = y[Len(ops)]
  BY RunOpsRuns
<1>3. Together(x, y, ops, Len(ops))
  BY <1>1, <1>2, RunsTogether
<1> QED BY <1>1, <1>2, <1>3 DEF Together

\* A revision on a database like that of the revision it starts from.
LEMMA RevisionLeads ==
  ASSUME NEW from, NEW ops, NEW to, NEW Kinds, Leads(from, ops, to, Kinds), Kinds \subseteq AllOps,
         NEW d, IsDatabase(d), IsDatabase(SchemaAt(from)), Like(d, SchemaAt(from))
  PROVE  /\ RunOps(d, ops).done \in 0..Len(ops)
         /\ IF RunOps(d, ops).done = Len(ops)
              THEN IsDatabase(RunOps(d, ops).db) /\ Like(RunOps(d, ops).db, SchemaAt(to))
              ELSE ops[RunOps(d, ops).done + 1].do \in Kinds \intersect ByRows
<1> DEFINE e == SchemaAt(from)
<1>1. /\ Len(ops) \in Nat /\ \A i \in 1..Len(ops) : ops[i].do \in Kinds
      /\ RunOps(e, ops).done = Len(ops) /\ Like(RunOps(e, ops).db, SchemaAt(to))
  BY DEF Leads
<1> HIDE DEF e
<1>2. /\ RunOps(d, ops).done \in 0..Len(ops)
      /\ IF RunOps(d, ops).done = Len(ops)
           THEN IsDatabase(RunOps(d, ops).db) /\ Like(RunOps(d, ops).db, RunOps(e, ops).db)
           ELSE ops[RunOps(d, ops).done + 1].do \in ByRows
  <2>1. \A i \in 1..Len(ops) : ops[i].do \in AllOps
    BY <1>1
  <2>2. IsDatabase(e) /\ Like(d, e)
    BY DEF e
  <2> QED BY <1>1, <2>1, <2>2, RunOpsAlike
<1>3. CASE RunOps(d, ops).done = Len(ops)
  BY <1>1, <1>2, <1>3, LikeTransitive
<1>4. CASE RunOps(d, ops).done # Len(ops)
  <2>1. RunOps(d, ops).done + 1 \in 1..Len(ops)
    BY <1>1, <1>2, <1>4
  <2> QED BY <1>1, <1>2, <1>4, <2>1
<1> QED BY <1>3, <1>4

-----------------------------------------------------------------------------
(* What becomes of the rows *)

\* An operation that spares a row leaves it.
LEMMA OddStays ==
  ASSUME NEW d, IsDatabase(d), NEW o, o.do \in AllOps, NEW w \in d.odd,
         o.do = "drop" => w[1] \notin ToSet(o.tables),
         o.do = "move" => w[1] \notin o.tables,
         o.do = "fill" => w # o.rule
  PROVE  w \in Done(d, o).odd
<1>1. CASE o.do = "drop"
  <2>1. Done(d, o) = Without(d, ToSet(o.tables))
    BY <1>1 DEF Done
  <2>2. w \in KeptIn(ToSet(o.tables), d.odd)
    BY <1>1 DEF KeptIn
  <2> QED BY <2>1, <2>2, WithoutFields
<1>2. CASE o.do = "move"
  <2>1. Done(d, o) = Moved(d, o.tables, o.schema)
    BY <1>2 DEF Done
  <2>2. w = <<w[1], w[2]>> /\ NewName(o.tables, o.schema, w[1]) = w[1]
    BY <1>2 DEF IsDatabase, NewName
  <2>3. w \in NewFirst(o.tables, o.schema, d.odd)
    BY <2>2 DEF NewFirst
  <2> QED BY <2>1, <2>3, MovedFields
<1>3. CASE o.do \notin {"drop", "move"}
  BY <1>3, DoneElsewhere
<1> QED BY <1>1, <1>2, <1>3

LEMMA OddRuns ==
  ASSUME NEW d, IsDatabase(d), NEW ops, Len(ops) \in Nat,
         \A i \in 1..Len(ops) : ops[i].do \in AllOps,
         NEW T, Spares(ops, T), NEW w \in d.odd, w[1] \in T, w \notin Completed
  PROVE  w \in RunOps(d, ops).db.odd
<1>1. PICK x : IsRun(x, d, ops, Len(ops)) /\ RunOps(d, ops) = x[Len(ops)]
  BY RunOpsRuns
<1> DEFINE S == {k \in Nat : k <= Len(ops) => IsDatabase(x[k].db) /\ w \in x[k].db.odd}
<1>2. 0 \in S
  <2>1. 0 \in 0..Len(ops)
    OBVIOUS
  <2>2. x[0] = [db |-> d, done |-> 0]
    BY <1>1, <2>1 DEF IsRun, RunStep
  <2> QED BY <2>2
<1>3. ASSUME NEW k \in Nat, k \in S
      PROVE  k + 1 \in S
  <2> SUFFICES ASSUME k + 1 <= Len(ops)
               PROVE  IsDatabase(x[k + 1].db) /\ w \in x[k + 1].db.odd
    OBVIOUS
  <2>1. IsDatabase(x[k].db) /\ w \in x[k].db.odd
    BY <1>3
  <2>2. k + 1 \in 0..Len(ops) /\ k + 1 \in 1..Len(ops) /\ k + 1 # 0 /\ (k + 1) - 1 = k
    OBVIOUS
  <2>3. x[k + 1] = Advance(x[k], ops, k + 1)
    BY <1>1, <2>2 DEF IsRun, RunStep
  <2> DEFINE o == ops[k + 1]
  <2>4. CASE x[k].done = k /\ Possible(x[k].db, o)
    <3>1. x[k + 1].db = Done(x[k].db, o)
      BY <2>2, <2>3, <2>4 DEF Advance
    <3>2. o.do \in AllOps
      BY <2>2
    <3>3. /\ o.do = "drop" => w[1] \notin ToSet(o.tables)
          /\ o.do = "move" => w[1] \notin o.tables
          /\ o.do = "fill" => w # o.rule
      BY <2>2 DEF Spares
    <3> HIDE DEF o
    <3> QED BY <2>1, <2>4, <3>1, <3>2, <3>3, DoneDatabase, OddStays
  <2>5. CASE ~(x[k].done = k /\ Possible(x[k].db, o))
    <3>1. x[k + 1] = x[k]
      BY <2>2, <2>3, <2>5 DEF Advance
    <3> QED BY <2>1, <3>1
  <2> QED BY <2>4, <2>5
<1> HIDE DEF S
<1>4. Len(ops) \in S
  BY <1>2, <1>3, NaturalInduction
<1> QED BY <1>1, <1>4 DEF S

\* What a revision does with one value it does with that value among others.
LEMMA ValueRuns ==
  ASSUME NEW from, NEW ops, NEW to, NEW Kinds, Leads(from, ops, to, Kinds), Kinds \subseteq AllOps,
         NEW X, Carries(from, ops, X), IsDatabase(SchemaAt(from)),
         NEW d, IsDatabase(d), Like(d, SchemaAt(from)), RunOps(d, ops).done = Len(ops),
         NEW x \in X, x \in d.values, x \in SchemaAt(from).columns
  PROVE  Says(x) \in Said(RunOps(d, ops).db)
<1> DEFINE s == SchemaAt(from)
           e == [s EXCEPT !.values = {x}]
<1>1. /\ Len(ops) \in Nat /\ \A i \in 1..Len(ops) : ops[i].do \in AllOps
  BY DEF Leads
<1>2. RunOps(e, ops).done = Len(ops) /\ Says(x) \in Said(RunOps(e, ops).db)
  BY DEF Carries
<1>3. /\ IsDatabase(s) /\ x \in s.columns /\ Like(d, s)
      /\ DOMAIN s = {"schemas", "tables", "refs", "columns", "rules", "types", "odd", "orphans", "values"}
  BY DatabaseFields
<1> HIDE DEF s
<1>4. /\ e = [f \in DOMAIN s |-> e[f]] /\ e.values = {x}
      /\ \A f \in DOMAIN s : f # "values" => e[f] = s[f]
  BY <1>3
<1> HIDE DEF e
<1>5. IsDatabase(e)
  <2>1. \A y \in s.odd : y = <<y[1], y[2]>>
    BY <1>3 DEF IsDatabase
  <2>2. e.columns = s.columns /\ e.odd = s.odd
    BY <1>3, <1>4
  <2> QED BY <1>3, <1>4, <2>1, <2>2, StaysDatabase
<1>6. Like(d, e)
  BY <1>3, <1>4 DEF Like
<1>7. Like(RunOps(d, ops).db, RunOps(e, ops).db)
  BY <1>1, <1>2, <1>5, <1>6, RunOpsAlike
<1> QED BY <1>2, <1>7 DEF Like, Said

\* What is left of the rows after a revision.
LEMMA RowsRun ==
  ASSUME NEW from, NEW ops, NEW to, NEW Kinds, Leads(from, ops, to, Kinds), Kinds \subseteq AllOps,
         NEW X, Carries(from, ops, X), NEW T, Spares(ops, T), IsDatabase(SchemaAt(from)),
         NEW d, IsDatabase(d), Like(d, SchemaAt(from)), RunOps(d, ops).done = Len(ops)
  PROVE  /\ \A x \in d.values \intersect X : Says(x) \in Said(RunOps(d, ops).db)
         /\ \A w \in d.odd : w[1] \in T => w \in RunOps(d, ops).db.odd \/ w \in Completed
<1>1. /\ Len(ops) \in Nat /\ \A i \in 1..Len(ops) : ops[i].do \in AllOps
  BY DEF Leads
<1>2. d.values \subseteq SchemaAt(from).columns
  BY DEF IsDatabase, Like
<1>3. ASSUME NEW x \in d.values \intersect X
      PROVE  Says(x) \in Said(RunOps(d, ops).db)
  BY <1>2, ValueRuns
<1>4. ASSUME NEW w \in d.odd, w[1] \in T, w \notin Completed
      PROVE  w \in RunOps(d, ops).db.odd
  BY <1>1, <1>4, OddRuns
<1> QED BY <1>3, <1>4

-----------------------------------------------------------------------------
(* Recursion over the revisions of an upgrade *)

LEMMA Revisions == HeadRevision = 25
BY DEF HeadRevision, History

\* What Upgrade says of its function.
ClimbStep(climb, d, from, r) ==
  climb[r] = IF r = from THEN [db |-> d, rev |-> from]
             ELSE Climb(climb[r - 1], RunOps(climb[r - 1].db, History[r].up), r)

IsClimb(climb, d, from, to) ==
  /\ climb = [r \in from..to |-> climb[r]]
  /\ \A r \in from..to : ClimbStep(climb, d, from, r)

\* There is such a function, for any number of revisions.
LEMMA ClimbExists ==
  ASSUME NEW d, NEW from \in Nat, NEW n \in Nat
  PROVE  \E climb : IsClimb(climb, d, from, from + n)
<1> DEFINE S == {m \in Nat : \E climb : IsClimb(climb, d, from, from + m)}
<1>1. 0 \in S
  <2> DEFINE climb == [r \in from..(from + 0) |-> [db |-> d, rev |-> from]]
  <2>1. \A r \in from..(from + 0) : r = from
    OBVIOUS
  <2>2. climb = [r \in from..(from + 0) |-> climb[r]]
    OBVIOUS
  <2>3. \A r \in from..(from + 0) : climb[r] = [db |-> d, rev |-> from]
    OBVIOUS
  <2> HIDE DEF climb
  <2>4. IsClimb(climb, d, from, from + 0)
    BY <2>1, <2>2, <2>3 DEF IsClimb, ClimbStep
  <2> QED BY <2>4
<1>2. ASSUME NEW m \in Nat, m \in S
      PROVE  m + 1 \in S
  <2>1. PICK climb : IsClimb(climb, d, from, from + m)
    BY <1>2
  <2> DEFINE to   == from + m
             last == Climb(climb[to], RunOps(climb[to].db, History[to + 1].up), to + 1)
             more == [r \in from..(to + 1) |-> IF r = to + 1 THEN last ELSE climb[r]]
  <2>2. to \in Nat /\ to \in from..to /\ to + 1 # from /\ (to + 1) - 1 = to /\ from + (m + 1) = to + 1
    OBVIOUS
  <2> HIDE DEF last, to
  <2>3. /\ \A r \in from..to : more[r] = climb[r]
        /\ more[to + 1] = last
        /\ more = [r \in from..(to + 1) |-> more[r]]
    BY <2>2
  <2> HIDE DEF more
  <2>4. ASSUME NEW r \in from..(to + 1)
        PROVE  ClimbStep(more, d, from, r)
    <3>1. CASE r \in from..to
      <4>1. ClimbStep(climb, d, from, r) /\ (r = from \/ r - 1 \in from..to)
        BY <2>1, <2>2, <3>1 DEF IsClimb, to
      <4> QED BY <2>3, <3>1, <4>1 DEF ClimbStep
    <3>2. CASE r = to + 1
      BY <2>2, <2>3, <3>2 DEF ClimbStep, last
    <3> QED BY <2>2, <3>1, <3>2
  <2>5. IsClimb(more, d, from, to + 1)
    BY <2>3, <2>4 DEF IsClimb
  <2> QED BY <2>2, <2>5
<1> HIDE DEF S
<1>3. n \in S
  BY <1>1, <1>2, NaturalInduction
<1> QED BY <1>3 DEF S

\* Upgrade is where such a function leads.
LEMMA UpgradeClimbs ==
  ASSUME NEW d, NEW from \in Nat, NEW to \in Nat, from <= to
  PROVE  \E climb : IsClimb(climb, d, from, to) /\ Upgrade(d, from, to) = climb[to]
<1> DEFINE Body(climb) == [r \in from..to |->
             IF r = from THEN [db |-> d, rev |-> from]
               ELSE Once({Climb(x, RunOps(x.db, History[r].up), r) : x \in {climb[r - 1]}})]
           The == CHOOSE climb : climb = Body(climb)
<1>1. ASSUME NEW climb
      PROVE  (climb = Body(climb)) <=> IsClimb(climb, d, from, to)
  <2>1. ASSUME NEW y, NEW r
        PROVE  Once({Climb(x, RunOps(x.db, History[r].up), r) : x \in {y}})
                 = Climb(y, RunOps(y.db, History[r].up), r)
    <3>1. {Climb(x, RunOps(x.db, History[r].up), r) : x \in {y}}
            = {Climb(y, RunOps(y.db, History[r].up), r)}
      OBVIOUS
    <3> QED BY <3>1, OnceSingle
  <2>2. \A r \in from..to :
          Body(climb)[r] = IF r = from THEN [db |-> d, rev |-> from]
                           ELSE Climb(climb[r - 1], RunOps(climb[r - 1].db, History[r].up), r)
    BY <2>1
  <2>3. Body(climb) = [r \in from..to |-> Body(climb)[r]]
    OBVIOUS
  <2> HIDE DEF Body
  <2> QED BY <2>2, <2>3 DEF IsClimb, ClimbStep
<1>2. \E climb : climb = Body(climb)
  <2>1. to - from \in Nat /\ from + (to - from) = to
    OBVIOUS
  <2>2. \E climb : IsClimb(climb, d, from, to)
    BY <2>1, ClimbExists
  <2> QED BY <1>1, <2>2
<1>3. The = Body(The)
  BY <1>2
<1>4. Upgrade(d, from, to) = The[to]
  BY DEF Upgrade
<1> QED BY <1>1, <1>3, <1>4

\* What an upgrade leaves of the rows of a database d when it gets to revision r.
RowsLeft(d, e, r) ==
  /\ Said(d) \subseteq Said(e)
  /\ \A w \in d.odd : w[1] \in TablesFrom(r) => w \in e.odd \/ w \in Completed

\* How far an upgrade got, and where it left the database.
Reached(d, x, from, r) ==
  /\ x.rev \in from..r
  /\ IsDatabase(x.db) /\ Like(x.db, SchemaAt(x.rev))
  /\ RowsLeft(d, x.db, x.rev)

LEMMA RowsLeftStep ==
  ASSUME NEW r \in Nat, UpFits(r + 1, History[r + 1].up), IsDatabase(SchemaAt(r)),
         NEW d, NEW e, IsDatabase(e), Like(e, SchemaAt(r)), RowsLeft(d, e, r),
         RunOps(e, History[r + 1].up).done = Len(History[r + 1].up)
  PROVE  RowsLeft(d, RunOps(e, History[r + 1].up).db, r + 1)
<1> DEFINE ops == History[r + 1].up
           o   == RunOps(e, ops)
<1>1. (r + 1) - 1 = r
  OBVIOUS
<1>2. /\ Leads(r, ops, r + 1, UpOps) /\ UpOps \subseteq AllOps
      /\ Carries(r, ops, RenamedAt(r)) /\ Spares(ops, TablesFrom(r + 1))
  BY <1>1 DEF UpFits, AllOps
<1> HIDE DEF ops
<1>3. o.done = Len(ops)
  BY DEF ops
<1>4. /\ \A x \in e.values \intersect RenamedAt(r) : Says(x) \in Said(o.db)
      /\ \A w \in e.odd : w[1] \in TablesFrom(r + 1) => w \in o.db.odd \/ w \in Completed
  BY <1>2, <1>3, RowsRun
<1>5. \A x \in e.values : x[2] \in Renamed => x \in RenamedAt(r)
  BY DEF IsDatabase, Like, RenamedAt
<1> HIDE DEF o
<1>6. Said(e) \subseteq Said(o.db)
  <2> SUFFICES ASSUME NEW s \in Said(e) PROVE s \in Said(o.db)
    OBVIOUS
  <2>1. PICK x \in e.values : x[2] \in Renamed /\ s = Says(x)
    BY DEF Said
  <2> QED BY <1>4, <1>5, <2>1
<1>7. TablesFrom(r + 1) \subseteq TablesFrom(r)
  <2>1. \A q \in (r + 1)..HeadRevision : q \in r..HeadRevision
    BY Revisions
  <2> QED BY <2>1 DEF TablesFrom
<1>8. RowsLeft(d, o.db, r + 1)
  BY <1>4, <1>6, <1>7 DEF RowsLeft
<1> QED BY <1>8 DEF o, ops

\* One more revision.
LEMMA ReachedStep ==
  ASSUME RevisionsFit, NEW from \in Nat, NEW r \in Nat, r + 1 <= HeadRevision,
         NEW d, NEW x, Reached(d, x, from, r)
  PROVE  Reached(d, Climb(x, RunOps(x.db, History[r + 1].up), r + 1), from, r + 1)
<1> DEFINE o == RunOps(x.db, History[r + 1].up)
           y == Climb(x, o, r + 1)
<1>1. /\ x.rev \in from..r /\ IsDatabase(x.db) /\ Like(x.db, SchemaAt(x.rev))
      /\ RowsLeft(d, x.db, x.rev)
  BY DEF Reached
<1>2. (r + 1) - 1 = r /\ r + 1 # r
  OBVIOUS
<1>3. CASE x.rev = r /\ o.done = Len(History[r + 1].up)
  <2>1. y.rev = r + 1 /\ y.db = o.db
    BY <1>2, <1>3 DEF Climb
  <2>2. r + 1 \in 1..HeadRevision /\ r \in 0..HeadRevision
    BY Revisions
  <2>3. /\ UpFits(r + 1, History[r + 1].up) /\ IsDatabase(SchemaAt(r))
        /\ Leads(r, History[r + 1].up, r + 1, UpOps)
    BY <1>2, <2>2 DEF RevisionsFit, UpFits
  <2>4. IsDatabase(o.db) /\ Like(o.db, SchemaAt(r + 1))
    BY <1>1, <1>3, <2>3, RevisionLeads DEF AllOps
  <2>5. r + 1 \in from..(r + 1)
    BY <1>1, <1>3
  <2>6. RowsLeft(d, o.db, r + 1)
    BY <1>1, <1>3, <2>3, RowsLeftStep
  <2> HIDE DEF o, y
  <2>7. Reached(d, y, from, r + 1)
    BY <2>1, <2>4, <2>5, <2>6 DEF Reached
  <2> QED BY <2>7 DEF o, y
<1>4. CASE ~(x.rev = r /\ o.done = Len(History[r + 1].up))
  <2>1. y = x
    BY <1>2, <1>4 DEF Climb
  <2> HIDE DEF o, y
  <2>2. x.rev \in from..(r + 1)
    BY <1>1
  <2> QED BY <1>1, <2>1, <2>2 DEF Reached, o, y
<1> QED BY <1>3, <1>4

\* An upgrade leaves the schema of the revision it got to.
LEMMA UpgradeReaches ==
  ASSUME RevisionsFit, NEW from \in Nat, NEW to \in 0..HeadRevision, from <= to,
         NEW d, IsDatabase(d), Like(d, SchemaAt(from))
  PROVE  Reached(d, Upgrade(d, from, to), from, to)
<1>1. HeadRevision \in Nat /\ to \in Nat /\ to <= HeadRevision
  BY Revisions
<1>2. PICK climb : IsClimb(climb, d, from, to) /\ Upgrade(d, from, to) = climb[to]
  BY <1>1, UpgradeClimbs
<1> DEFINE S == {n \in Nat : from + n <= to => Reached(d, climb[from + n], from, from + n)}
<1>3. 0 \in S
  <2>1. from + 0 = from /\ from \in from..to
    BY <1>1
  <2>2. climb[from] = [db |-> d, rev |-> from]
    BY <1>2, <2>1 DEF IsClimb, ClimbStep
  <2>3. Reached(d, climb[from], from, from)
    BY <2>2 DEF Reached, RowsLeft
  <2> QED BY <2>1, <2>3
<1>4. ASSUME NEW n \in Nat, n \in S
      PROVE  n + 1 \in S
  <2> SUFFICES ASSUME from + (n + 1) <= to
               PROVE  Reached(d, climb[from + (n + 1)], from, from + (n + 1))
    OBVIOUS
  <2> DEFINE r == from + n
  <2>1. /\ r \in Nat /\ from + (n + 1) = r + 1 /\ r <= to /\ r + 1 \in from..to
        /\ r + 1 # from /\ (r + 1) - 1 = r /\ r + 1 <= HeadRevision
    BY <1>1
  <2>2. Reached(d, climb[r], from, r)
    BY <1>4, <2>1
  <2> HIDE DEF r
  <2>3. climb[r + 1] = Climb(climb[r], RunOps(climb[r].db, History[r + 1].up), r + 1)
    BY <1>2, <2>1 DEF IsClimb, ClimbStep
  <2> QED BY <2>1, <2>2, <2>3, ReachedStep
<1> HIDE DEF S
<1>5. to - from \in S
  <2>1. to - from \in Nat
    BY <1>1
  <2> QED BY <1>3, <1>4, <2>1, NaturalInduction
<1>6. from + (to - from) = to
  BY <1>1
<1> QED BY <1>1, <1>2, <1>5, <1>6 DEF S

-----------------------------------------------------------------------------
(* Types *)

LEMMA HeadTypes == \A v \in Versions : HeadOf[v] \in 1..HeadRevision
BY DeploymentAssumption

LEMMA InitTypes == Init => TypeOK
<1> SUFFICES ASSUME Init PROVE TypeOK
  OBVIOUS
<1>1. 1 \in Versions
  BY DeploymentAssumption DEF Versions
<1>2. Idle \in [at : Steps, old : Versions, new : Versions, back : BOOLEAN, alone : BOOLEAN,
                verdict : Verdicts]
  BY <1>1 DEF Idle, Steps, Verdicts
<1>3. HeadOf[1] \in 0..HeadRevision /\ Newest \in Nat
  BY <1>1, HeadTypes, Revisions, DeploymentAssumption
<1> QED BY <1>1, <1>2, <1>3 DEF Init, TypeOK

\* The hook of a push is what it was but for the step, the verdict and the way it goes.
HookType == [at : Steps, old : Versions, new : Versions, back : BOOLEAN, alone : BOOLEAN,
             verdict : Verdicts]

LEMMA HookStepTypes ==
  ASSUME TypeOK, NEW p \in Pushes, HookStep(p)
  PROVE  TypeOK'
<1>1. /\ hook \in [Pushes -> HookType] /\ hook[p] \in HookType
      /\ hook[p].old \in Versions /\ hook[p].new \in Versions
  BY DEF TypeOK, HookType
<1>2. ASSUME NEW step \in Steps
      PROVE  Go(p, step) => hook' \in [Pushes -> HookType]
  BY <1>1, <1>2 DEF Go, HookType
<1>3. ASSUME NEW verdict \in Verdicts
      PROVE  End(p, verdict) => hook' \in [Pushes -> HookType]
  <2>1. [hook[p] EXCEPT !.at = "ended", !.verdict = verdict] \in HookType
    BY <1>1, <1>3 DEF HookType, Steps
  <2> QED BY <1>1, <2>1 DEF End
<1>5. /\ main \in Versions /\ tree \in Versions /\ image \in Versions /\ api \in Versions
      /\ worker \in Versions /\ migrate \in 0..Newest /\ rev \in 0..HeadRevision
      /\ \A v \in Versions : v \in 0..Newest
  BY DeploymentAssumption DEF TypeOK, Versions
<1>6. CASE Checkout(p)
  <2>1. hook' \in [Pushes -> HookType]
    <3>1. [hook EXCEPT ![p].back = TRUE] \in [Pushes -> HookType]
      BY <1>1 DEF HookType
    <3>2. "build" \in Steps
      BY DEF Steps
    <3> QED BY <1>2, <1>6, <3>1, <3>2 DEF Checkout
  <2>2. tree' \in Versions /\ UNCHANGED <<main, image, api, worker, migrate, rev>>
    BY <1>1, <1>6 DEF Checkout
  <2> QED BY <1>5, <2>1, <2>2 DEF TypeOK, HookType
<1>7. CASE Build(p)
  <2>1. hook' \in [Pushes -> HookType]
    BY <1>2, <1>7 DEF Build, Steps
  <2> QED BY <1>5, <1>7, <2>1 DEF Build, TypeOK, HookType
<1>8. CASE Stops(p)
  <2>1. hook' \in [Pushes -> HookType]
    BY <1>3, <1>8 DEF Stops, Verdicts
  <2> QED BY <1>5, <1>8, <2>1 DEF Stops, TypeOK, HookType
<1>9. CASE Up(p)
  <2>1. hook' \in [Pushes -> HookType]
    BY <1>2, <1>9 DEF Up, Steps
  <2> QED BY <1>5, <1>9, <2>1 DEF Up, TypeOK, HookType
<1>10. CASE UpFails(p)
  <2>1. hook' \in [Pushes -> HookType]
    BY <1>3, <1>10 DEF UpFails, Verdicts
  <2>2. /\ api' \in Versions /\ worker' \in Versions /\ migrate' \in 0..Newest
        /\ UNCHANGED <<main, tree, image, rev>>
    BY <1>5, <1>10 DEF UpFails
  <2> QED BY <1>5, <2>1, <2>2 DEF TypeOK, HookType
<1>11. CASE Healthy(p)
  <2>1. hook' \in [Pushes -> HookType]
    BY <1>3, <1>11 DEF Healthy, Verdicts
  <2> QED BY <1>5, <1>11, <2>1 DEF Healthy, TypeOK, HookType
<1>12. CASE Unhealthy(p)
  <2>1. hook' \in [Pushes -> HookType]
    <3>1. CASE hook[p].back
      BY <1>3, <1>12, <3>1 DEF Unhealthy, Verdicts
    <3>2. CASE ~hook[p].back
      BY <1>1, <1>12, <3>2 DEF Unhealthy, HookType, Steps
    <3> QED BY <3>1, <3>2
  <2> QED BY <1>5, <1>12, <2>1 DEF Unhealthy, TypeOK, HookType
<1> QED BY <1>6, <1>7, <1>8, <1>9, <1>10, <1>11, <1>12 DEF HookStep

LEMMA ReceiveTypes ==
  ASSUME TypeOK, NEW p \in Pushes, NEW v \in Versions, Receive(p, v)
  PROVE  TypeOK'
<1>1. main \in Versions /\ hook \in [Pushes -> HookType]
  BY DEF TypeOK, HookType
<1>2. [Idle EXCEPT !.at = "checkout", !.old = main, !.new = v,
                   !.alone = {q \in Pushes : Active(q)} = {}] \in HookType
  BY <1>1 DEF Idle, HookType, Steps, Verdicts
<1>3. \A q \in Pushes : [hook[q] EXCEPT !.alone = FALSE] \in HookType
  BY <1>1 DEF HookType
<1>4. hook' \in [Pushes -> HookType]
  BY <1>1, <1>2, <1>3 DEF Receive
<1>5. main' \in Versions /\ UNCHANGED <<tree, image, api, worker, migrate, rev>>
  BY DEF Receive
<1> QED BY <1>4, <1>5 DEF TypeOK, HookType

LEMMA NextTypes == TypeOK /\ [Next]_vars => TypeOK'
<1> SUFFICES ASSUME TypeOK, [Next]_vars PROVE TypeOK'
  OBVIOUS
<1>1. ASSUME NEW p \in Pushes, HookStep(p) \/ \E v \in Versions : Receive(p, v)
      PROVE  TypeOK'
  BY <1>1, HookStepTypes, ReceiveTypes
<1>2. CASE Migrate
  <2>1. migrate \in Versions
    BY <1>2, DeploymentAssumption DEF TypeOK, Migrate, Versions
  <2>2. HeadOf[migrate] \in 0..HeadRevision /\ 0 \in 0..Newest
    BY <2>1, HeadTypes, Revisions, DeploymentAssumption
  <2> QED BY <1>2, <2>2 DEF TypeOK, Migrate, code
<1>3. CASE MigrationFails
  <2>1. 0 \in 0..Newest
    BY DeploymentAssumption
  <2> QED BY <1>3, <2>1 DEF TypeOK, MigrationFails
<1>4. CASE UpByHand \/ DownByHand
  <2>1. tree \in Versions /\ rev \in 0..HeadRevision
    BY DEF TypeOK
  <2>2. HeadOf[tree] \in 1..HeadRevision
    BY <2>1, HeadTypes
  <2>3. CASE UpByHand
    <3>1. rev' = rev + 1 /\ rev < HeadOf[tree] /\ UNCHANGED <<code, migrate>>
      BY <2>3 DEF UpByHand, ByHand
    <3>2. rev + 1 \in 0..HeadRevision
      BY <2>1, <2>2, <3>1, Revisions
    <3> QED BY <3>1, <3>2 DEF TypeOK, code
  <2>4. CASE DownByHand
    <3>1. rev' = rev - 1 /\ rev > 0 /\ UNCHANGED <<code, migrate>>
      BY <2>4 DEF DownByHand, ByHand
    <3>2. rev - 1 \in 0..HeadRevision
      BY <2>1, <3>1, Revisions
    <3> QED BY <3>1, <3>2 DEF TypeOK, code
  <2> QED BY <1>4, <2>3, <2>4
<1>5. CASE Write
  BY <1>5 DEF Write, WriteOdd, WriteStray, WriteName, TypeOK, code
<1>6. CASE UNCHANGED vars
  BY <1>6 DEF vars, TypeOK
<1> QED BY <1>1, <1>2, <1>3, <1>4, <1>5, <1>6 DEF Next

\* Whatever is pushed, fails and is migrated, the state has its types.
THEOREM TypeCorrect == Spec => []TypeOK
BY InitTypes, NextTypes, PTL DEF Spec

-----------------------------------------------------------------------------
(* The schema of the revision *)

LEMMA InitSchema == RevisionsFit /\ Init => SchemaIsRevision
<1> SUFFICES ASSUME RevisionsFit, Init PROVE SchemaIsRevision
  OBVIOUS
<1>1. HeadOf[1] \in 0..HeadRevision
  <2>1. 1 \in Versions
    BY DeploymentAssumption DEF Versions
  <2> QED BY <2>1, HeadTypes, Revisions
<1>2. IsDatabase(SchemaAt(HeadOf[1]))
  BY <1>1 DEF RevisionsFit
<1> QED BY <1>2 DEF Init, SchemaIsRevision, Like

\* The upgrade that the containers run.
LEMMA MigrateSchema ==
  ASSUME RevisionsFit, TypeOK, SchemaIsRevision, Migrate
  PROVE  SchemaIsRevision' /\ RowsLeft(db, db', rev')
<1> DEFINE to == HeadOf[migrate]
           o  == Upgrade(db, rev, to)
<1>1. migrate \in Versions /\ rev <= to /\ o.rev = to /\ db' = o.db /\ rev' = to
  BY DeploymentAssumption DEF TypeOK, Migrate, Versions, Known, Outcome
<1>2. to \in 0..HeadRevision /\ rev \in Nat
  BY <1>1, HeadTypes, Revisions DEF TypeOK
<1>3. IsDatabase(db) /\ Like(db, SchemaAt(rev))
  BY DEF SchemaIsRevision
<1> HIDE DEF to
<1>4. Reached(db, o, rev, to)
  BY <1>1, <1>2, <1>3, UpgradeReaches
<1> QED BY <1>1, <1>4 DEF Reached, SchemaIsRevision

\* The upgrade and the downgrade by hand.
LEMMA Refused ==
  ASSUME NEW d, NEW ops, ops = <<Refuse>>
  PROVE  Len(ops) = 1 /\ ops[1].do = "refuse" /\ RunOps(d, ops).done = 0
<1>1. Len(ops) = 1 /\ ops[1].do = "refuse" /\ Len(ops) \in Nat
  BY DEF Refuse
<1>2. PICK run : IsRun(run, d, ops, 1) /\ RunOps(d, ops) = run[1]
  <2>1. \E run : IsRun(run, d, ops, Len(ops)) /\ RunOps(d, ops) = run[Len(ops)]
    BY ONLY <1>1, RunOpsRuns
  <2> QED BY <1>1, <2>1
<1>3. RunStep(run, d, ops, 0) /\ RunStep(run, d, ops, 1)
  BY <1>2 DEF IsRun
<1>4. run[0] = [db |-> d, done |-> 0] /\ run[1] = Advance(run[0], ops, 1)
  BY <1>3 DEF RunStep
<1>5. ~Possible(d, ops[1])
  BY <1>1 DEF Possible
<1>6. run[1].done = 0
  BY <1>4, <1>5 DEF Advance
<1> QED BY <1>1, <1>2, <1>6

LEMMA DownOne ==
  ASSUME RevisionsFit, NEW r \in 1..HeadRevision, NEW d, IsDatabase(d), Like(d, SchemaAt(r))
  PROVE  LET ops == History[r].down
             o   == RunOps(d, ops)
         IN IF o.done = Len(ops) THEN IsDatabase(o.db) /\ Like(o.db, SchemaAt(r - 1))
                                 ELSE ops[o.done + 1].do \in {"require", "refer", "refuse"}
<1> DEFINE ops == History[r].down
           o   == RunOps(d, ops)
<1>1. r \in 0..HeadRevision /\ IsDatabase(SchemaAt(r))
  BY Revisions DEF RevisionsFit
<1>2. CASE Leads(r, ops, r - 1, DownOps)
  <2>1. DownOps \subseteq AllOps /\ DownOps \intersect ByRows \subseteq {"require", "refer", "refuse"}
    BY DEF AllOps, DownOps, ByRows
  <2> HIDE DEF ops
  <2>2. IF o.done = Len(ops) THEN IsDatabase(o.db) /\ Like(o.db, SchemaAt(r - 1))
                             ELSE ops[o.done + 1].do \in DownOps \intersect ByRows
    BY <1>1, <1>2, <2>1, RevisionLeads
  <2> QED BY <2>1, <2>2 DEF ops
<1>3. CASE ops = <<Refuse>>
  <2> HIDE DEF ops
  <2>1. Len(ops) = 1 /\ ops[1].do = "refuse" /\ o.done = 0
    BY <1>3, Refused
  <2> HIDE DEF o
  <2>2. o.done # Len(ops) /\ ops[o.done + 1].do = "refuse"
    BY <2>1
  <2> QED BY <2>2 DEF o, ops
<1>4. Leads(r, ops, r - 1, DownOps) \/ ops = <<Refuse>>
  BY DEF RevisionsFit, DownFits
<1> QED BY <1>2, <1>3, <1>4

LEMMA UpOne ==
  ASSUME RevisionsFit, NEW r \in 1..HeadRevision, NEW d, IsDatabase(d), Like(d, SchemaAt(r - 1))
  PROVE  LET ops == History[r].up
             o   == RunOps(d, ops)
         IN IF o.done = Len(ops) THEN IsDatabase(o.db) /\ Like(o.db, SchemaAt(r))
                                 ELSE ops[o.done + 1].do \in {"require", "create type"}
<1> DEFINE ops == History[r].up
           o   == RunOps(d, ops)
<1>1. r - 1 \in 0..HeadRevision
  BY Revisions
<1>2. IsDatabase(SchemaAt(r - 1)) /\ Leads(r - 1, ops, r, UpOps)
  BY <1>1 DEF RevisionsFit, UpFits
<1>3. UpOps \subseteq AllOps /\ UpOps \intersect ByRows \subseteq {"require", "create type"}
  BY DEF AllOps, UpOps, ByRows
<1> HIDE DEF ops
<1>4. IF o.done = Len(ops) THEN IsDatabase(o.db) /\ Like(o.db, SchemaAt(r))
                           ELSE ops[o.done + 1].do \in UpOps \intersect ByRows
  BY <1>2, <1>3, RevisionLeads
<1> QED BY <1>3, <1>4 DEF ops

LEMMA ByHandSchema ==
  ASSUME RevisionsFit, TypeOK, SchemaIsRevision, UpByHand \/ DownByHand
  PROVE  SchemaIsRevision'
<1>1. IsDatabase(db) /\ Like(db, SchemaAt(rev)) /\ rev \in 0..HeadRevision
  BY DEF SchemaIsRevision, TypeOK
<1>2. CASE UpByHand
  <2> DEFINE o == RunOps(db, History[rev + 1].up)
  <2>1. rev' = rev + 1 /\ o.done = Len(History[rev + 1].up) /\ db' = o.db
    BY <1>2 DEF UpByHand, ByHand
  <2>2. rev < HeadOf[tree] /\ HeadOf[tree] \in 1..HeadRevision
    BY <1>2, HeadTypes DEF TypeOK, UpByHand
  <2>3. rev + 1 \in 1..HeadRevision /\ (rev + 1) - 1 = rev
    BY <1>1, <2>2, Revisions
  <2>4. IsDatabase(o.db) /\ Like(o.db, SchemaAt(rev + 1))
    BY <1>1, <2>1, <2>3, UpOne
  <2> QED BY <2>1, <2>4 DEF SchemaIsRevision
<1>3. CASE DownByHand
  <2> DEFINE o == RunOps(db, History[rev].down)
  <2>1. rev > 0 /\ rev' = rev - 1 /\ o.done = Len(History[rev].down) /\ db' = o.db
    BY <1>3 DEF DownByHand, ByHand
  <2>2. rev \in 1..HeadRevision
    BY <1>1, <2>1, Revisions
  <2>3. IsDatabase(o.db) /\ Like(o.db, SchemaAt(rev - 1))
    BY <1>1, <2>1, <2>2, DownOne
  <2> QED BY <2>1, <2>3 DEF SchemaIsRevision
<1> QED BY <1>2, <1>3

\* The rows of the worker change nothing of the schema, and none of them is lost.
LEMMA WriteAdds ==
  ASSUME SchemaIsRevision, Write
  PROVE  /\ IsDatabase(db') /\ rev' = rev
         /\ \A g \in {"schemas", "tables", "refs", "columns", "rules", "types"} : db'[g] = db[g]
         /\ db.odd \subseteq db'.odd /\ db.values \subseteq db'.values
<1>1. /\ IsDatabase(db) /\ db.values \subseteq db.columns
      /\ \A y \in db.odd : y = <<y[1], y[2]>>
      /\ db = [g \in DOMAIN db |-> db[g]]
  BY DEF SchemaIsRevision, IsDatabase
<1>2. DOMAIN db = {"schemas", "tables", "refs", "columns", "rules", "types", "odd", "orphans", "values"}
  BY <1>1, DatabaseFields
<1>3. rev' = rev
  BY DEF Write, WriteOdd, WriteStray, WriteName
<1>4. CASE \E x \in OddRows : WriteOdd(x)
  <2>1. PICK x \in OddRows : db' = [db EXCEPT !.odd = @ \union {x}]
    BY <1>4 DEF WriteOdd
  <2>2. /\ db' = [g \in DOMAIN db |-> db'[g]] /\ db'.odd = db.odd \union {x}
        /\ \A g \in DOMAIN db : g # "odd" => db'[g] = db[g]
    BY <1>1, <1>2, <2>1
  <2>3. x = <<x[1], x[2]>>
    BY DeploymentAssumption
  <2>4. db'.values \subseteq db'.columns /\ \A y \in db'.odd : y = <<y[1], y[2]>>
    BY <1>1, <1>2, <2>2, <2>3
  <2>5. IsDatabase(db')
    BY <1>1, <2>2, <2>4, StaysDatabase
  <2> QED BY <1>2, <1>3, <2>2, <2>5
<1>5. CASE \E x \in StrayRows : WriteStray(x)
  <2>1. PICK x \in StrayRows : db' = [db EXCEPT !.orphans = @ \union {x}]
    BY <1>5 DEF WriteStray
  <2>2. /\ db' = [g \in DOMAIN db |-> db'[g]]
        /\ \A g \in DOMAIN db : g # "orphans" => db'[g] = db[g]
    BY <1>1, <1>2, <2>1
  <2>3. db'.values \subseteq db'.columns /\ \A y \in db'.odd : y = <<y[1], y[2]>>
    BY <1>1, <1>2, <2>2
  <2>4. IsDatabase(db')
    BY <1>1, <2>2, <2>3, StaysDatabase
  <2> QED BY <1>2, <1>3, <2>2, <2>4
<1>6. CASE \E x \in Named : WriteName(x)
  <2>1. PICK x \in Named : x \in db.columns /\ db' = [db EXCEPT !.values = @ \union {x}]
    BY <1>6 DEF WriteName
  <2>2. /\ db' = [g \in DOMAIN db |-> db'[g]] /\ db'.values = db.values \union {x}
        /\ \A g \in DOMAIN db : g # "values" => db'[g] = db[g]
    BY <1>1, <1>2, <2>1
  <2>3. db'.values \subseteq db'.columns /\ \A y \in db'.odd : y = <<y[1], y[2]>>
    BY <1>1, <1>2, <2>1, <2>2
  <2>4. IsDatabase(db')
    BY <1>1, <2>2, <2>3, StaysDatabase
  <2> QED BY <1>2, <1>3, <2>2, <2>4
<1> QED BY <1>4, <1>5, <1>6 DEF Write

LEMMA WriteSchema ==
  ASSUME SchemaIsRevision, Write
  PROVE  SchemaIsRevision'
<1>1. Like(db, SchemaAt(rev))
  BY DEF SchemaIsRevision
<1>2. Like(db', SchemaAt(rev))
  BY <1>1, WriteAdds DEF Like
<1> QED BY <1>2, WriteAdds DEF SchemaIsRevision

LEMMA NextSchema == RevisionsFit /\ Inv /\ [Next]_vars => SchemaIsRevision'
<1> SUFFICES ASSUME RevisionsFit, TypeOK, SchemaIsRevision, [Next]_vars PROVE SchemaIsRevision'
  BY DEF Inv
<1>1. ASSUME NEW p \in Pushes, HookStep(p) \/ \E v \in Versions : Receive(p, v)
      PROVE  UNCHANGED <<rev, db>>
  BY <1>1 DEF HookStep, Checkout, Build, Stops, Up, UpFails, Healthy, Unhealthy, Receive
<1>2. CASE MigrationFails \/ UNCHANGED vars
  BY <1>2 DEF MigrationFails, vars, SchemaIsRevision
<1> QED BY <1>1, <1>2, MigrateSchema, ByHandSchema, WriteSchema DEF Next, SchemaIsRevision

\* With revisions that fit one another, the database has the schema of the revision it
\* is stamped with, whatever failed on the way.
THEOREM Invariance == RevisionsFit => (Spec => []Inv)
<1>1. RevisionsFit /\ Init => Inv
  BY InitTypes, InitSchema DEF Inv
<1>2. RevisionsFit /\ Inv /\ [Next]_vars => Inv'
  BY NextTypes, NextSchema DEF Inv
<1>3. RevisionsFit => []RevisionsFit
  OBVIOUS
<1> QED BY <1>1, <1>2, <1>3, PTL DEF Spec

\* A revision is refused only for a row, a type that was left behind, or because it has
\* no way back.
LEMMA StuckByInv == RevisionsFit /\ Inv => StuckOnlyByRows
<1> SUFFICES ASSUME RevisionsFit, Inv PROVE StuckOnlyByRows
  OBVIOUS
<1>1. IsDatabase(db) /\ Like(db, SchemaAt(rev)) /\ rev \in 0..HeadRevision
  BY DEF Inv, SchemaIsRevision, TypeOK
<1> DEFINE Stuck(ops) == LET n == RunOps(db, ops).done
                         IN IF n = Len(ops) THEN {} ELSE {ops[n + 1].do}
<1>2. ASSUME rev < HeadRevision
      PROVE  Stuck(History[rev + 1].up) \subseteq {"require", "create type"}
  <2>1. rev + 1 \in 1..HeadRevision /\ (rev + 1) - 1 = rev
    BY <1>1, <1>2, Revisions
  <2> QED BY <1>1, <2>1, UpOne
<1>3. ASSUME rev > 0
      PROVE  Stuck(History[rev].down) \subseteq {"require", "refer", "refuse"}
  <2>1. rev \in 1..HeadRevision
    BY <1>1, <1>3, Revisions
  <2> QED BY <1>1, <2>1, DownOne
<1> QED BY <1>2, <1>3 DEF StuckOnlyByRows

\* No table, column or schema is ever missing or in the way of a revision.
THEOREM Stuck == RevisionsFit => (Spec => []StuckOnlyByRows)
<1>1. RevisionsFit => []RevisionsFit
  OBVIOUS
<1> QED BY <1>1, Invariance, StuckByInv, PTL

LEMMA HeadByInv == RevisionsFit /\ Inv => ModelsMatchHead
<1> SUFFICES ASSUME RevisionsFit, Inv, rev = HeadRevision, NEW f \in DOMAIN Metadata
             PROVE  db[f] = Metadata[f]
  BY DEF ModelsMatchHead
<1>1. SchemaAt(HeadRevision)[f] = Metadata[f]
  BY DEF RevisionsFit
<1>2. Like(db, SchemaAt(HeadRevision))
  BY DEF Inv, SchemaIsRevision
<1>3. f \in {"tables", "refs", "columns", "rules"}
  BY DEF Metadata, All
<1> QED BY <1>1, <1>2, <1>3 DEF Like

\* At the head revision, whichever way it was reached, the models find the tables,
\* references, columns and rules they declare.
THEOREM ModelsAtHead == RevisionsFit => (Spec => []ModelsMatchHead)
<1>1. RevisionsFit => []RevisionsFit
  OBVIOUS
<1> QED BY <1>1, Invariance, HeadByInv, PTL

-----------------------------------------------------------------------------
(* The rows *)

\* What a step may do to them.
RowsStay(d, e) ==
  /\ \A s \in Said(d) : HasTable(e.tables, s) => s \in Said(e)
  /\ \A x \in d.odd : x[1] \in e.tables => x \in e.odd \/ x \in Completed

\* The way up leaves the rows of every table that it leaves.
LEMMA RowsUp ==
  ASSUME TypeOK', SchemaIsRevision', RowsLeft(db, db', rev')
  PROVE  RowsStay(db, db')
<1>1. rev' \in rev'..HeadRevision
  BY Revisions DEF TypeOK
<1>2. db'.tables \subseteq TablesFrom(rev')
  BY <1>1 DEF SchemaIsRevision, Like, TablesFrom
<1> QED BY <1>2 DEF RowsLeft, RowsStay

LEMMA UpByHandRows ==
  ASSUME RevisionsFit, TypeOK, SchemaIsRevision, UpByHand
  PROVE  RowsLeft(db, db', rev')
<1> DEFINE ops == History[rev + 1].up
           o   == RunOps(db, ops)
<1>1. rev' = rev + 1 /\ o.done = Len(ops) /\ db' = o.db
  BY DEF UpByHand, ByHand
<1>2. rev < HeadOf[tree] /\ HeadOf[tree] \in 1..HeadRevision /\ rev \in 0..HeadRevision
  BY HeadTypes DEF TypeOK, UpByHand
<1>3. rev + 1 \in 1..HeadRevision /\ rev \in Nat
  BY <1>2, Revisions
<1>4. UpFits(rev + 1, ops) /\ IsDatabase(SchemaAt(rev))
  BY <1>2, <1>3 DEF RevisionsFit
<1>5. IsDatabase(db) /\ Like(db, SchemaAt(rev)) /\ RowsLeft(db, db, rev)
  BY DEF SchemaIsRevision, RowsLeft
<1> QED BY <1>1, <1>3, <1>4, <1>5, RowsLeftStep

\* The way down leaves the rows of every table that it leaves, too.
LEMMA DownByHandRows ==
  ASSUME RevisionsFit, TypeOK, SchemaIsRevision, DownByHand, SchemaIsRevision'
  PROVE  RowsStay(db, db')
<1> DEFINE ops == History[rev].down
           o   == RunOps(db, ops)
           to  == SchemaAt(rev - 1)
           X   == {x \in RenamedAt(rev) : HasTable(to.tables, Says(x))}
<1>1. rev > 0 /\ rev' = rev - 1 /\ o.done = Len(ops) /\ db' = o.db
  BY DEF DownByHand, ByHand
<1>2. rev \in 1..HeadRevision /\ rev \in 0..HeadRevision
  BY <1>1, Revisions DEF TypeOK
<1>3. /\ IsDatabase(SchemaAt(rev)) /\ IsDatabase(db) /\ Like(db, SchemaAt(rev))
      /\ ops = <<Refuse>> \/ DownFits(rev, ops)
  BY <1>2 DEF RevisionsFit, SchemaIsRevision
<1>4. DownFits(rev, ops)
  <2> HIDE DEF ops
  <2>1. ops # <<Refuse>>
    <3> SUFFICES ASSUME ops = <<Refuse>> PROVE FALSE
      OBVIOUS
    <3>1. Len(ops) = 1 /\ o.done = 0
      BY Refused
    <3> HIDE DEF o
    <3> QED BY <1>1, <3>1
  <2> QED BY <1>3, <2>1
<1>5. /\ Leads(rev, ops, rev - 1, DownOps) /\ DownOps \subseteq AllOps
      /\ Carries(rev, ops, X) /\ Spares(ops, to.tables)
  BY <1>4 DEF DownFits, AllOps
<1>6. db'.tables = to.tables
  BY <1>1 DEF SchemaIsRevision, Like
<1> HIDE DEF ops, to, X
<1>7. /\ \A x \in db.values \intersect X : Says(x) \in Said(o.db)
      /\ \A w \in db.odd : w[1] \in to.tables => w \in o.db.odd \/ w \in Completed
  BY <1>1, <1>3, <1>5, RowsRun
<1>8. \A x \in db.values : x[2] \in Renamed => x \in RenamedAt(rev)
  BY <1>3 DEF IsDatabase, Like, RenamedAt
<1>9. ASSUME NEW s \in Said(db), HasTable(db'.tables, s)
      PROVE  s \in Said(db')
  <2>1. PICK x \in db.values : x[2] \in Renamed /\ s = Says(x)
    BY DEF Said
  <2>2. x \in X
    BY <1>6, <1>8, <1>9, <2>1 DEF X
  <2> QED BY <1>1, <1>7, <2>1, <2>2
<1> QED BY <1>1, <1>6, <1>7, <1>9 DEF RowsStay

LEMMA NextRows == RevisionsFit /\ Inv /\ [Next]_vars => RowsStay(db, db')
<1> SUFFICES ASSUME RevisionsFit, Inv, [Next]_vars PROVE RowsStay(db, db')
  OBVIOUS
<1>1. TypeOK /\ SchemaIsRevision /\ TypeOK' /\ SchemaIsRevision'
  BY NextTypes, NextSchema DEF Inv
<1>2. CASE db' = db
  BY <1>2 DEF RowsStay
<1>3. CASE Migrate
  BY <1>1, <1>3, MigrateSchema, RowsUp
<1>4. CASE UpByHand
  BY <1>1, <1>4, UpByHandRows, RowsUp
<1>5. CASE DownByHand
  BY <1>1, <1>5, DownByHandRows
<1>6. CASE Write
  <2>1. db.odd \subseteq db'.odd /\ db.values \subseteq db'.values
    BY <1>1, <1>6, WriteAdds
  <2> QED BY <2>1 DEF RowsStay, Said
<1>7. ASSUME NEW p \in Pushes, HookStep(p) \/ \E v \in Versions : Receive(p, v)
      PROVE  db' = db
  BY <1>7 DEF HookStep, Checkout, Build, Stops, Up, UpFails, Healthy, Unhealthy, Receive
<1>8. CASE MigrationFails \/ UNCHANGED vars
  BY <1>2, <1>8 DEF MigrationFails, vars
<1> QED BY <1>2, <1>3, <1>4, <1>5, <1>6, <1>7, <1>8 DEF Next

\* Whatever rows there are and whichever way the migrations go, what renamed columns say
\* goes along as long as there is a table for it, and a row that breaks a rule is there
\* still, unless the revision completes it.
THEOREM Rows == RevisionsFit => (Spec => RowsKept)
<1>1. RevisionsFit /\ Inv /\ [Next]_vars =>
        [ /\ \A s \in Said(db) : HasTable(db'.tables, s) => s \in Said(db')
          /\ \A x \in db.odd : x[1] \in db'.tables => x \in db'.odd \/ x \in Completed ]_vars
  BY NextRows DEF RowsStay
<1>2. RevisionsFit => []RevisionsFit
  OBVIOUS
<1> QED BY <1>1, <1>2, Invariance, PTL DEF Spec, RowsKept

-----------------------------------------------------------------------------
(* What a hook reports *)

\* The last push, and no other hook ran while its hook did.
Undisturbed(p) == hook[p].at # "idle" /\ hook[p].alone /\ hook[p].new = main

\* The version that the hook is bringing out.
Target(p) == IF hook[p].back THEN hook[p].old ELSE hook[p].new

\* No other hook is at work, and what this one has done so far is still there.
Placed(p) ==
  /\ \A q \in Pushes : Active(q) => q = p
  /\ hook[p].at \in {"build", "up", "health"} => tree = Target(p)
  /\ hook[p].at \in {"up", "health"} => image = Target(p)
  /\ hook[p].at = "health" => api = Target(p) /\ worker = Target(p)
  /\ hook[p].at = "ended" /\ hook[p].verdict = "deployed" =>
       {tree, image, api, worker} = {hook[p].new}
  /\ hook[p].at = "ended" /\ hook[p].verdict = "rolled back" =>
       {tree, image, api, worker} = {hook[p].old}

HookInv ==
  /\ \A p \in Pushes : hook[p].at # "idle" => hook[p].new <= main
  /\ \A p \in Pushes : Undisturbed(p) => Placed(p)

LEMMA InitHook == Init => HookInv
BY DEF Init, Idle, HookInv, Undisturbed

LEMMA ReceiveHook ==
  ASSUME TypeOK, HookInv, NEW p \in Pushes, NEW v \in Versions, Receive(p, v)
  PROVE  HookInv'
<1> DEFINE others == {q \in Pushes : Active(q)}
<1>0. \A q \in Pushes : hook[q].new \in Versions
  BY DEF TypeOK
<1>1. /\ main \in Int /\ v \in Int /\ v > main /\ main' = v
      /\ \A q \in Pushes : hook[q].new \in Int
      /\ \A q \in Pushes : hook[q].at # "idle" => hook[q].new <= main
  <2>1. main \in Versions /\ Versions \subseteq Int
    BY DEF TypeOK, Versions
  <2>2. v > main /\ main' = v
    BY DEF Receive
  <2> QED BY <1>0, <2>1, <2>2 DEF HookInv
<1>2. hook'[p] = [Idle EXCEPT !.at = "checkout", !.old = main, !.new = v, !.alone = others = {}]
  BY DEF Receive
<1>3. hook'[p].at = "checkout" /\ hook'[p].new = v /\ (hook'[p].alone => others = {})
  BY <1>2 DEF Idle
<1>4. ASSUME NEW q \in Pushes, q # p
      PROVE  hook'[q].at = hook[q].at /\ hook'[q].new = hook[q].new
  <2>1. hook'[q] \in {hook[q], [hook[q] EXCEPT !.alone = FALSE]}
    BY <1>4 DEF Receive
  <2>2. hook[q] \in [at : Steps, old : Versions, new : Versions, back : BOOLEAN, alone : BOOLEAN,
                     verdict : Verdicts]
    BY DEF TypeOK
  <2> QED BY <2>1, <2>2
<1>5. \A q \in Pushes : hook'[q].at # "idle" => hook'[q].new <= main'
  BY <1>1, <1>3, <1>4
<1>6. ASSUME NEW q \in Pushes, Undisturbed(q)'
      PROVE  Placed(q)'
  <2>1. hook'[q].at # "idle" /\ hook'[q].alone /\ hook'[q].new = v
    BY <1>1, <1>6 DEF Undisturbed
  <2>2. q = p
    BY <1>1, <1>4, <2>1
  <2>3. others = {}
    BY <1>3, <2>1, <2>2
  <2>4. \A r \in Pushes : Active(r)' => r = p
    BY <1>4, <2>3 DEF Active
  <2> QED BY <1>3, <2>2, <2>4 DEF Placed
<1> QED BY <1>5, <1>6 DEF HookInv

\* What a step of a hook may do to the hook itself.
LEMMA HookStepMoves ==
  ASSUME TypeOK, NEW p \in Pushes, HookStep(p)
  PROVE  /\ hook[p].at \notin {"idle", "ended"} /\ hook'[p].at # "idle"
         /\ hook'[p].new = hook[p].new /\ hook'[p].old = hook[p].old
         /\ hook'[p].alone = hook[p].alone
         /\ \A q \in Pushes : q # p => hook'[q] = hook[q]
         /\ main' = main
<1>1. /\ hook \in [Pushes -> [at : Steps, old : Versions, new : Versions, back : BOOLEAN,
                              alone : BOOLEAN, verdict : Verdicts]]
      /\ DOMAIN hook[p] = {"at", "old", "new", "back", "alone", "verdict"}
  BY DEF TypeOK
<1>2. ASSUME NEW step \in Steps \ {"idle"}, Go(p, step)
      PROVE  /\ hook'[p].at # "idle"
             /\ hook'[p].new = hook[p].new /\ hook'[p].old = hook[p].old
             /\ hook'[p].alone = hook[p].alone
             /\ \A q \in Pushes : q # p => hook'[q] = hook[q]
  BY <1>1, <1>2 DEF Go
<1>3. ASSUME NEW verdict, End(p, verdict)
      PROVE  /\ hook'[p].at # "idle"
             /\ hook'[p].new = hook[p].new /\ hook'[p].old = hook[p].old
             /\ hook'[p].alone = hook[p].alone
             /\ \A q \in Pushes : q # p => hook'[q] = hook[q]
  BY <1>1, <1>3 DEF End
<1>4. ASSUME \/ hook' = [hook EXCEPT ![p].back = TRUE] /\ hook[p].at # "idle"
             \/ hook' = [hook EXCEPT ![p].back = TRUE, ![p].at = "checkout"]
      PROVE  /\ hook'[p].at # "idle"
             /\ hook'[p].new = hook[p].new /\ hook'[p].old = hook[p].old
             /\ hook'[p].alone = hook[p].alone
             /\ \A q \in Pushes : q # p => hook'[q] = hook[q]
  BY <1>1, <1>4
<1>5. hook[p].at \notin {"idle", "ended"} /\ main' = main
  BY DEF HookStep, Checkout, Build, Stops, Up, UpFails, Healthy, Unhealthy
<1>6. \/ \E step \in Steps \ {"idle"} : Go(p, step)
      \/ \E verdict : End(p, verdict)
      \/ hook' = [hook EXCEPT ![p].back = TRUE]
      \/ hook' = [hook EXCEPT ![p].back = TRUE, ![p].at = "checkout"]
  BY DEF HookStep, Checkout, Build, Stops, Up, UpFails, Healthy, Unhealthy, Steps
<1> QED BY <1>2, <1>3, <1>4, <1>5, <1>6

\* What a hook leaves behind at each of its steps.
LEMMA HookStepPlaces ==
  ASSUME TypeOK, NEW p \in Pushes, Placed(p), HookStep(p)
  PROVE  Placed(p)'
<1>1. /\ hook \in [Pushes -> [at : Steps, old : Versions, new : Versions, back : BOOLEAN,
                              alone : BOOLEAN, verdict : Verdicts]]
      /\ DOMAIN hook[p] = {"at", "old", "new", "back", "alone", "verdict"}
      /\ hook[p].back \in BOOLEAN
  BY DEF TypeOK
<1>2. /\ hook'[p].new = hook[p].new /\ hook'[p].old = hook[p].old
      /\ \A q \in Pushes : q # p => hook'[q] = hook[q]
  BY HookStepMoves
<1>3. \A q \in Pushes : Active(q)' => q = p
  BY <1>2 DEF Placed, Active
<1>4. ASSUME NEW step, Go(p, step)
      PROVE  hook'[p].at = step /\ hook'[p].back = hook[p].back
  BY <1>1, <1>4 DEF Go
<1>5. ASSUME NEW verdict, End(p, verdict)
      PROVE  hook'[p].at = "ended" /\ hook'[p].verdict = verdict /\ hook'[p].back = hook[p].back
  BY <1>1, <1>5 DEF End
<1>6. CASE Checkout(p)
  <2>1. CASE ~hook[p].back /\ hook[p].new \in Bare
    <3>1. hook' = [hook EXCEPT ![p].back = TRUE] /\ hook[p].at = "checkout"
      BY <1>6, <2>1 DEF Checkout
    <3>2. hook'[p].at = "checkout"
      BY <1>1, <3>1
    <3> QED BY <1>3, <3>2 DEF Placed
  <2>2. CASE ~(~hook[p].back /\ hook[p].new \in Bare)
    <3>1. Go(p, "build") /\ tree' = Target(p)
      BY <1>6, <2>2 DEF Checkout, Target
    <3> QED BY <1>2, <1>3, <1>4, <3>1 DEF Placed, Target
  <2> QED BY <2>1, <2>2
<1>7. CASE Build(p)
  <2>1. Go(p, "up") /\ tree = Target(p) /\ tree' = tree /\ image' = tree
    BY <1>7 DEF Build, Placed
  <2> QED BY <1>2, <1>3, <1>4, <2>1 DEF Placed, Target
<1>8. CASE Stops(p) \/ UpFails(p)
  <2>1. End(p, "failed")
    BY <1>8 DEF Stops, UpFails
  <2>2. hook'[p].at = "ended" /\ hook'[p].verdict = "failed"
    BY <1>5, <2>1
  <2> QED BY <1>3, <2>2 DEF Placed
<1>9. CASE Up(p)
  <2>1. /\ Go(p, "health") /\ tree = Target(p) /\ image = Target(p)
        /\ tree' = tree /\ image' = image /\ api' = image /\ worker' = image
    BY <1>9 DEF Up, Placed
  <2> QED BY <1>2, <1>3, <1>4, <2>1 DEF Placed, Target
<1>10. ASSUME hook[p].at = "health", UNCHANGED <<tree, image, api, worker>>,
              End(p, IF hook[p].back THEN "rolled back" ELSE "deployed")
       PROVE  Placed(p)'
  <2>1. {tree, image, api, worker}' = {Target(p)}
    BY <1>10 DEF Placed
  <2>2. CASE hook[p].back
    <3>1. hook'[p].at = "ended" /\ hook'[p].verdict = "rolled back" /\ Target(p) = hook'[p].old
      BY <1>2, <1>5, <1>10, <2>2 DEF Target
    <3> QED BY <1>3, <2>1, <3>1 DEF Placed
  <2>3. CASE ~hook[p].back
    <3>1. hook'[p].at = "ended" /\ hook'[p].verdict = "deployed" /\ Target(p) = hook'[p].new
      BY <1>2, <1>5, <1>10, <2>3 DEF Target
    <3> QED BY <1>3, <2>1, <3>1 DEF Placed
  <2> QED BY <2>2, <2>3
<1>11. CASE Healthy(p)
  BY <1>10, <1>11 DEF Healthy
<1>12. CASE Unhealthy(p)
  <2>1. CASE hook[p].back
    BY <1>10, <1>12, <2>1 DEF Unhealthy
  <2>2. CASE ~hook[p].back
    <3>1. hook' = [hook EXCEPT ![p].back = TRUE, ![p].at = "checkout"]
      BY <1>12, <2>2 DEF Unhealthy
    <3>2. hook'[p].at = "checkout"
      BY <1>1, <3>1
    <3> QED BY <1>3, <3>2 DEF Placed
  <2> QED BY <2>1, <2>2
<1> QED BY <1>6, <1>7, <1>8, <1>9, <1>11, <1>12 DEF HookStep

LEMMA HookStepHook ==
  ASSUME TypeOK, HookInv, NEW p \in Pushes, HookStep(p)
  PROVE  HookInv'
<1>1. /\ Active(p) /\ hook[p].at # "idle" /\ main' = main
      /\ hook'[p].new = hook[p].new /\ hook'[p].alone = hook[p].alone
      /\ \A q \in Pushes : q # p => hook'[q] = hook[q]
  BY HookStepMoves DEF Active
<1>2. \A q \in Pushes : hook'[q].at # "idle" => hook'[q].new <= main'
  <2>1. hook[p].new <= main
    BY <1>1 DEF HookInv
  <2> QED BY <1>1, <2>1 DEF HookInv
<1>3. ASSUME NEW q \in Pushes, Undisturbed(q)'
      PROVE  Placed(q)'
  <2>1. Undisturbed(q)
    BY <1>1, <1>3 DEF Undisturbed
  <2>2. Placed(q)
    BY <2>1 DEF HookInv
  <2>3. q = p
    BY <1>1, <2>2 DEF Placed
  <2> QED BY <2>2, <2>3, HookStepPlaces
<1> QED BY <1>2, <1>3 DEF HookInv

LEMMA NextHook == TypeOK /\ HookInv /\ [Next]_vars => HookInv'
<1> SUFFICES ASSUME TypeOK, HookInv, [Next]_vars PROVE HookInv'
  OBVIOUS
<1>1. CASE UNCHANGED code
  BY <1>1 DEF code, HookInv, Undisturbed, Placed, Target, Active
<1>2. CASE Migrate \/ MigrationFails \/ UpByHand \/ DownByHand \/ Write \/ UNCHANGED vars
  BY <1>1, <1>2 DEF Migrate, MigrationFails, UpByHand, DownByHand, ByHand, Write, WriteOdd,
     WriteStray, WriteName, vars, code
<1> QED BY <1>2, HookStepHook, ReceiveHook DEF Next

LEMMA ReportByInv == HookInv => ReportIsTrue
BY DEF HookInv, ReportIsTrue, Undisturbed, Placed

\* The newest push leaves what its hook reports, unless another hook ran beside it.
THEOREM Report == Spec => []ReportIsTrue
<1>1. Init => TypeOK /\ HookInv
  BY InitTypes, InitHook
<1>2. TypeOK /\ HookInv /\ [Next]_vars => (TypeOK /\ HookInv)'
  BY NextTypes, NextHook
<1>3. TypeOK /\ HookInv => ReportIsTrue
  BY ReportByInv
<1> QED BY <1>1, <1>2, <1>3, PTL DEF Spec
=============================================================================
