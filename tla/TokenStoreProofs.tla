-------------------------- MODULE TokenStoreProofs --------------------------
(***************************************************************************)
(* Proofs about TokenStore, for any containers, tasks, number of tokens    *)
(* and kind of provider                                                    *)
(***************************************************************************)
EXTENDS TokenStore, TLAPS

\* A step concerns one task.
Others(t) ==
  \A u \in Tasks : u # t => /\ pc'[u] = pc[u]
                            /\ token'[u] = token[u]
                            /\ found'[u] = found[u]
                            /\ presented'[u] = presented[u]

\* What task t is left with outside the transaction of a refresh.
Outside(t) ==
  /\ pc'[t] \in Pc \ (UnderDbLock \cup {"caching"})
  /\ presented'[t] = 0
  /\ found'[t] \in {NoAuth, row, found[t]}
  /\ pc'[t] \in {"loaded", "loaded_locked"} => found'[t] = row
  /\ pc'[t] = "sending" => token'[t] \in saved
  /\ pc'[t] \in Refreshing /\ token'[t] # 0 => Worn(token'[t])

-----------------------------------------------------------------------------
(* What the shared parts of the actions do *)

\* A checked record is used, or is to be replaced because it is worn.
LEMMA CheckedEffect ==
  ASSUME TypeOK, NEW t \in Tasks, NEW rec \in Auth, Recorded(rec),
         Checked(t, rec)
  PROVE  /\ token' = [token EXCEPT ![t] = rec.access]
         /\ \E where \in {"sending", "queued"} :
              /\ pc' = [pc EXCEPT ![t] = where]
              /\ where = "sending" => rec.access \in saved
              /\ where = "queued" /\ rec.access # 0 => Worn(rec.access)
<1>1. token' = [token EXCEPT ![t] = rec.access]
  BY DEF Checked
<1>2. CASE rec # NoAuth /\ ~Expired(rec.access, TRUE)
  BY <1>1, <1>2 DEF Checked, Goto, Recorded
<1>3. CASE ~(rec # NoAuth /\ ~Expired(rec.access, TRUE))
  <2>1. pc' = [pc EXCEPT ![t] = "queued"]
    BY <1>3 DEF Checked, Goto
  <2>2. rec.access # 0 => Worn(rec.access)
    BY <1>3 DEF NoAuth, Expired, Worn
  <2> QED BY <1>1, <2>1, <2>2
<1> QED BY <1>2, <1>3

LEMMA GetHeadersEffect ==
  ASSUME TypeOK, RecordInv, NEW t \in Tasks, GetHeaders(t)
  PROVE  \E where \in {"sending", "queued", "load"}, n \in Tokens \cup {0} :
           /\ pc' = [pc EXCEPT ![t] = where]
           /\ token' = [token EXCEPT ![t] = n]
           /\ where = "sending" => n \in saved
           /\ where = "queued" /\ n # 0 => Worn(n)
<1> DEFINE rec == cache[HomeOf[t]]
<1>1. rec \in Auth /\ Recorded(rec)
  BY ConstantsAssumption DEF TypeOK, RecordInv
<1>2. CASE rec # NoAuth
  <2>1. Checked(t, rec)
    BY <1>2 DEF GetHeaders
  <2>2. rec.access \in Tokens \cup {0}
    BY <1>1 DEF Auth
  <2> QED BY <1>1, <2>1, <2>2, CheckedEffect
<1>3. CASE rec = NoAuth
  <2>1. pc' = [pc EXCEPT ![t] = "load"] /\ token' = token
    BY <1>3 DEF GetHeaders, Goto
  <2>2. token[t] \in Tokens \cup {0} /\ token' = [token EXCEPT ![t] = token[t]]
    BY <2>1 DEF TypeOK
  <2> QED BY <2>1, <2>2
<1> QED BY <1>2, <1>3

\* The locks a task lets go of, and those of the others.
LEMMA LetGoEffect ==
  ASSUME TypeOK, NEW t \in Tasks, LetGo(t)
  PROVE  /\ refreshLock' \in [Containers -> Tasks \cup {NoTask}]
         /\ dbLock' \in Tasks \cup {NoTask}
         /\ dbLock' = IF dbLock = t THEN NoTask ELSE dbLock
BY DEF LetGo, TypeOK

LEMMA GiveUpEffect ==
  ASSUME TypeOK, NEW t \in Tasks, GiveUp(t)
  PROVE  /\ pc' = [pc EXCEPT ![t] = "idle"]
         /\ phase' \in [Tasks -> Phase]
         /\ token' = [token EXCEPT ![t] = 0]
         /\ found' = [found EXCEPT ![t] = NoAuth]
         /\ presented' = [presented EXCEPT ![t] = 0]
         /\ refreshLock' \in [Containers -> Tasks \cup {NoTask}]
         /\ dbLock' \in Tasks \cup {NoTask}
         /\ dbLock' = IF dbLock = t THEN NoTask ELSE dbLock
<1>1. LetGo(t)
  BY DEF GiveUp
<1>2. phase' \in [Tasks -> Phase]
  BY DEF GiveUp, Forget, TypeOK, Phase
<1> QED BY <1>1, <1>2, LetGoEffect DEF GiveUp, Goto, Forget

LEMMA RefreshedEffect ==
  ASSUME TypeOK, NEW t \in Tasks, NEW rec \in Auth, Refreshed(t, rec)
  PROVE  /\ \/ /\ pc' = [pc EXCEPT ![t] = "retry"]
               /\ token' = token
            \/ /\ pc' = [pc EXCEPT ![t] = "sending"]
               /\ token' = [token EXCEPT ![t] = rec.access]
         /\ phase' = phase
         /\ found' = [found EXCEPT ![t] = NoAuth]
         /\ presented' = [presented EXCEPT ![t] = 0]
         /\ refreshLock' \in [Containers -> Tasks \cup {NoTask}]
         /\ dbLock' \in Tasks \cup {NoTask}
         /\ dbLock' = IF dbLock = t THEN NoTask ELSE dbLock
<1>1. LetGo(t)
  BY DEF Refreshed
<1> QED BY <1>1, LetGoEffect DEF Refreshed, Goto

LEMMA CacheEffect ==
  ASSUME TypeOK, RecordInv, NEW t \in Tasks, NEW rec \in Auth, Recorded(rec),
         Cache(t, rec), saved' = saved
  PROVE  /\ cache' \in [Containers -> Auth]
         /\ \A c \in Containers : Recorded(cache[c])'
<1>1. cache' = [cache EXCEPT ![HomeOf[t]] = rec]
  BY DEF Cache
<1>2. cache' \in [Containers -> Auth]
  BY <1>1 DEF TypeOK
<1>3. \A c \in Containers : cache'[c] = rec \/ cache'[c] = cache[c]
  BY <1>1 DEF TypeOK
<1> QED BY <1>2, <1>3 DEF RecordInv, Recorded

-----------------------------------------------------------------------------
(* Steps that leave a task outside the transaction of a refresh *)

LEMMA LeaveStep ==
  ASSUME IInv, TypeOK', NEW t \in Tasks, Others(t), Outside(t),
         dbLock' = (IF dbLock = t THEN NoTask ELSE dbLock),
         UNCHANGED <<row, saved, issued, age, revoked, spent>>,
         \A c \in Containers : Recorded(cache[c])',
         lost \subseteq lost', stray' \subseteq lost', again' \subseteq lost',
         \A n \in stray' : n <= issued,
         dbLock = t /\ pc[t] = "saving" => presented[t] \in lost' \cup {0}
  PROVE  IInv'
<1> USE ConstantsAssumption DEF IInv
<1>1. RecordInv'
  <2>1. \A u \in Tasks : /\ found'[u].access <= issued
                          /\ found'[u].refresh <= issued
                          /\ presented'[u] <= issued
    BY DEF RecordInv, Others, Outside, NoAuth, TypeOK
  <2>2. \A u \in Tasks :
          pc'[u] \in {"loaded", "loaded_locked", "decide", "caching"}
            => Recorded(found[u])'
    BY DEF RecordInv, Recorded, Others, Outside, UnderDbLock
  <2> QED BY <2>1, <2>2 DEF RecordInv, Recorded, Others, Outside
<1>2. HolderInv'
  BY DEF HolderInv, Others, TypeOK
<1>3. SeveredInv'
  BY DEF SeveredInv, Others, Outside, UnderDbLock, TypeOK
<1>4. PresentedInv'
  BY DEF PresentedInv, Others, Outside, UnderDbLock, TypeOK
<1>5. UsableInv'
  <2> SUFFICES ASSUME row.refresh \in spent, row.refresh \notin lost'
               PROVE  \E u \in Tasks : /\ dbLock' = u
                                      /\ pc'[u] = "saving"
                                      /\ presented'[u] = row.refresh
    BY DEF UsableInv
  <2>1. PICK u \in Tasks : /\ dbLock = u
                           /\ pc[u] = "saving"
                           /\ presented[u] = row.refresh
    BY DEF UsableInv
  <2>2. row.refresh # 0
    BY DEF TypeOK, Tokens
  <2>3. u # t
    BY <2>1, <2>2
  <2> QED BY <2>1, <2>3 DEF Others
<1>6. WornInv'
  BY DEF WornInv, Worn, Others, Outside, UnderDbLock, TypeOK
<1> QED BY <1>1, <1>2, <1>3, <1>4, <1>5, <1>6 DEF IInv

\* Outside the transaction a task neither has the lock nor presents anything.
LEMMA NotUnderLock ==
  ASSUME IInv, NEW t \in Tasks, pc[t] \notin UnderDbLock
  PROVE  dbLock # t
BY DEF IInv, HolderInv

\* get_headers, at the start of a request and after a recovered 401.
LEMMA GetHeadersStep ==
  ASSUME IInv, NEW t \in Tasks, Begin(t) \/ Retry(t)
  PROVE  IInv'
<1> USE DEF Begin, Retry, store, provider, Pc, UnderDbLock, Refreshing
<1>1. GetHeaders(t)
  OBVIOUS
<1>2. PICK where \in {"sending", "queued", "load"}, n \in Tokens \cup {0} :
         /\ pc' = [pc EXCEPT ![t] = where]
         /\ token' = [token EXCEPT ![t] = n]
         /\ where = "sending" => n \in saved
         /\ where = "queued" /\ n # 0 => Worn(n)
  BY <1>1, GetHeadersEffect DEF IInv
<1>3. TypeOK'
  BY <1>2 DEF IInv, TypeOK, Phase
<1>4. Others(t) /\ presented'[t] = 0
  BY <1>2 DEF IInv, TypeOK, Others, PresentedInv
<1>5. Outside(t)
  BY <1>2, <1>4 DEF IInv, TypeOK, Outside, Worn
<1>6. \A c \in Containers : Recorded(cache[c])'
  BY DEF IInv, RecordInv, Recorded
<1> QED BY <1>3, <1>4, <1>5, <1>6, NotUnderLock, LeaveStep
        DEF IInv, PresentedInv, RecordInv

\* A read of the row without a lock, or with the container's.
LEMMA LoadStep ==
  ASSUME IInv, NEW t \in Tasks, Load(t) \/ LoadLocked(t)
  PROVE  IInv'
<1> USE DEF Load, LoadLocked, Goto, store, provider, Pc, UnderDbLock, Refreshing
<1>1. TypeOK'
  BY DEF IInv, TypeOK
<1>2. Others(t) /\ presented'[t] = 0
  BY DEF IInv, TypeOK, Others, PresentedInv
<1>3. Outside(t)
  BY <1>2 DEF IInv, TypeOK, Outside, WornInv, Worn
<1>4. \A c \in Containers : Recorded(cache[c])'
  BY DEF IInv, RecordInv, Recorded
<1> QED BY <1>1, <1>2, <1>3, <1>4, NotUnderLock, LeaveStep
        DEF IInv, PresentedInv, RecordInv

\* The unlocked read is cached and used, or found to be old.
LEMMA LoadedStep ==
  ASSUME IInv, NEW t \in Tasks, Loaded(t)
  PROVE  IInv'
<1> USE DEF Loaded, store, provider, Pc, UnderDbLock, Refreshing
<1>1. found[t] \in Auth /\ Recorded(found[t])
  BY DEF IInv, TypeOK, RecordInv
<1>2. PICK where \in {"sending", "queued"} :
         /\ token' = [token EXCEPT ![t] = found[t].access]
         /\ pc' = [pc EXCEPT ![t] = where]
         /\ where = "sending" => found[t].access \in saved
         /\ where = "queued" /\ found[t].access # 0 => Worn(found[t].access)
  BY <1>1, CheckedEffect DEF IInv
<1>3. /\ cache' \in [Containers -> Auth]
      /\ \A c \in Containers : Recorded(cache[c])'
  <2>1. CASE found[t] = NoAuth
    BY <2>1 DEF IInv, TypeOK, RecordInv, Recorded
  <2>2. CASE found[t] # NoAuth
    BY <1>1, <2>2, CacheEffect DEF IInv
  <2> QED BY <2>1, <2>2
<1>4. found[t].access \in Tokens \cup {0} /\ NoAuth \in Auth
  BY <1>1 DEF Auth, NoAuth
<1>5. TypeOK'
  BY <1>2, <1>3, <1>4 DEF IInv, TypeOK
<1>6. Others(t) /\ presented'[t] = 0
  BY <1>2 DEF IInv, TypeOK, Others, PresentedInv
<1>7. Outside(t)
  BY <1>2, <1>4, <1>6 DEF IInv, TypeOK, Outside, Worn
<1> QED BY <1>3, <1>5, <1>6, <1>7, NotUnderLock, LeaveStep
        DEF IInv, PresentedInv, RecordInv

\* A call that ends with a record that has been saved.
LEMMA ReturnStep ==
  ASSUME IInv, NEW t \in Tasks, NEW rec \in Auth, Recorded(rec), rec # NoAuth,
         Refreshed(t, rec), pc[t] # "saving",
         cache' \in [Containers -> Auth],
         \A c \in Containers : Recorded(cache[c])',
         UNCHANGED <<row, saved, provider, lost>>
  PROVE  IInv'
<1> USE DEF provider, Pc, UnderDbLock, Refreshing
<1>1. /\ \/ /\ pc' = [pc EXCEPT ![t] = "retry"]
            /\ token' = token
         \/ /\ pc' = [pc EXCEPT ![t] = "sending"]
            /\ token' = [token EXCEPT ![t] = rec.access]
      /\ phase' = phase
      /\ found' = [found EXCEPT ![t] = NoAuth]
      /\ presented' = [presented EXCEPT ![t] = 0]
      /\ refreshLock' \in [Containers -> Tasks \cup {NoTask}]
      /\ dbLock' \in Tasks \cup {NoTask}
      /\ dbLock' = IF dbLock = t THEN NoTask ELSE dbLock
  BY RefreshedEffect DEF IInv
<1>2. rec.access \in saved /\ rec.access \in Tokens \cup {0} /\ NoAuth \in Auth
  BY DEF Recorded, Auth, NoAuth
<1>3. TypeOK'
  BY <1>1, <1>2 DEF IInv, TypeOK
<1>4. Others(t)
  BY <1>1 DEF IInv, TypeOK, Others
<1>5. Outside(t)
  BY <1>1, <1>2 DEF IInv, TypeOK, Outside
<1> QED BY <1>1, <1>3, <1>4, <1>5, LeaveStep DEF IInv, PresentedInv, RecordInv

\* A call that ends without a token.
LEMMA GiveUpStep ==
  ASSUME IInv, NEW t \in Tasks, GiveUp(t),
         cache' \in [Containers -> Auth],
         \A c \in Containers : Recorded(cache[c])',
         UNCHANGED <<row, saved, issued, age, revoked, spent>>,
         lost \subseteq lost', lost' \subseteq Tokens,
         stray' \subseteq lost', again' \subseteq lost',
         \A n \in stray' : n <= issued,
         dbLock = t /\ pc[t] = "saving" => presented[t] \in lost' \cup {0}
  PROVE  IInv'
<1> USE DEF Pc, UnderDbLock, Refreshing
<1>1. /\ pc' = [pc EXCEPT ![t] = "idle"]
      /\ phase' \in [Tasks -> Phase]
      /\ token' = [token EXCEPT ![t] = 0]
      /\ found' = [found EXCEPT ![t] = NoAuth]
      /\ presented' = [presented EXCEPT ![t] = 0]
      /\ refreshLock' \in [Containers -> Tasks \cup {NoTask}]
      /\ dbLock' \in Tasks \cup {NoTask}
      /\ dbLock' = IF dbLock = t THEN NoTask ELSE dbLock
  BY GiveUpEffect DEF IInv
<1>2. TypeOK'
  BY <1>1 DEF IInv, TypeOK, Auth, NoAuth
<1>3. Others(t)
  BY <1>1 DEF IInv, TypeOK, Others
<1>4. Outside(t)
  BY <1>1 DEF IInv, TypeOK, Outside
<1> QED BY <1>1, <1>2, <1>3, <1>4, LeaveStep

\* The container's lock: somebody has refreshed, or the database is next.
LEMMA TakeRefreshLockStep ==
  ASSUME IInv, NEW t \in Tasks, TakeRefreshLock(t)
  PROVE  IInv'
<1> USE DEF provider, UnderDbLock, Refreshing
<1> DEFINE c == HomeOf[t]
<1>1. /\ pc[t] = "queued" /\ cache' = cache
      /\ UNCHANGED <<row, saved, provider, lost>>
  BY DEF TakeRefreshLock
<1>2. /\ cache[c] \in Auth /\ Recorded(cache[c])
      /\ cache' \in [Containers -> Auth]
      /\ \A d \in Containers : Recorded(cache[d])'
  BY <1>1, ConstantsAssumption DEF IInv, TypeOK, RecordInv, Recorded
<1>3. CASE cache[c] # NoAuth /\ Refreshed(t, cache[c])
  BY <1>1, <1>2, <1>3, ReturnStep
<1>4. CASE ~(cache[c] # NoAuth /\ Refreshed(t, cache[c]))
  <2>1. /\ \/ pc' = [pc EXCEPT ![t] = "load_locked"]
           \/ pc' = [pc EXCEPT ![t] = "dbwait"]
        /\ refreshLock' = [refreshLock EXCEPT ![c] = t]
        /\ UNCHANGED <<dbLock, phase, token, found, presented>>
    BY <1>4 DEF TakeRefreshLock, Goto
  <2>2. TypeOK'
    BY <1>1, <2>1 DEF IInv, TypeOK, Pc
  <2>3. Others(t) /\ presented'[t] = 0
    BY <1>1, <2>1 DEF IInv, TypeOK, Others, PresentedInv
  <2>4. Outside(t)
    BY <1>1, <2>1, <2>3 DEF IInv, TypeOK, Outside, Pc, WornInv, Worn
  <2> QED BY <1>1, <1>2, <2>1, <2>2, <2>3, <2>4, NotUnderLock, LeaveStep
          DEF IInv, PresentedInv, RecordInv
<1> QED BY <1>3, <1>4

\* The row read while the container's lock is held.
LEMMA LoadedLockedStep ==
  ASSUME IInv, NEW t \in Tasks, LoadedLocked(t)
  PROVE  IInv'
<1> USE DEF provider, UnderDbLock, Refreshing
<1>1. pc[t] = "loaded_locked" /\ UNCHANGED <<row, saved, provider, lost>>
  BY DEF LoadedLocked
<1>2. found[t] \in Auth /\ Recorded(found[t])
  BY <1>1 DEF IInv, TypeOK, RecordInv
<1>3. /\ cache' \in [Containers -> Auth]
      /\ \A c \in Containers : Recorded(cache[c])'
  <2>1. CASE found[t] = NoAuth
    BY <1>1, <2>1 DEF LoadedLocked, IInv, TypeOK, RecordInv, Recorded
  <2>2. CASE found[t] # NoAuth
    BY <1>1, <1>2, <2>2, CacheEffect DEF LoadedLocked, IInv
  <2> QED BY <2>1, <2>2
<1>4. CASE ShortCircuit(t, found[t])
  <2>1. found[t] # NoAuth /\ Refreshed(t, found[t])
    BY <1>4 DEF LoadedLocked, ShortCircuit
  <2> QED BY <1>1, <1>2, <1>3, <2>1, ReturnStep
<1>5. CASE ~ShortCircuit(t, found[t])
  <2>1. /\ pc' = [pc EXCEPT ![t] = "dbwait"]
        /\ found' = [found EXCEPT ![t] = NoAuth]
        /\ UNCHANGED <<refreshLock, dbLock, phase, token, presented>>
    BY <1>5 DEF LoadedLocked, Goto
  <2>2. TypeOK'
    BY <1>1, <1>3, <2>1 DEF IInv, TypeOK, Pc, Auth, NoAuth
  <2>3. Others(t) /\ presented'[t] = 0
    BY <1>1, <2>1 DEF IInv, TypeOK, Others, PresentedInv
  <2>4. Outside(t)
    BY <1>1, <2>1, <2>3 DEF IInv, TypeOK, Outside, Pc, WornInv, Worn
  <2> QED BY <1>1, <1>3, <2>1, <2>2, <2>3, <2>4, NotUnderLock, LeaveStep
          DEF IInv, PresentedInv, RecordInv
<1> QED BY <1>4, <1>5

\* A saved token is cached and returned.
LEMMA CacheSavedStep ==
  ASSUME IInv, NEW t \in Tasks, CacheSaved(t)
  PROVE  IInv'
<1>1. /\ found[t] \in Auth /\ Recorded(found[t]) /\ found[t] # NoAuth
      /\ pc[t] # "saving" /\ Cache(t, found[t]) /\ Refreshed(t, found[t])
      /\ UNCHANGED <<row, saved, provider, lost>>
  BY DEF CacheSaved, IInv, TypeOK, RecordInv
<1>2. /\ cache' \in [Containers -> Auth]
      /\ \A c \in Containers : Recorded(cache[c])'
  BY <1>1, CacheEffect DEF IInv
<1> QED BY <1>1, <1>2, ReturnStep

\* The second look finds a token somebody else has saved.
LEMMA AdoptRowStep ==
  ASSUME IInv, NEW t \in Tasks, AdoptRow(t)
  PROVE  IInv'
<1>1. /\ found[t] \in Auth /\ Recorded(found[t]) /\ found[t] # NoAuth
      /\ pc[t] = "decide" /\ Cache(t, found[t])
      /\ UNCHANGED <<row, saved, provider, lost>>
  BY DEF AdoptRow, AlreadyRefreshed, ShortCircuit, IInv, TypeOK, RecordInv
<1>2. /\ cache' \in [Containers -> Auth]
      /\ \A c \in Containers : Recorded(cache[c])'
  BY <1>1, CacheEffect DEF IInv
<1>3. CASE Refreshed(t, found[t])
  BY <1>1, <1>2, <1>3, ReturnStep
<1>4. CASE GiveUp(t)
  BY <1>1, <1>2, <1>4, GiveUpStep
     DEF provider, IInv, PresentedInv, RecordInv, TypeOK
<1> QED BY <1>3, <1>4 DEF AdoptRow

\* The other ends of a call: nothing to ask with, an exception, the request's
\* own answer.
LEMMA EndStep ==
  ASSUME IInv, NEW t \in Tasks, NothingToAsk(t) \/ Fails(t) \/ Answered(t)
  PROVE  IInv'
<1>1. GiveUp(t) /\ UNCHANGED <<row, cache, saved, issued, age, revoked, spent, again>>
  BY DEF NothingToAsk, Fails, Answered, provider
<1>2. AtStake(t) \subseteq Tokens
  BY DEF AtStake, IInv, TypeOK, Auth, Tokens
<1>3. /\ lost \subseteq lost' /\ lost' \subseteq Tokens
      /\ stray' \subseteq lost' /\ \A n \in stray' : n <= issued
      /\ dbLock = t /\ pc[t] = "saving" => presented[t] \in lost' \cup {0}
  <2>1. CASE NothingToAsk(t) \/ Answered(t)
    BY <2>1 DEF NothingToAsk, Answered, provider, IInv, PresentedInv, RecordInv,
                TypeOK
  <2>2. CASE Fails(t)
    <3>1. lost' = lost \cup AtStake(t) /\ lost' \subseteq Tokens
      BY <1>2, <2>2 DEF Fails, IInv, TypeOK
    <3>2. stray' \subseteq stray \cup {presented[t]}
          /\ (pc[t] = "asking" => presented[t] \in AtStake(t))
          /\ (pc[t] # "asking" => stray' = stray)
      BY <2>2 DEF Fails, AtStake, IInv, PresentedInv
    <3>3. pc[t] = "saving" => presented[t] \in AtStake(t) \cup {0}
      BY DEF AtStake
    <3> QED BY <3>1, <3>2, <3>3 DEF IInv, PresentedInv, RecordInv
  <2> QED BY <2>1, <2>2
<1>4. /\ cache' \in [Containers -> Auth]
      /\ \A c \in Containers : Recorded(cache[c])'
  BY <1>1 DEF IInv, TypeOK, RecordInv, Recorded
<1>5. again' \subseteq lost'
  BY <1>1, <1>3 DEF IInv
<1> QED BY <1>1, <1>3, <1>4, <1>5, GiveUpStep

\* The first 401 of a request.
LEMMA UnauthorizedStep ==
  ASSUME IInv, NEW t \in Tasks, Unauthorized(t)
  PROVE  IInv'
<1> USE DEF Unauthorized, Goto, store, provider, UnderDbLock, Refreshing
<1>1. TypeOK'
  BY DEF IInv, TypeOK, Pc, Phase
<1>2. Others(t) /\ presented'[t] = 0
  BY DEF IInv, TypeOK, Others, PresentedInv
<1>3. Outside(t)
  BY <1>2 DEF IInv, TypeOK, Outside, Pc, Good, Worn
<1>4. \A c \in Containers : Recorded(cache[c])'
  BY DEF IInv, RecordInv, Recorded
<1> QED BY <1>1, <1>2, <1>3, <1>4, NotUnderLock, LeaveStep
        DEF IInv, PresentedInv, RecordInv

-----------------------------------------------------------------------------
(* Steps inside the transaction of a refresh *)

\* The task that takes the advisory lock reads the row.
LEMMA TakeDbLockStep ==
  ASSUME IInv, NEW t \in Tasks, TakeDbLock(t)
  PROVE  IInv'
<1> USE ConstantsAssumption
    DEF TakeDbLock, DbLockFree, Goto, provider, UnderDbLock, Refreshing, IInv
<1>1. TypeOK'
  BY DEF TypeOK, Pc
<1>2. RecordInv'
  BY DEF TypeOK, RecordInv, Recorded
<1>3. HolderInv'
  BY DEF TypeOK, HolderInv
<1>4. SeveredInv'
  BY DEF TypeOK, SeveredInv
<1>5. PresentedInv'
  BY DEF TypeOK, PresentedInv
<1>6. UsableInv'
  BY DEF TypeOK, UsableInv
<1>7. WornInv'
  BY DEF TypeOK, WornInv, Worn
<1> QED BY <1>1, <1>2, <1>3, <1>4, <1>5, <1>6, <1>7

\* A task that asks presents the refresh token of the row, or what counts as
\* lost; and the access token of the row is worn.
LEMMA AskStep ==
  ASSUME IInv, NEW t \in Tasks, AskRefresh(t) \/ AskGrant(t)
  PROVE  IInv'
<1> USE ConstantsAssumption
    DEF AskRefresh, AskGrant, CanRefresh, RefreshTokenOf, Goto, store, provider,
        UnderDbLock, Refreshing, IInv
<1>1. TypeOK'
  BY DEF TypeOK, Pc, Auth
<1>2. RecordInv'
  BY DEF TypeOK, RecordInv, Recorded
<1>3. HolderInv'
  BY DEF TypeOK, HolderInv
<1>4. SeveredInv'
  BY DEF TypeOK, SeveredInv
<1>5. PresentedInv'
  BY DEF TypeOK, PresentedInv
<1>6. UsableInv'
  BY DEF TypeOK, UsableInv
<1>7. WornInv'
  <2>1. dbLock = t /\ row # NoAuth => Worn(row.access)
    <3> SUFFICES ASSUME dbLock = t, row # NoAuth
                 PROVE  Worn(row.access)
      OBVIOUS
    <3>1. found[t] = row /\ ~AlreadyRefreshed(t)
      BY DEF HolderInv
    <3>2. row.access = token[t] \/ Expired(row.access, phase[t] # "refused")
      BY <3>1 DEF AlreadyRefreshed, ShortCircuit
    <3>3. row.access # 0
      BY DEF RecordInv, Recorded, TypeOK, Tokens
    <3> QED BY <3>2, <3>3 DEF WornInv, Expired, Worn
  <2> QED BY <2>1 DEF TypeOK, WornInv, Worn
<1> QED BY <1>1, <1>2, <1>3, <1>4, <1>5, <1>6, <1>7

\* A grant, with or without a refresh token, reaches the task that asked.
LEMMA GrantStep ==
  ASSUME IInv, NEW t \in Tasks, NEW withRefresh \in BOOLEAN, Issue,
         pc[t] \in {"asking", "granting"}, pc' = [pc EXCEPT ![t] = "saving"],
         found' = [found EXCEPT ![t] =
                     Merged(issued + 1, withRefresh, found[t].refresh)],
         \/ /\ pc[t] = "granting" /\ UNCHANGED <<presented, spent>>
         \/ /\ pc[t] = "asking" /\ withRefresh
            /\ presented' = presented /\ spent' = spent \cup {presented[t]}
         \/ /\ pc[t] = "asking" /\ ~withRefresh
            /\ presented' = [presented EXCEPT ![t] = 0] /\ spent' = spent,
         UNCHANGED <<store, phase, token, age, revoked, stray, again, lost>>
  PROVE  IInv'
<1> USE ConstantsAssumption DEF Issue, store, UnderDbLock, Refreshing, IInv
<1>1. /\ issued \in Nat /\ issued' = issued + 1 /\ issued' \in Tokens
      /\ found[t] \in Auth
  BY DEF TypeOK, Tokens
<1>2. /\ found'[t] \in Auth /\ found'[t].access = issued'
      /\ \/ found'[t].refresh = issued'
         \/ found'[t].refresh = found[t].refresh /\ ~withRefresh
  BY <1>1 DEF Merged, Auth, TypeOK
<1>3. TypeOK'
  <2>1. found' \in [Tasks -> Auth]
    BY <1>2 DEF TypeOK
  <2>2. presented' \in [Tasks -> Tokens \cup {0}] /\ spent' \subseteq Tokens
    BY DEF TypeOK, PresentedInv
  <2> QED BY <1>1, <2>1, <2>2 DEF TypeOK, Pc, Tokens
<1>4. RecordInv'
  <2>1. \A u \in Tasks : u # t => found'[u] = found[u]
    BY DEF TypeOK
  <2>2. \A u \in Tasks : found'[u].access <= issued' /\ found'[u].refresh <= issued'
    BY <1>1, <1>2, <2>1 DEF RecordInv, TypeOK, Auth, Tokens
  <2>3. /\ \A u \in Tasks : presented'[u] <= issued'
        /\ \A n \in spent' \cup stray \cup saved : n <= issued'
    <3>1. /\ \A u \in Tasks : presented'[u] \in {0, presented[u]}
          /\ \A n \in spent' : n \in spent \/ n = presented[t]
      BY DEF TypeOK
    <3>2. /\ \A u \in Tasks : presented[u] \in Nat /\ presented[u] <= issued
          /\ \A n \in spent \cup stray \cup saved : n \in Nat /\ n <= issued
      BY DEF RecordInv, TypeOK, Tokens
    <3> QED BY <1>1, <3>1, <3>2
  <2>4. row.access <= issued' /\ row.refresh <= issued'
    BY <1>1 DEF RecordInv, TypeOK, Auth, Tokens
  <2>5. \A u \in Tasks :
          /\ pc'[u] \in {"loaded", "loaded_locked", "decide", "caching"}
               => Recorded(found[u])'
          /\ pc'[u] = "caching" => found'[u] # NoAuth
          /\ pc'[u] = "sending" => token'[u] \in saved
    BY <2>1 DEF RecordInv, Recorded, TypeOK
  <2> QED BY <2>2, <2>3, <2>4, <2>5 DEF RecordInv, Recorded
<1>5. HolderInv'
  <2>1. issued' \notin spent'
    BY <1>1 DEF TypeOK, RecordInv, PresentedInv, Tokens
  <2>2. dbLock = t => /\ found'[t].access > row.access
                      /\ found'[t].refresh = 0 => row.refresh = 0
                      /\ presented'[t] \in {0, row.refresh}
                      /\ found'[t].refresh \in spent' => found'[t].refresh \in lost
    <3> HAVE dbLock = t
    <3>1. found[t] = row /\ presented[t] \in {0, row.refresh}
      BY DEF HolderInv, PresentedInv
    <3>2. row.access < issued'
      BY <1>1 DEF RecordInv, TypeOK, Auth, Tokens
    <3>3. row.refresh \in spent => row.refresh \in lost
      BY DEF UsableInv
    <3>4. ~withRefresh => spent' = spent \/ pc[t] = "granting"
      OBVIOUS
    <3> QED BY <1>1, <1>2, <2>1, <3>1, <3>2, <3>3 DEF TypeOK
  <2>3. ASSUME NEW u \in Tasks, u # t, dbLock = u
        PROVE  /\ pc'[u] = pc[u] /\ found'[u] = found[u]
               /\ presented'[u] = presented[u]
               /\ \A n \in spent' : n \in spent \/ n \in lost
    BY <2>3 DEF SeveredInv, TypeOK
  <2>4. pc'[t] = "saving"
    BY DEF TypeOK
  <2> QED BY <2>2, <2>3, <2>4 DEF HolderInv
<1>6. SeveredInv'
  BY DEF TypeOK, SeveredInv
<1>7. PresentedInv'
  BY DEF TypeOK, PresentedInv
<1>8. UsableInv'
  <2>1. row.refresh \in spent' =>
          \/ row.refresh \in spent
          \/ /\ pc[t] = "asking" /\ withRefresh /\ row.refresh = presented[t]
    OBVIOUS
  <2>2. dbLock # t /\ pc[t] = "asking" => presented[t] \in lost
    BY DEF SeveredInv
  <2>3. pc'[t] = "saving" /\ \A u \in Tasks : u # t => pc'[u] = pc[u]
                                       /\ presented'[u] = presented[u]
    BY DEF TypeOK
  <2> QED BY <2>1, <2>2, <2>3 DEF UsableInv
<1>9. WornInv'
  BY DEF TypeOK, WornInv, Worn
<1> QED BY <1>3, <1>4, <1>5, <1>6, <1>7, <1>8, <1>9

LEMMA AnswerStep ==
  ASSUME IInv, NEW t \in Tasks, AnswerRefresh(t) \/ AnswerGrant(t)
  PROVE  IInv'
<1>1. CASE AnswerRefresh(t)
  <2>1. PICK withRefresh \in BOOLEAN :
          /\ Honour(presented[t], withRefresh)
          /\ found' = [found EXCEPT ![t] =
                         Merged(issued + 1, withRefresh, found[t].refresh)]
          /\ presented' = IF withRefresh THEN presented
                                         ELSE [presented EXCEPT ![t] = 0]
    BY <1>1 DEF AnswerRefresh
  <2> QED BY <1>1, <2>1, GrantStep DEF AnswerRefresh, Honour, Goto
<1>2. CASE AnswerGrant(t)
  BY <1>2, GrantStep DEF AnswerGrant, Goto
<1> QED BY <1>1, <1>2

\* No token from a request: the fallback, or the end of the refresh.
LEMMA FallBackStep ==
  ASSUME IInv, NEW t \in Tasks, Refuse(t) \/ NoAnswer(t)
  PROVE  IInv'
<1> USE DEF Refuse, NoAnswer, UnderDbLock, Refreshing
<1>1. /\ lost \subseteq lost' /\ lost' \subseteq Tokens
      /\ stray' \subseteq lost' /\ again' \subseteq lost'
      /\ \A n \in stray' : n <= issued
      /\ stray' \subseteq Tokens
  <2>1. presented[t] \in spent => presented[t] \in lost
    BY DEF IInv, TypeOK, Tokens, HolderInv, SeveredInv, PresentedInv, UsableInv
  <2> QED BY <2>1 DEF IInv, TypeOK, PresentedInv, RecordInv
<1>2. CASE pc[t] = "asking" /\ Credentials
  <2>1. /\ pc' = [pc EXCEPT ![t] = "granting"]
        /\ presented' = [presented EXCEPT ![t] = 0]
        /\ UNCHANGED <<refreshLock, dbLock, phase, token, found, row, cache,
                       saved, issued, age, revoked, spent>>
    BY <1>2 DEF FallBack, Goto
  <2>2. TypeOK'
    BY <1>1, <2>1 DEF IInv, TypeOK, Pc
  <2>3. RecordInv'
    BY <1>1, <2>1 DEF IInv, TypeOK, RecordInv, Recorded
  <2>4. HolderInv'
    BY <1>1, <1>2, <2>1 DEF IInv, TypeOK, HolderInv
  <2>5. SeveredInv'
    BY <1>1, <2>1 DEF IInv, TypeOK, SeveredInv
  <2>6. PresentedInv'
    BY <1>1, <2>1 DEF IInv, TypeOK, PresentedInv
  <2>7. UsableInv'
    BY <1>1, <1>2, <2>1 DEF IInv, TypeOK, UsableInv
  <2>8. WornInv'
    BY <1>2, <2>1 DEF IInv, TypeOK, WornInv, Worn
  <2> QED BY <1>1, <2>2, <2>3, <2>4, <2>5, <2>6, <2>7, <2>8 DEF IInv
<1>3. CASE ~(pc[t] = "asking" /\ Credentials)
  <2>1. /\ GiveUp(t) /\ pc[t] # "saving"
        /\ UNCHANGED <<row, cache, saved, issued, age, revoked, spent>>
    BY <1>3 DEF FallBack
  <2>2. /\ cache' \in [Containers -> Auth]
        /\ \A c \in Containers : Recorded(cache[c])'
    BY <2>1 DEF IInv, TypeOK, RecordInv, Recorded
  <2> QED BY <1>1, <2>1, <2>2, GiveUpStep
<1> QED BY <1>2, <1>3

\* The commit of the task with the lock.
LEMMA CommitStep ==
  ASSUME IInv, NEW t \in Tasks, Save(t) \/ SaveUnheard(t)
  PROVE  IInv'
<1> USE ConstantsAssumption DEF IInv, provider, UnderDbLock, Refreshing
<1>1. /\ pc[t] = "saving" /\ dbLock = t /\ row' = Upserted(found[t])
      /\ saved' = saved \cup {found[t].access}
      /\ UNCHANGED <<cache, provider, lost>>
  BY DEF Save, SaveUnheard, Commit
<1>2. /\ found[t] \in Auth /\ row \in Auth
      /\ found[t].access \in Nat /\ row.access \in Nat
      /\ found[t].access > row.access
      /\ found[t].refresh = 0 => row.refresh = 0
  BY <1>1 DEF TypeOK, HolderInv, Auth, Tokens
<1>3. /\ row' \in Auth /\ row'.access = found[t].access
      /\ row'.refresh = found[t].refresh
  BY <1>1, <1>2 DEF Upserted, Auth
<1>4. /\ dbLock' = NoTask
      /\ \A u \in Tasks : u # t => /\ pc'[u] = pc[u]
                                   /\ token'[u] = token[u]
                                   /\ found'[u] = found[u]
                                   /\ presented'[u] = presented[u]
      /\ \/ pc'[t] = "caching" /\ token'[t] = token[t] /\ found'[t] = found[t]
            /\ presented'[t] = presented[t]
         \/ pc'[t] = "idle" /\ found'[t] = NoAuth /\ presented'[t] = 0
  <2>1. CASE Save(t)
    BY <2>1 DEF Save, Goto, TypeOK
  <2>2. CASE SaveUnheard(t)
    BY <1>1, <2>2, GiveUpEffect DEF SaveUnheard, TypeOK
  <2> QED BY <2>1, <2>2
<1>5. found[t].access \in Tokens
  BY <1>2 DEF TypeOK, Auth, Tokens
<1>6. TypeOK'
  <2>1. CASE Save(t)
    BY <1>1, <1>3, <1>5, <2>1 DEF Save, Goto, TypeOK, Pc
  <2>2. CASE SaveUnheard(t)
    <3>1. GiveUp(t)
      BY <2>2 DEF SaveUnheard
    <3>2. /\ pc' = [pc EXCEPT ![t] = "idle"]
          /\ phase' \in [Tasks -> Phase]
          /\ token' = [token EXCEPT ![t] = 0]
          /\ found' = [found EXCEPT ![t] = NoAuth]
          /\ presented' = [presented EXCEPT ![t] = 0]
          /\ refreshLock' \in [Containers -> Tasks \cup {NoTask}]
          /\ dbLock' \in Tasks \cup {NoTask}
      BY <3>1, GiveUpEffect
    <3> QED BY <1>1, <1>3, <1>5, <3>2 DEF TypeOK, Pc, Auth, NoAuth
  <2> QED BY <2>1, <2>2
<1>7. RecordInv'
  <2>1. /\ Recorded(row)' /\ row'.refresh <= issued
        /\ \A c \in Containers : Recorded(cache[c])'
    BY <1>1, <1>3 DEF RecordInv, Recorded
  <2>2. found[t].access <= issued
    BY <1>1, <1>2 DEF RecordInv
  <2>3. \A u \in Tasks : /\ found'[u].access <= issued
                          /\ found'[u].refresh <= issued
                          /\ presented'[u] <= issued
    BY <1>4, <1>6 DEF RecordInv, NoAuth, TypeOK
  <2>4. \A u \in Tasks :
          /\ pc'[u] \in {"loaded", "loaded_locked", "decide", "caching"}
               => Recorded(found[u])'
          /\ pc'[u] = "caching" => found'[u] # NoAuth
          /\ pc'[u] = "sending" => token'[u] \in saved'
    BY <1>1, <1>2, <1>4 DEF RecordInv, Recorded, NoAuth
  <2> QED BY <1>1, <1>3, <2>1, <2>2, <2>3, <2>4 DEF RecordInv
<1>8. HolderInv'
  BY <1>4 DEF HolderInv
<1>9. SeveredInv'
  BY <1>1, <1>4 DEF SeveredInv
<1>10. PresentedInv'
  BY <1>1, <1>4 DEF PresentedInv
<1>11. UsableInv'
  <2> SUFFICES ASSUME row'.refresh \in spent, row'.refresh \notin lost
               PROVE  FALSE
    BY <1>1 DEF UsableInv
  <2>1. found[t].refresh \in spent => found[t].refresh \in lost
    BY <1>1 DEF HolderInv
  <2> QED BY <1>3, <2>1 DEF UsableInv
<1>12. WornInv'
  BY <1>1, <1>4 DEF WornInv, Worn
<1> QED BY <1>1, <1>6, <1>7, <1>8, <1>9, <1>10, <1>11, <1>12

-----------------------------------------------------------------------------
(* The environment *)

LEMMA LoseSessionStep ==
  ASSUME IInv, LoseSession
  PROVE  IInv'
<1> USE DEF LoseSession, task, provider, UnderDbLock, IInv
<1>1. dbLock \in Tasks /\ pc[dbLock] \in UnderDbLock /\ dbLock' = NoTask
  BY DEF TypeOK, HolderInv
<1>2. /\ lost \subseteq lost' /\ lost' \subseteq Tokens
      /\ pc[dbLock] = "decide" => found[dbLock].refresh \in lost' \cup {0}
      /\ pc[dbLock] # "decide" => presented[dbLock] \in lost' \cup {0}
  <2>1. lost' = lost \cup AtStake(dbLock)
    OBVIOUS
  <2>2. found[dbLock].refresh \in Tokens \cup {0} /\ presented[dbLock] \in Tokens \cup {0}
    BY <1>1 DEF TypeOK, Auth
  <2>3. lost \subseteq Tokens
    BY DEF TypeOK
  <2> QED BY <2>1, <2>2, <2>3 DEF AtStake
<1>3. TypeOK'
  BY <1>1, <1>2 DEF TypeOK
<1>4. RecordInv'
  BY DEF RecordInv, Recorded
<1>5. HolderInv'
  BY <1>1, ConstantsAssumption DEF HolderInv
<1>6. SeveredInv'
  BY <1>1, <1>2 DEF SeveredInv, PresentedInv
<1>7. PresentedInv'
  BY <1>2 DEF PresentedInv
<1>8. UsableInv'
  BY <1>1, <1>2 DEF UsableInv, TypeOK, Tokens
<1>9. WornInv' /\ again' \subseteq lost'
  BY <1>1, <1>2, ConstantsAssumption DEF WornInv, Worn, Refreshing
<1> QED BY <1>3, <1>4, <1>5, <1>6, <1>7, <1>8, <1>9

\* A request without a sender is honoured or refused: what it presents is lost.
LEMMA StrayStep ==
  ASSUME IInv, NEW r \in stray, HonourStray(r) \/ RefuseStray(r)
  PROVE  IInv'
<1> USE DEF store, task, IInv
<1>1. r \in lost /\ r \in Tokens /\ r <= issued
  BY DEF PresentedInv, TypeOK, RecordInv
<1>2. /\ UNCHANGED <<store, task, age, revoked, lost>>
      /\ stray' \subseteq stray /\ issued' \in 0..MaxTokens /\ issued' >= issued
      /\ spent' \subseteq spent \cup {r} /\ spent \subseteq spent'
      /\ again' \subseteq again \cup {r}
  BY ConstantsAssumption DEF HonourStray, RefuseStray, Honour, Issue, TypeOK
<1>3. TypeOK'
  BY <1>1, <1>2 DEF TypeOK
<1>4. RecordInv'
  <2>1. \A n \in spent' \cup stray' \cup saved : n \in Nat /\ n <= issued
    BY <1>1, <1>2 DEF RecordInv, TypeOK, Tokens
  <2>2. /\ row.access \in Nat /\ row.refresh \in Nat
        /\ \A t \in Tasks : /\ found[t].access \in Nat
                            /\ found[t].refresh \in Nat
                            /\ presented[t] \in Nat
    BY DEF TypeOK, Auth, Tokens
  <2>3. issued \in Nat /\ issued' \in Nat
    BY <1>2, ConstantsAssumption DEF TypeOK
  <2> QED BY <1>2, <2>1, <2>2, <2>3 DEF RecordInv, Recorded
<1>5. HolderInv'
  BY <1>1, <1>2 DEF HolderInv
<1>6. SeveredInv' /\ PresentedInv'
  BY <1>2 DEF SeveredInv, PresentedInv
<1>7. UsableInv'
  BY <1>1, <1>2 DEF UsableInv
<1>8. WornInv' /\ again' \subseteq lost'
  BY <1>1, <1>2 DEF WornInv, Worn
<1> QED BY <1>3, <1>4, <1>5, <1>6, <1>7, <1>8

\* Tokens only wear.
LEMMA WearStep ==
  ASSUME IInv, NEW n \in Tokens, Tick(n) \/ Revoke(n)
  PROVE  IInv'
<1> USE DEF Tick, Revoke, store, task, IInv
<1>1. TypeOK'
  BY DEF TypeOK
<1>2. RecordInv'
  BY DEF RecordInv, Recorded
<1>3. \A m \in Tokens : Worn(m) => Worn(m)'
  BY DEF Worn, TypeOK
<1>4. WornInv'
  BY <1>3 DEF WornInv, RecordInv, Recorded, TypeOK
<1>5. HolderInv' /\ SeveredInv' /\ PresentedInv' /\ UsableInv'
  BY DEF HolderInv, SeveredInv, PresentedInv, UsableInv
<1> QED BY <1>1, <1>2, <1>4, <1>5

\* A container stops: what its tasks had at stake is lost.
LEMMA CrashStep ==
  ASSUME IInv, NEW c \in Containers, Crash(c)
  PROVE  IInv'
<1> USE ConstantsAssumption DEF UnderDbLock, IInv
<1> DEFINE dead == {t \in Tasks : HomeOf[t] = c}
<1>1. /\ UNCHANGED <<row, saved, issued, age, revoked, spent, again>>
      /\ dbLock' = IF dbLock \in dead THEN NoTask ELSE dbLock
      /\ cache' \in [Containers -> Auth]
      /\ \A d \in Containers : cache'[d] = cache[d] \/ cache'[d] = NoAuth
      /\ refreshLock' \in [Containers -> Tasks \cup {NoTask}]
  BY DEF Crash, TypeOK, Auth, NoAuth
<1>2. \A t \in dead : /\ pc'[t] = "idle" /\ token'[t] = 0
                      /\ found'[t] = NoAuth /\ presented'[t] = 0
  BY DEF Crash
<1>3. \A t \in Tasks \ dead : /\ pc'[t] = pc[t] /\ token'[t] = token[t]
                              /\ found'[t] = found[t]
                              /\ presented'[t] = presented[t]
  BY DEF Crash
<1>4. /\ lost \subseteq lost' /\ lost' \subseteq Tokens
      /\ \A t \in dead : AtStake(t) \subseteq lost'
  <2>1. \A t \in Tasks : AtStake(t) \subseteq Tokens
    BY DEF AtStake, TypeOK, Auth, Tokens
  <2>2. lost' = lost \cup UNION {AtStake(t) : t \in dead}
    BY DEF Crash
  <2> QED BY <2>1, <2>2 DEF TypeOK
<1>5. /\ stray' \subseteq lost' /\ \A n \in stray' : n <= issued
      /\ stray' \subseteq Tokens
  <2>1. \A t \in dead : pc[t] = "asking" => /\ presented[t] \in AtStake(t)
                                           /\ presented[t] <= issued
    BY DEF AtStake, PresentedInv, RecordInv
  <2>2. \A n \in stray' :
          n \in stray \/ \E t \in dead : pc[t] = "asking" /\ n = presented[t]
    BY DEF Crash
  <2> QED BY <1>4, <2>1, <2>2 DEF PresentedInv, RecordInv
<1>6. TypeOK'
  BY <1>1, <1>4, <1>5 DEF Crash, TypeOK, Pc, Phase, Auth, NoAuth
<1>7. RecordInv'
  <2>1. \A t \in Tasks : /\ found'[t].access <= issued
                          /\ found'[t].refresh <= issued
                          /\ presented'[t] <= issued
    <3>1. \A t \in dead : /\ found'[t].access <= issued
                          /\ found'[t].refresh <= issued
                          /\ presented'[t] <= issued
      BY <1>2 DEF NoAuth, TypeOK
    <3>2. \A t \in Tasks \ dead : /\ found'[t].access <= issued
                                  /\ found'[t].refresh <= issued
                                  /\ presented'[t] <= issued
      BY <1>3 DEF RecordInv
    <3> QED BY <3>1, <3>2
  <2> QED BY <1>1, <1>2, <1>3, <1>5, <2>1 DEF RecordInv, Recorded
<1>8. HolderInv'
  BY <1>1, <1>3, <1>4 DEF HolderInv
<1>9. SeveredInv'
  BY <1>1, <1>2, <1>3, <1>4 DEF SeveredInv
<1>10. PresentedInv'
  BY <1>2, <1>3, <1>5 DEF PresentedInv
<1>11. UsableInv'
  <2>1. \A t \in dead : pc[t] = "saving" => presented[t] \in lost' \cup {0}
    BY <1>4 DEF AtStake
  <2>2. 0 \notin spent
    BY DEF TypeOK, Tokens
  <2> QED BY <1>1, <1>3, <1>4, <2>1, <2>2 DEF UsableInv
<1>12. WornInv'
  BY <1>1, <1>2, <1>3 DEF WornInv, Worn, Refreshing
<1>13. again' \subseteq lost'
  BY <1>1, <1>4
<1> QED BY <1>6, <1>7, <1>8, <1>9, <1>10, <1>11, <1>12, <1>13

-----------------------------------------------------------------------------
(* Theorems *)

LEMMA InitIInv == Init => IInv
<1> SUFFICES ASSUME Init PROVE IInv
  OBVIOUS
<1> USE ConstantsAssumption DEF Init
<1>1. TypeOK
  BY DEF TypeOK, Auth, NoAuth, Pc, Phase, Tokens
<1>2. RecordInv
  BY DEF RecordInv, Recorded, NoAuth
<1>3. HolderInv /\ SeveredInv /\ PresentedInv /\ UsableInv
  BY DEF HolderInv, SeveredInv, PresentedInv, UsableInv
<1>4. WornInv
  BY DEF WornInv, Refreshing, UnderDbLock
<1> QED BY <1>1, <1>2, <1>3, <1>4 DEF IInv

LEMMA StutterStep ==
  ASSUME IInv, UNCHANGED vars
  PROVE  IInv'
BY DEF vars, store, task, provider, IInv, TypeOK, RecordInv, Recorded, HolderInv,
       SeveredInv, PresentedInv, UsableInv, WornInv, Worn

LEMMA NextStep == IInv /\ [Next]_vars => IInv'
<1> SUFFICES ASSUME IInv, [Next]_vars PROVE IInv'
  OBVIOUS
<1>1. ASSUME NEW t \in Tasks, TaskStep(t)
      PROVE  IInv'
  <2>1. CASE Request(t)
    BY <2>1, GetHeadersStep, EndStep, UnauthorizedStep DEF Request
  <2>2. CASE Step(t)
    BY <2>2, LoadStep, LoadedStep, LoadedLockedStep, AdoptRowStep, AskStep,
       EndStep, CommitStep, CacheSavedStep, GetHeadersStep DEF Step
  <2>3. CASE TokenRequestEnds(t)
    BY <2>3, AnswerStep, FallBackStep DEF TokenRequestEnds
  <2>4. CASE TakeRefreshLock(t) \/ TakeDbLock(t)
    BY <2>4, TakeRefreshLockStep, TakeDbLockStep
  <2>5. CASE Fails(t)
    BY <2>5, EndStep
  <2> QED BY <1>1, <2>1, <2>2, <2>3, <2>4, <2>5 DEF TaskStep
<1>2. CASE Environment
  BY <1>2, LoseSessionStep, StrayStep, WearStep, CrashStep DEF Environment
<1>3. CASE UNCHANGED vars
  BY <1>3, StutterStep
<1> QED BY <1>1, <1>2, <1>3 DEF Next

\* The invariant the following theorems rest on holds in every state.
THEOREM Invariance == Spec => []IInv
BY InitIInv, NextStep, PTL DEF Spec

\* Every variable keeps its shape.
THEOREM TypeCorrect == Spec => []TypeOK
<1>1. IInv => TypeOK
  BY DEF IInv
<1> QED BY <1>1, Invariance, PTL

\* No refresh token is presented after it was spent, but for those whose refresh
\* was cut off.
THEOREM SpentOnce == Spec => []SpentAgainOnlyIfLost
<1>1. IInv => SpentAgainOnlyIfLost
  BY DEF IInv, SpentAgainOnlyIfLost
<1> QED BY <1>1, Invariance, PTL

\* Only an interruption leaves a spent refresh token in the row.
THEOREM Usable == Spec => []RowIsUsable
<1>1. IInv => RowIsUsable
  BY ConstantsAssumption DEF IInv, UsableInv, RowIsUsable
<1> QED BY <1>1, Invariance, PTL

\* The task with the advisory lock only asks for a token when the row's is worn.
THEOREM NotNeedless == Spec => []NoNeedlessRefresh
<1>1. IInv => NoNeedlessRefresh
  BY DEF IInv, WornInv, NoNeedlessRefresh
<1> QED BY <1>1, Invariance, PTL

\* What is cached or sent has been in the row.
THEOREM OnlySavedInUse == Spec => []InUseWasSaved
<1>1. IInv => InUseWasSaved
  BY DEF IInv, RecordInv, Recorded, InUseWasSaved
<1> QED BY <1>1, Invariance, PTL

\* Grants reach the row in the order they were made.
THEOREM Forward == Spec => RowMovesForward
<1>1. IInv /\ [Next]_vars => [row'.access >= row.access]_vars
  <2> SUFFICES ASSUME IInv, [Next]_vars PROVE row'.access >= row.access
    OBVIOUS
  <2>1. row.access \in Nat
    BY DEF IInv, TypeOK, Auth, Tokens
  <2>2. CASE row' = row
    BY <2>1, <2>2
  <2>3. ASSUME NEW t \in Tasks, Commit(t)
        PROVE  row'.access >= row.access
    <3>1. row'.access = found[t].access /\ found[t].access > row.access
      BY <2>3 DEF Commit, Upserted, IInv, HolderInv
    <3>2. found[t].access \in Nat
      BY DEF IInv, TypeOK, Auth, Tokens
    <3> QED BY <2>1, <3>1, <3>2
  <2>4. row' = row \/ \E t \in Tasks : Commit(t)
    BY DEF Next, TaskStep, Request, Step, TokenRequestEnds, Environment, Begin,
           Answered, Unauthorized, Load, Loaded, LoadLocked, LoadedLocked,
           AdoptRow, AskRefresh, AskGrant, NothingToAsk, Save, SaveUnheard,
           CacheSaved, Fails, Retry, AnswerRefresh, AnswerGrant, Refuse, NoAnswer,
           TakeRefreshLock, TakeDbLock, LoseSession, HonourStray, RefuseStray,
           Tick, Revoke, Crash, store, vars
  <2> QED BY <2>2, <2>3, <2>4
<1> QED BY <1>1, Invariance, PTL DEF Spec, RowMovesForward
=============================================================================
