----------------------------- MODULE TokenStore -----------------------------
(***************************************************************************)
(* The token store of the integrations: the access and refresh token of    *)
(* one provider, kept in a table and cached by every container (worker,    *)
(* API, direct runner).  Tasks ask for a valid token before a request and  *)
(* for another one when the request was answered with 401.  A refresh      *)
(* holds a lock of the container and an advisory lock of the database, and *)
(* presents the refresh token of the table, which the provider honours     *)
(* once.  Containers stop, database sessions break, answers are lost.      *)
(*                                                                         *)
(* Token n is the n-th grant of the provider: the access token n and, if   *)
(* the grant came with one, the refresh token n; 0 stands for None.        *)
(***************************************************************************)
EXTENDS Naturals

CONSTANTS
  Containers,    \* processes, each with a token_store of its own
  Tasks,         \* asyncio tasks that make requests
  HomeOf,        \* the container of each task
  NoTask,        \* nobody
  MaxTokens,     \* bound: grants the provider makes
  RefreshGrant,  \* SOS: a refresh token is presented first
  Credentials    \* authorization code or client credentials are configured

ASSUME ConstantsAssumption ==
  /\ HomeOf \in [Tasks -> Containers]
  /\ NoTask \notin Tasks
  /\ MaxTokens \in Nat
  /\ RefreshGrant \in BOOLEAN
  /\ Credentials \in BOOLEAN

VARIABLES
  row,           \* the AuthToken row
  cache,         \* _tokens of each container
  refreshLock,   \* holder of each container's asyncio lock
  dbLock,        \* holder of the transaction-level advisory lock
  pc,            \* the await each task is at
  phase,         \* the caller: get_headers, handle_unauthorized, get_headers
  token,         \* the access token a task has; expected_access_token
  found,         \* the record it read, then the one it is about to save
  presented,     \* the refresh token it presented and that may be spent
  issued,        \* grants made by the provider
  age,           \* where the clock is relative to expires_at
  revoked,       \* access tokens the provider refuses before they expire
  spent,         \* refresh tokens the provider has honoured and replaced
  stray,         \* refresh tokens under way whose sender no longer listens
  again,         \* history: refresh tokens presented after they were spent
  lost,          \* history: refresh tokens whose refresh was interrupted
  saved          \* history: access tokens that were in the row

store    == <<row, cache, refreshLock, dbLock, saved>>
task     == <<pc, phase, token, found, presented>>
provider == <<issued, age, revoked, spent, stray, again>>
vars     == <<store, task, provider, lost>>

Tokens == 1..MaxTokens
Auth   == [access : Tokens \cup {0}, refresh : Tokens \cup {0}]
NoAuth == [access |-> 0, refresh |-> 0]

\* Awaits of a task; those of a refresh; those inside session.begin().
UnderDbLock == {"decide", "asking", "granting", "saving"}
Refreshing  == UnderDbLock \cup {"queued", "load_locked", "loaded_locked",
                                 "dbwait", "caching"}
Pc          == Refreshing \cup {"idle", "load", "loaded", "sending", "retry"}
Phase       == {"first", "refused", "second"}

\* _is_expired: get_headers refreshes early (token_refresh_skew_seconds),
\* handle_unauthorized passes skew 0.
Expired(n, early) == \/ age[n] = "expired"
                     \/ age[n] = "aging" /\ early

Good(n) == age[n] # "expired" /\ n \notin revoked

Init ==
  /\ \/ /\ row = NoAuth
        /\ issued = 0
        /\ saved = {}
     \/ /\ row \in {[access |-> 1, refresh |-> 1], [access |-> 1, refresh |-> 0]}
        /\ MaxTokens > 0
        /\ issued = 1
        /\ saved = {1}
  /\ cache = [c \in Containers |-> NoAuth]
  /\ refreshLock = [c \in Containers |-> NoTask]
  /\ dbLock = NoTask
  /\ pc = [t \in Tasks |-> "idle"]
  /\ phase = [t \in Tasks |-> "first"]
  /\ token = [t \in Tasks |-> 0]
  /\ found = [t \in Tasks |-> NoAuth]
  /\ presented = [t \in Tasks |-> 0]
  /\ age = [n \in Tokens |-> "valid"]
  /\ revoked = {}
  /\ spent = {}
  /\ stray = {}
  /\ again = {}
  /\ lost = {}

-----------------------------------------------------------------------------
(* What several steps share *)

Goto(t, where) == pc' = [pc EXCEPT ![t] = where]

Cache(t, rec) == cache' = [cache EXCEPT ![HomeOf[t]] = rec]

\* Mutant of LetGo: an early return leaves the container's lock taken.
LetGoOfSession(t) ==
  /\ dbLock' = IF dbLock = t THEN NoTask ELSE dbLock
  /\ UNCHANGED refreshLock

\* Leaving `async with' gives back whatever the task still holds.
LetGo(t) ==
  /\ refreshLock' = [c \in Containers |->
                       IF refreshLock[c] = t THEN NoTask ELSE refreshLock[c]]
  /\ dbLock' = IF dbLock = t THEN NoTask ELSE dbLock

\* The refresh tokens that t has presented, or is going to present.
AtStake(t) == (IF pc[t] = "decide" THEN {found[t].refresh} ELSE {presented[t]})
                \ {0}

Forget(t) ==
  /\ phase' = [phase EXCEPT ![t] = "first"]
  /\ token' = [token EXCEPT ![t] = 0]
  /\ found' = [found EXCEPT ![t] = NoAuth]
  /\ presented' = [presented EXCEPT ![t] = 0]

\* The call ends without a token: an exception, or None and then RuntimeError
\* or the 401 itself.
GiveUp(t) ==
  /\ Goto(t, "idle")
  /\ LetGo(t)
  /\ Forget(t)

\* force_refresh returns a record: get_headers uses it, handle_unauthorized only
\* reports success and the request loop calls get_headers again.
Refreshed(t, rec) ==
  /\ IF phase[t] = "refused"
     THEN Goto(t, "retry") /\ UNCHANGED token
     ELSE Goto(t, "sending") /\ token' = [token EXCEPT ![t] = rec.access]
  /\ LetGo(t)
  /\ found' = [found EXCEPT ![t] = NoAuth]
  /\ presented' = [presented EXCEPT ![t] = 0]
  /\ UNCHANGED phase

\* _short_circuit_if_already_refreshed: somebody else has refreshed.
ShortCircuit(t, rec) ==
  /\ rec # NoAuth
  /\ rec.access # token[t]
  /\ ~Expired(rec.access, phase[t] # "refused")

-----------------------------------------------------------------------------
(* get_valid_access_token *)

\* What a record read by get() leads to.
Checked(t, rec) ==
  /\ token' = [token EXCEPT ![t] = rec.access]
  /\ IF rec # NoAuth /\ ~Expired(rec.access, TRUE)
     THEN Goto(t, "sending") ELSE Goto(t, "queued")

GetHeaders(t) ==
  IF cache[HomeOf[t]] # NoAuth
  THEN Checked(t, cache[HomeOf[t]])
  ELSE Goto(t, "load") /\ UNCHANGED token

\* A request, or the warm-up on startup, needs a token.
Begin(t) ==
  /\ pc[t] = "idle"
  /\ GetHeaders(t)
  /\ UNCHANGED <<store, phase, found, presented, provider, lost>>

\* get_auth_token_from_db without a lock ...
Load(t) ==
  /\ pc[t] = "load"
  /\ found' = [found EXCEPT ![t] = row]
  /\ Goto(t, "loaded")
  /\ UNCHANGED <<store, phase, token, presented, provider, lost>>

\* ... whose result is cached when the task resumes, whatever is cached by then.
Loaded(t) ==
  /\ pc[t] = "loaded"
  /\ IF found[t] = NoAuth THEN UNCHANGED cache ELSE Cache(t, found[t])
  /\ Checked(t, found[t])
  /\ found' = [found EXCEPT ![t] = NoAuth]
  /\ UNCHANGED <<row, refreshLock, dbLock, saved, phase, presented, provider,
                 lost>>

-----------------------------------------------------------------------------
(* force_refresh *)

\* The container's lock is taken; get() and the first look at what it returns.
TakeRefreshLock(t) ==
  LET c == HomeOf[t] IN
  /\ pc[t] = "queued"
  /\ refreshLock[c] = NoTask
  /\ \/ /\ cache[c] # NoAuth
        /\ ShortCircuit(t, cache[c])
        /\ Refreshed(t, cache[c])
     \/ /\ ~ShortCircuit(t, cache[c])
        /\ Goto(t, IF cache[c] = NoAuth THEN "load_locked" ELSE "dbwait")
        /\ refreshLock' = [refreshLock EXCEPT ![c] = t]
        /\ UNCHANGED <<dbLock, phase, token, found, presented>>
  /\ UNCHANGED <<row, cache, saved, provider, lost>>

LoadLocked(t) ==
  /\ pc[t] = "load_locked"
  /\ found' = [found EXCEPT ![t] = row]
  /\ Goto(t, "loaded_locked")
  /\ UNCHANGED <<store, phase, token, presented, provider, lost>>

LoadedLocked(t) ==
  /\ pc[t] = "loaded_locked"
  /\ IF found[t] = NoAuth THEN UNCHANGED cache ELSE Cache(t, found[t])
  /\ \/ /\ ShortCircuit(t, found[t])
        /\ Refreshed(t, found[t])
     \/ /\ ~ShortCircuit(t, found[t])
        /\ Goto(t, "dbwait")
        /\ found' = [found EXCEPT ![t] = NoAuth]
        /\ UNCHANGED <<refreshLock, dbLock, phase, token, presented>>
  /\ UNCHANGED <<row, saved, provider, lost>>

\* Mutant of DbLockFree: the advisory lock is left out.
NotLocked == TRUE

\* pg_advisory_xact_lock of another session makes the statement wait.
DbLockFree == dbLock = NoTask

\* _acquire_provider_db_lock, then the row is read in the same transaction.
TakeDbLock(t) ==
  /\ pc[t] = "dbwait"
  /\ DbLockFree
  /\ dbLock' = t
  /\ found' = [found EXCEPT ![t] = row]
  /\ Goto(t, "decide")
  /\ UNCHANGED <<row, cache, refreshLock, saved, phase, token, presented,
                 provider, lost>>

\* Mutant of AlreadyRefreshed: the row is not looked at again.
NeverRefreshed(t) == FALSE

\* The second look, at the row.  The record is cached before the transaction
\* ends, which may fail.
AlreadyRefreshed(t) == ShortCircuit(t, found[t])

AdoptRow(t) ==
  /\ pc[t] = "decide"
  /\ AlreadyRefreshed(t)
  /\ Cache(t, found[t])
  /\ (dbLock = t /\ Refreshed(t, found[t])) \/ GiveUp(t)
  /\ UNCHANGED <<row, saved, provider, lost>>

\* Mutant of RefreshTokenOf: the cached record is presented.
CachedRefreshToken(t) == cache[HomeOf[t]].refresh

\* `current' of the refresh is the row just read, not the cached record.
RefreshTokenOf(t) == found[t].refresh

\* Mutant of CanRefresh: an empty refresh token is presented too.
CanRefreshAlways(t) == RefreshGrant

CanRefresh(t) == RefreshGrant /\ RefreshTokenOf(t) # 0

\* The request of the refresh token grant leaves.
AskRefresh(t) ==
  /\ pc[t] = "decide"
  /\ ~AlreadyRefreshed(t)
  /\ CanRefresh(t)
  /\ presented' = [presented EXCEPT ![t] = RefreshTokenOf(t)]
  /\ Goto(t, "asking")
  /\ UNCHANGED <<store, phase, token, found, provider, lost>>

\* No refresh token to present: authorization code or client credentials.
AskGrant(t) ==
  /\ pc[t] = "decide"
  /\ ~AlreadyRefreshed(t)
  /\ ~CanRefresh(t)
  /\ Credentials
  /\ Goto(t, "granting")
  /\ UNCHANGED <<store, phase, token, found, presented, provider, lost>>

\* Neither: refresh_provider_token returns None.
NothingToAsk(t) ==
  /\ pc[t] = "decide"
  /\ ~AlreadyRefreshed(t)
  /\ ~CanRefresh(t)
  /\ ~Credentials
  /\ GiveUp(t)
  /\ UNCHANGED <<row, cache, saved, provider, lost>>

-----------------------------------------------------------------------------
(* The provider (external) and its answers *)

\* merged_refresh_token
Merged(n, withRefresh, old) ==
  [access |-> n, refresh |-> IF withRefresh THEN n ELSE old]

Issue ==
  /\ issued < MaxTokens
  /\ issued' = issued + 1

\* The provider honours refresh token r: with a new one, r is spent.
Honour(r, withRefresh) ==
  /\ r \notin spent
  /\ Issue
  /\ spent' = IF withRefresh THEN spent \cup {r} ELSE spent
  /\ UNCHANGED <<age, revoked, again>>

\* The answer to a refresh arrives.
AnswerRefresh(t) ==
  /\ pc[t] = "asking"
  /\ \E withRefresh \in BOOLEAN :
       /\ Honour(presented[t], withRefresh)
       /\ found' = [found EXCEPT ![t] =
                      Merged(issued + 1, withRefresh, found[t].refresh)]
       /\ presented' = IF withRefresh THEN presented
                                      ELSE [presented EXCEPT ![t] = 0]
  /\ Goto(t, "saving")
  /\ UNCHANGED <<store, phase, token, stray, lost>>

AnswerGrant(t) ==
  /\ pc[t] = "granting"
  /\ Issue
  /\ \E withRefresh \in BOOLEAN :
       found' = [found EXCEPT ![t] =
                   Merged(issued + 1, withRefresh, found[t].refresh)]
  /\ Goto(t, "saving")
  /\ UNCHANGED <<store, phase, token, presented, age, revoked, spent, stray,
                 again, lost>>

\* A failed refresh falls back on the authorization code, if there is one; a
\* failed grant, or a refresh without fallback, ends with None.
FallBack(t) ==
  IF pc[t] = "asking" /\ Credentials
  THEN /\ Goto(t, "granting")
       /\ UNCHANGED <<refreshLock, dbLock, phase, token, found>>
       /\ presented' = [presented EXCEPT ![t] = 0]
  ELSE GiveUp(t)

\* An error status.  The provider always refuses a spent refresh token.
Refuse(t) ==
  /\ pc[t] \in {"asking", "granting"}
  /\ again' = IF presented[t] \in spent THEN again \cup {presented[t]} ELSE again
  /\ FallBack(t)
  /\ UNCHANGED <<row, cache, saved, issued, age, revoked, spent, stray, lost>>

\* The request times out or its connection breaks; the provider may still get
\* it.  The same holds for an answer that is not JSON or lacks an access token.
NoAnswer(t) ==
  /\ pc[t] \in {"asking", "granting"}
  /\ stray' = stray \cup ({presented[t]} \ {0})
  /\ lost' = lost \cup ({presented[t]} \ {0})
  /\ FallBack(t)
  /\ UNCHANGED <<row, cache, saved, issued, age, revoked, spent, again>>

\* A request nobody waits for reaches the provider, or never does.
HonourStray(r) ==
  /\ r \in stray
  /\ stray' = stray \ {r}
  /\ \E withRefresh \in BOOLEAN : Honour(r, withRefresh)
  /\ UNCHANGED <<store, task, lost>>

RefuseStray(r) ==
  /\ r \in stray
  /\ stray' = stray \ {r}
  /\ again' = IF r \in spent THEN again \cup {r} ELSE again
  /\ UNCHANGED <<store, task, issued, age, revoked, spent, lost>>

-----------------------------------------------------------------------------
(* The new token is saved, then cached *)

\* Mutant of Upserted: the row keeps its refresh token.
UpsertedKeepingRefresh(rec) ==
  [access |-> rec.access,
   refresh |-> IF row.refresh # 0 THEN row.refresh ELSE rec.refresh]

\* _upsert_auth_token_in_session: a record without refresh token keeps the row's.
Upserted(rec) ==
  [access |-> rec.access,
   refresh |-> IF rec.refresh # 0 THEN rec.refresh ELSE row.refresh]

\* Mutant of Commit: the row is written in a session of its own.
CommitElsewhere(t) ==
  /\ pc[t] = "saving"
  /\ row' = Upserted(found[t])
  /\ saved' = saved \cup {found[t].access}

\* The transaction can only commit on the session that has the lock.
Commit(t) ==
  /\ pc[t] = "saving"
  /\ dbLock = t
  /\ row' = Upserted(found[t])
  /\ saved' = saved \cup {found[t].access}

Save(t) ==
  /\ Commit(t)
  /\ dbLock' = NoTask
  /\ Goto(t, "caching")
  /\ UNCHANGED <<cache, refreshLock, phase, token, found, presented, provider,
                 lost>>

\* The commit takes effect and its acknowledgement is lost: None is returned.
SaveUnheard(t) ==
  /\ Commit(t)
  /\ GiveUp(t)
  /\ UNCHANGED <<cache, provider, lost>>

CacheSaved(t) ==
  /\ pc[t] = "caching"
  /\ Cache(t, found[t])
  /\ Refreshed(t, found[t])
  /\ UNCHANGED <<row, saved, provider, lost>>

\* Mutant of Fails: the record is cached although it was not saved.
FailsCaching(t) ==
  /\ pc[t] \in UnderDbLock \cup {"load", "load_locked", "dbwait"}
  /\ lost' = lost \cup AtStake(t)
  /\ IF pc[t] = "saving" THEN Cache(t, found[t]) ELSE UNCHANGED cache
  /\ GiveUp(t)
  /\ UNCHANGED <<row, saved, provider>>

\* A database statement or the commit fails, or the caller is cancelled: the
\* locks are given back and nothing is saved.
Fails(t) ==
  /\ pc[t] \in UnderDbLock \cup {"load", "load_locked", "dbwait"}
  /\ lost' = lost \cup AtStake(t)
  /\ stray' = IF pc[t] = "asking" THEN stray \cup {presented[t]} ELSE stray
  /\ GiveUp(t)
  /\ UNCHANGED <<row, cache, saved, issued, age, revoked, spent, again>>

-----------------------------------------------------------------------------
(* The request the token is for *)

\* Any answer but 401, or the end of the request's own attempts.
Answered(t) ==
  /\ pc[t] = "sending"
  /\ GiveUp(t)
  /\ UNCHANGED <<row, cache, saved, provider, lost>>

\* The first 401 of a request: handle_unauthorized.
Unauthorized(t) ==
  /\ pc[t] = "sending"
  /\ ~Good(token[t])
  /\ phase[t] = "first"
  /\ phase' = [phase EXCEPT ![t] = "refused"]
  /\ Goto(t, "queued")
  /\ UNCHANGED <<store, token, found, presented, provider, lost>>

\* The loop goes round once more after handle_unauthorized.
Retry(t) ==
  /\ pc[t] = "retry"
  /\ phase' = [phase EXCEPT ![t] = "second"]
  /\ GetHeaders(t)
  /\ UNCHANGED <<store, found, presented, provider, lost>>

-----------------------------------------------------------------------------
(* Time, the provider's own decisions, and failures *)

Tick(n) ==
  /\ n <= issued
  /\ age[n] # "expired"
  /\ age' = [age EXCEPT ![n] = IF @ = "valid" THEN "aging" ELSE "expired"]
  /\ UNCHANGED <<store, task, issued, revoked, spent, stray, again, lost>>

Revoke(n) ==
  /\ n <= issued
  /\ Good(n)
  /\ revoked' = revoked \cup {n}
  /\ UNCHANGED <<store, task, issued, age, spent, stray, again, lost>>

\* The session with the advisory lock breaks and the database frees the lock; the
\* task notices at its next statement, after the provider's answer.
LoseSession ==
  /\ dbLock # NoTask
  /\ dbLock' = NoTask
  /\ lost' = lost \cup AtStake(dbLock)
  /\ UNCHANGED <<row, cache, refreshLock, saved, task, provider>>

\* A container stops with all its tasks, and starts again with an empty cache.
Crash(c) ==
  LET dead == {t \in Tasks : HomeOf[t] = c} IN
  /\ cache' = [cache EXCEPT ![c] = NoAuth]
  /\ refreshLock' = [refreshLock EXCEPT ![c] = NoTask]
  /\ dbLock' = IF dbLock \in dead THEN NoTask ELSE dbLock
  /\ pc' = [t \in Tasks |-> IF t \in dead THEN "idle" ELSE pc[t]]
  /\ phase' = [t \in Tasks |-> IF t \in dead THEN "first" ELSE phase[t]]
  /\ token' = [t \in Tasks |-> IF t \in dead THEN 0 ELSE token[t]]
  /\ found' = [t \in Tasks |-> IF t \in dead THEN NoAuth ELSE found[t]]
  /\ presented' = [t \in Tasks |-> IF t \in dead THEN 0 ELSE presented[t]]
  /\ lost' = lost \cup UNION {AtStake(t) : t \in dead}
  /\ stray' = stray \cup {presented[t] : t \in {u \in dead : pc[u] = "asking"}}
  /\ UNCHANGED <<row, saved, issued, age, revoked, spent, again>>

-----------------------------------------------------------------------------
\* Steps a task takes without waiting for anybody but the database.
Step(t) ==
  \/ Load(t) \/ Loaded(t) \/ LoadLocked(t) \/ LoadedLocked(t)
  \/ AdoptRow(t) \/ AskRefresh(t) \/ AskGrant(t) \/ NothingToAsk(t)
  \/ Save(t) \/ SaveUnheard(t) \/ CacheSaved(t) \/ Retry(t)

\* How a request to the provider ends, its timeout included.
TokenRequestEnds(t) ==
  AnswerRefresh(t) \/ AnswerGrant(t) \/ Refuse(t) \/ NoAnswer(t)

Request(t) == Begin(t) \/ Answered(t) \/ Unauthorized(t)

TaskStep(t) == \/ Request(t) \/ Step(t) \/ TokenRequestEnds(t) \/ Fails(t)
               \/ TakeRefreshLock(t) \/ TakeDbLock(t)

Environment ==
  \/ LoseSession
  \/ \E r \in stray : HonourStray(r) \/ RefuseStray(r)
  \/ \E n \in Tokens : Tick(n) \/ Revoke(n)
  \/ \E c \in Containers : Crash(c)

Next == (\E t \in Tasks : TaskStep(t)) \/ Environment

Spec == Init /\ [][Next]_vars

\* The event loop and the database make progress, a token request has a timeout
\* (http_timeout_seconds), and both locks are first come, first served.  A
\* statement need not fail, except one on a session that is already broken.
Fairness ==
  \A t \in Tasks : /\ WF_vars(Step(t) \/ (pc[t] = "saving" /\ Fails(t)))
                   /\ WF_vars(TokenRequestEnds(t))
                   /\ SF_vars(TakeRefreshLock(t))
                   /\ SF_vars(TakeDbLock(t))

FairSpec == Spec /\ Fairness

-----------------------------------------------------------------------------
TypeOK ==
  /\ row \in Auth
  /\ cache \in [Containers -> Auth]
  /\ refreshLock \in [Containers -> Tasks \cup {NoTask}]
  /\ dbLock \in Tasks \cup {NoTask}
  /\ saved \subseteq Tokens
  /\ pc \in [Tasks -> Pc]
  /\ phase \in [Tasks -> Phase]
  /\ token \in [Tasks -> Tokens \cup {0}]
  /\ found \in [Tasks -> Auth]
  /\ presented \in [Tasks -> Tokens \cup {0}]
  /\ issued \in 0..MaxTokens
  /\ age \in [Tokens -> {"valid", "aging", "expired"}]
  /\ revoked \subseteq Tokens
  /\ spent \subseteq Tokens
  /\ stray \subseteq Tokens
  /\ again \subseteq Tokens
  /\ lost \subseteq Tokens

-----------------------------------------------------------------------------
(* The inductive invariant *)

Recorded(rec) == rec = NoAuth \/ rec.access \in saved

\* Everything that is referred to has been issued; records are saved ones, but
\* for the one a task is about to save.
RecordInv ==
  /\ Recorded(row)
  /\ \A c \in Containers : Recorded(cache[c])
  /\ \A t \in Tasks :
       /\ pc[t] \in {"loaded", "loaded_locked", "decide", "caching"}
            => Recorded(found[t])
       /\ pc[t] = "caching" => found[t] # NoAuth
       /\ pc[t] = "sending" => token[t] \in saved
  /\ row.access <= issued /\ row.refresh <= issued
  /\ \A t \in Tasks : /\ found[t].access <= issued
                      /\ found[t].refresh <= issued
                      /\ presented[t] <= issued
  /\ \A n \in spent \cup stray \cup saved : n <= issued

\* The task with the advisory lock knows the row, and what it is about to save
\* is newer and can be used.
HolderInv ==
  \A t \in Tasks : dbLock = t =>
    /\ pc[t] \in UnderDbLock
    /\ pc[t] # "saving" => found[t] = row
    /\ pc[t] \in {"asking", "saving"} => presented[t] \in {0, row.refresh}
    /\ pc[t] = "saving" =>
         /\ found[t].access > row.access
         /\ found[t].refresh = 0 => row.refresh = 0
         /\ found[t].refresh \in spent => found[t].refresh \in lost

\* A task that lost the lock can only present what counts as lost.
SeveredInv ==
  \A t \in Tasks : dbLock # t =>
    /\ pc[t] = "decide" => found[t].refresh \in lost \cup {0}
    /\ pc[t] = "asking" => presented[t] \in lost

PresentedInv ==
  /\ stray \subseteq lost
  /\ \A t \in Tasks :
       /\ presented[t] # 0 => pc[t] \in {"asking", "saving", "caching"}
       /\ pc[t] = "asking" => presented[t] # 0

UsableInv ==
  row.refresh \in spent =>
    \/ row.refresh \in lost
    \/ \E t \in Tasks : /\ dbLock = t
                        /\ pc[t] = "saving"
                        /\ presented[t] = row.refresh

\* What a task wants to replace is old or was refused, and so is what it asks to
\* replace.
Worn(n)  == age[n] # "valid" \/ n \in revoked
WornInv ==
  \A t \in Tasks :
    /\ pc[t] \in Refreshing /\ token[t] # 0 => Worn(token[t])
    /\ pc[t] \in {"asking", "granting"} /\ dbLock = t /\ row # NoAuth
         => Worn(row.access)

IInv == /\ TypeOK /\ RecordInv /\ HolderInv /\ SeveredInv /\ PresentedInv
        /\ UsableInv /\ WornInv /\ again \subseteq lost

-----------------------------------------------------------------------------
(* Properties *)

\* No container presents a refresh token that was spent already, unless the
\* refresh that spent it was cut off (answer lost, session lost, commit failed,
\* container stopped): the two locks and the second look at the row serialise
\* every refresh with the save of the one before.
SpentAgainOnlyIfLost == again \subseteq lost

\* The refresh token in the row can still be used, unless a refresh that was cut
\* off spent it or the task with the lock is about to replace it: only an
\* interruption makes the provider's authorisation unusable.
RowIsUsable ==
  row.refresh \in spent =>
    \/ row.refresh \in lost
    \/ dbLock # NoTask /\ presented[dbLock] = row.refresh

\* Whoever asks the provider while it has the lock does so because the token of
\* the row is old or was refused: a 401 or an expiry seen by many tasks in many
\* containers leads to one refresh.
NoNeedlessRefresh ==
  \A t \in Tasks :
    /\ pc[t] \in {"asking", "granting"}
    /\ dbLock = t
    /\ row # NoAuth
    => Worn(row.access)

\* A token is only cached or sent once it is saved: no container goes on with a
\* token that the others cannot find.
InUseWasSaved ==
  /\ \A c \in Containers : cache[c] # NoAuth => cache[c].access \in saved
  /\ \A t \in Tasks : pc[t] = "sending" => token[t] \in saved

\* The row is never overwritten with an older grant, by a task whose session
\* broke while it waited for the provider or by any other.
RowMovesForward == [][row'.access >= row.access]_vars

\* A refresh comes to an end, with a token or without, however many tasks and
\* containers want one and whatever fails in between: nobody waits for a lock for
\* ever.
RefreshEnds ==
  \A t \in Tasks : (pc[t] \in Refreshing) ~> (pc[t] \notin Refreshing)

\* "Recovered from unauthorized response; retrying" (base_client.py): the request
\* is sent again with another token than the one that was refused.
RecoveryChangesToken ==
  [][\A t \in Tasks : pc[t] = "retry" /\ pc'[t] = "sending"
                       => token'[t] # token[t]]_vars
=============================================================================
