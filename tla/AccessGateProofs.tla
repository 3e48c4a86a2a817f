-------------------------- MODULE AccessGateProofs --------------------------
(***************************************************************************)
(* The allow-list served by ActiveUsersCache, for any users, requests and  *)
(* times: a refresh is a Ttl after the one before it, and the list a       *)
(* request is let through with is no older than one Ttl and one query.     *)
(* The login limiter under the same clock: no window holds more attempts   *)
(* than RateMax, because the deque is the passed attempts, oldest first.   *)
(***************************************************************************)
EXTENDS AccessGate, FoldLemmas, TLAPS

Phases == {"new", "down", "idle", "queued", "fetching", "admitted", "done"}
Lists == (SUBSET Users) \cup {None}

CacheTypeOK ==
    /\ now \in Nat
    /\ active \in SUBSET Users
    /\ since \in [Users -> Nat]
    /\ \A u \in Users : since[u] <= now
    /\ override \in Overrides
    /\ cached \in Lists
    /\ cachedAt \in Nat /\ cachedAt <= now
    /\ waiting \in Seq(Requests)
    /\ phase \in [Tasks -> Phases]
    /\ fetch \in [Tasks -> [at : Nat, ids : Lists]]
    /\ allow \in [Requests -> Lists]
    /\ failed \in [Requests -> BOOLEAN]

Querying(t) == phase[t] = "fetching"

(* At most one query of the bot is under way, the one at startup included.  *)
OneQuery == \A s, t \in Tasks : Querying(s) /\ Querying(t) => s = t

(* No request is served before _prime_users_cache has returned.             *)
ServedAfterPrime ==
    phase[Startup] # "done" =>
        /\ \A r \in Requests : phase[r] = "down"
        /\ waiting = <<>>
        /\ cached = None

(* Two lists that differ at most on users that changed from a moment on.    *)
AgreeBefore(ids, t) == \A u \in Users : since[u] < t => (u \in ids <=> u \in active)

(* A query is sent when the list has expired, ends within its timeout, and  *)
(* its answer is the bot's users at some moment after it was sent.          *)
QuerySound ==
    \A t \in Tasks : Querying(t) =>
        /\ override = None
        /\ fetch[t].at <= now /\ now <= fetch[t].at + HttpTimeout
        /\ cached # None => fetch[t].at - cachedAt >= Ttl
        /\ fetch[t].ids # None => AgreeBefore(fetch[t].ids, fetch[t].at)

(* The list kept is the override, or the bot's users of at most one query   *)
(* before it was stored.                                                    *)
ListKept ==
    cached # None =>
        /\ override # None => cached = override
        /\ override = None =>
             \A u \in Users : since[u] + HttpTimeout < cachedAt =>
                 (u \in cached <=> u \in active)

CacheInv == CacheTypeOK /\ OneQuery /\ ServedAfterPrime /\ QuerySound /\ ListKept

-----------------------------------------------------------------------------
(* The steps of the cache, one at a time.                                   *)

LEMMA CacheInitHolds == Init => CacheInv
  BY CacheAssumption DEF Init, CacheInit, CacheInv, CacheTypeOK, OneQuery,
     ServedAfterPrime, QuerySound, ListKept, Querying, Lists, Phases, Tasks, NoFetch

(* What a step owes: the invariant, and the two action properties.          *)
AdmittedFresh(r) ==
    Admitted(r) =>
         /\ cached # None \/ ~failed'[r] => allow'[r] # None
         /\ override # None => allow'[r] = override
         /\ override = None /\ ~failed'[r] =>
              \A u \in Users : Settled(u) => (u \in allow'[r] <=> u \in active)

Apart == cachedAt' # cachedAt /\ cached # None => cachedAt' - cachedAt >= Ttl

Owed == CacheInv' /\ (\A r \in Requests : AdmittedFresh(r)) /\ Apart

LEMMA PrimeStep == ASSUME CacheInv, Prime, Same PROVE Owed
<1> USE DEF Querying, Same, Serve
<1>1. /\ phase[Startup] = "new" /\ Startup \in Tasks /\ cached = None
      /\ \A r \in Requests : phase[r] = "down" /\ phase'[r] # "admitted"
      /\ \A t \in Tasks : ~Querying(t)
      /\ UNCHANGED <<now, active, since, override, waiting, allow, failed>>
  BY CacheAssumption DEF Prime, AskBot, CacheInv, CacheTypeOK, ServedAfterPrime, Tasks, bot
<1>2. CASE override = None
  <2>1. /\ phase' = [phase EXCEPT ![Startup] = "fetching"]
        /\ fetch' = [fetch EXCEPT ![Startup] = [at |-> now, ids |-> None]]
        /\ UNCHANGED <<cached, cachedAt>>
    BY <1>2 DEF Prime, AskBot, cache
  <2>2. CacheTypeOK'
    BY <1>1, <2>1 DEF CacheInv, CacheTypeOK, Lists, Phases
  <2>3. OneQuery' /\ ServedAfterPrime' /\ ListKept'
    BY <1>1, <2>1, CacheAssumption
    DEF CacheInv, CacheTypeOK, OneQuery, ServedAfterPrime, ListKept, Tasks
  <2>4. QuerySound'
    BY <1>1, <1>2, <2>1, CacheAssumption DEF CacheInv, CacheTypeOK, QuerySound, Lists
  <2> QED BY <1>1, <2>1, <2>2, <2>3, <2>4
    DEF Owed, CacheInv, AdmittedFresh, Admitted, Apart
<1>3. CASE override # None
  <2>1. /\ cached' = override /\ cachedAt' = now
        /\ phase' = Serve /\ fetch' = fetch
    BY <1>3 DEF Prime, AskBot
  <2>2. CacheTypeOK'
    BY <1>1, <2>1, CacheAssumption DEF CacheInv, CacheTypeOK, Lists, Phases
  <2>3. \A t \in Tasks : ~Querying(t)'
    BY <2>1
  <2> QED BY <1>1, <1>3, <2>1, <2>2, <2>3, CacheAssumption
    DEF Owed, CacheInv, OneQuery, ServedAfterPrime, QuerySound, ListKept,
        AdmittedFresh, Admitted, Apart
<1> QED BY <1>2, <1>3

LEMMA BotAnswersStep == ASSUME CacheInv, NEW t \in Tasks, BotAnswers(t), Same PROVE Owed
  BY CacheAssumption DEF BotAnswers, Same, Owed, Apart, AdmittedFresh, Admitted,
     CacheInv, CacheTypeOK, OneQuery, ServedAfterPrime, QuerySound, ListKept, Querying,
     Lists, Phases, Tasks, NoFetch, cache, bot, AgreeBefore

(* What the end of a query does to the tasks, whatever its outcome.         *)
QueryOver(t, ids, hasFailed) ==
    IF t = Startup
      THEN /\ phase' = Serve
           /\ fetch' = [fetch EXCEPT ![t] = NoFetch]
           /\ UNCHANGED <<allow, failed>>
      ELSE Admit(t, ids, hasFailed)

(* After it no query is under way, and only a request that made the query   *)
(* is let through by it.                                                    *)
LEMMA AfterQuery ==
  ASSUME CacheInv, NEW t \in Tasks, Querying(t), NEW ids \in Lists, NEW f \in BOOLEAN,
         QueryOver(t, ids, f)
  PROVE  /\ phase' \in [Tasks -> Phases]
         /\ fetch' \in [Tasks -> [at : Nat, ids : Lists]]
         /\ allow' \in [Requests -> Lists]
         /\ failed' \in [Requests -> BOOLEAN]
         /\ \A s \in Tasks : ~Querying(s)'
         /\ phase'[Startup] = "done"
         /\ \A r \in Requests : Admitted(r) => allow'[r] = ids /\ failed'[r] = f
<1> USE DEF Querying
<1>1. Startup \in Tasks /\ Startup \notin Requests
  BY CacheAssumption DEF Tasks
<1>2. CASE t = Startup
  BY <1>1, <1>2 DEF QueryOver, Serve, Admitted, CacheInv, CacheTypeOK, NoFetch, Lists, Phases, Tasks
<1>3. CASE t # Startup
  <2>1. t \in Requests /\ phase[Startup] = "done"
    BY <1>3 DEF Tasks, CacheInv, ServedAfterPrime
  <2>2. /\ phase' = [phase EXCEPT ![t] = "admitted"]
        /\ allow' = [allow EXCEPT ![t] = ids]
        /\ failed' = [failed EXCEPT ![t] = f]
        /\ fetch' = [fetch EXCEPT ![t] = NoFetch]
    BY <1>3 DEF QueryOver, Admit
  <2>3. \A s \in Tasks : ~Querying(s)'
    BY <2>1, <2>2 DEF CacheInv, CacheTypeOK, OneQuery
  <2> QED BY <1>1, <2>1, <2>2, <2>3
    DEF Admitted, CacheInv, CacheTypeOK, NoFetch, Lists, Phases, Tasks
<1> QED BY <1>2, <1>3

LEMMA StoreStep == ASSUME CacheInv, NEW t \in Tasks, Store(t), Same PROVE Owed
<1> DEFINE ids == fetch[t].ids
<1> USE DEF Querying, Same
<1>1. /\ Querying(t) /\ ids # None /\ ids \in Lists
      /\ cached' = ids /\ cachedAt' = now
      /\ QueryOver(t, ids, FALSE)
      /\ UNCHANGED <<now, active, since, override, waiting>>
  BY DEF Store, QueryOver, CacheInv, CacheTypeOK, bot, Lists
<1>2. /\ override = None
      /\ fetch[t].at \in Nat /\ fetch[t].at <= now /\ now <= fetch[t].at + HttpTimeout
      /\ cached # None => fetch[t].at - cachedAt >= Ttl
      /\ AgreeBefore(ids, fetch[t].at)
  BY <1>1 DEF CacheInv, CacheTypeOK, QuerySound
<1>3. /\ \A s \in Tasks : ~Querying(s)'
      /\ phase'[Startup] = "done"
      /\ \A r \in Requests : Admitted(r) => allow'[r] = ids /\ failed'[r] = FALSE
  BY <1>1, AfterQuery
<1>4. CacheTypeOK'
  <2>1. /\ phase' \in [Tasks -> Phases]
        /\ fetch' \in [Tasks -> [at : Nat, ids : Lists]]
        /\ allow' \in [Requests -> Lists]
        /\ failed' \in [Requests -> BOOLEAN]
    BY <1>1, AfterQuery
  <2> QED BY <1>1, <2>1 DEF CacheInv, CacheTypeOK
<1>5. OneQuery' /\ ServedAfterPrime' /\ QuerySound'
  BY <1>3 DEF OneQuery, ServedAfterPrime, QuerySound
<1>6. ListKept'
  BY <1>1, <1>2, CacheAssumption DEF ListKept, AgreeBefore, CacheInv, CacheTypeOK
<1>7. ASSUME NEW r \in Requests, Admitted(r) PROVE AdmittedFresh(r)
  BY <1>1, <1>2, <1>3, <1>7, CacheAssumption
  DEF AdmittedFresh, AgreeBefore, Settled, CacheInv, CacheTypeOK
<1>8. Apart
  BY <1>1, <1>2, CacheAssumption DEF Apart, CacheInv, CacheTypeOK
<1> QED BY <1>4, <1>5, <1>6, <1>7, <1>8 DEF Owed, CacheInv, AdmittedFresh

LEMMA FailStep == ASSUME CacheInv, NEW t \in Tasks, RefreshFails(t), Same PROVE Owed
<1> USE DEF Querying, Same
<1>1. /\ Querying(t) /\ cached \in Lists
      /\ QueryOver(t, cached, TRUE)
      /\ UNCHANGED <<now, active, since, override, waiting, cached, cachedAt>>
  BY DEF RefreshFails, FailureTime, QueryOver, CacheInv, CacheTypeOK, bot
<1>2. override = None
  BY <1>1 DEF CacheInv, QuerySound
<1>3. /\ \A s \in Tasks : ~Querying(s)'
      /\ phase'[Startup] = "done"
      /\ \A r \in Requests : Admitted(r) => allow'[r] = cached /\ failed'[r] = TRUE
  BY <1>1, AfterQuery
<1>4. CacheTypeOK'
  BY <1>1, AfterQuery DEF CacheInv, CacheTypeOK
<1>5. OneQuery' /\ ServedAfterPrime' /\ QuerySound' /\ ListKept'
  BY <1>1, <1>3 DEF OneQuery, ServedAfterPrime, QuerySound, ListKept, CacheInv
<1> QED BY <1>1, <1>2, <1>3, <1>4, <1>5 DEF Owed, CacheInv, AdmittedFresh, Apart

(* A request is let through with the list as it is, which has not expired.  *)
LEMMA AdmitFresh ==
  ASSUME CacheInv, NEW r \in Requests, Fresh, Admit(r, cached, FALSE), ~Querying(r),
         phase[Startup] = "done", waiting' \in Seq(Requests),
         UNCHANGED <<now, bot, override, cache>>
  PROVE  Owed
<1> USE DEF Querying, cache, bot
<1>1. /\ phase' = [phase EXCEPT ![r] = "admitted"]
      /\ allow' = [allow EXCEPT ![r] = cached]
      /\ failed' = [failed EXCEPT ![r] = FALSE]
      /\ fetch' = [fetch EXCEPT ![r] = NoFetch]
      /\ r \in Tasks /\ Startup \in Tasks /\ r # Startup
  BY CacheAssumption DEF Admit, Tasks
<1>2. CacheTypeOK'
  BY <1>1 DEF CacheInv, CacheTypeOK, NoFetch, Lists, Phases
<1>3. \A t \in Tasks : Querying(t)' => Querying(t) /\ fetch'[t] = fetch[t]
  BY <1>1 DEF CacheInv, CacheTypeOK
<1>4. OneQuery' /\ ServedAfterPrime' /\ QuerySound' /\ ListKept'
  BY <1>1, <1>3
  DEF CacheInv, CacheTypeOK, OneQuery, ServedAfterPrime, QuerySound, ListKept, AgreeBefore
<1>5. ASSUME NEW q \in Requests, Admitted(q) PROVE q = r
  BY <1>1, <1>5 DEF Admitted, CacheInv, CacheTypeOK, Tasks
<1>6. AdmittedFresh(r)
  BY <1>1, CacheAssumption
  DEF AdmittedFresh, Fresh, Settled, CacheInv, CacheTypeOK, ListKept
<1> QED BY <1>2, <1>4, <1>5, <1>6 DEF Owed, CacheInv, AdmittedFresh, Apart

(* refresh under the lock, with the list expired: the override is taken, or *)
(* the bot is asked.                                                        *)
LEMMA RefreshStep ==
  ASSUME CacheInv, NEW r \in Requests, ~Fresh, UseOverride(r) \/ AskBot(r),
         \A t \in Tasks : ~Querying(t),
         phase[Startup] = "done", waiting' \in Seq(Requests),
         UNCHANGED <<now, bot, override>>
  PROVE  Owed
<1> USE DEF Querying, cache, bot
<1>1. r \in Tasks /\ Startup \in Tasks /\ r # Startup
  BY CacheAssumption DEF Tasks
<1>2. CASE UseOverride(r)
  <2>1. /\ phase' = [phase EXCEPT ![r] = "admitted"]
        /\ allow' = [allow EXCEPT ![r] = override]
        /\ failed' = [failed EXCEPT ![r] = FALSE]
        /\ fetch' = [fetch EXCEPT ![r] = NoFetch]
        /\ override # None /\ cached' = override /\ cachedAt' = now
    BY <1>2 DEF UseOverride, Admit
  <2>2. CacheTypeOK'
    BY <1>1, <2>1, CacheAssumption DEF CacheInv, CacheTypeOK, NoFetch, Lists, Phases
  <2>3. OneQuery' /\ ServedAfterPrime' /\ QuerySound' /\ ListKept'
    BY <1>1, <2>1
    DEF CacheInv, CacheTypeOK, OneQuery, ServedAfterPrime, QuerySound, ListKept
  <2>4. ASSUME NEW q \in Requests PROVE AdmittedFresh(q)
    BY <1>1, <2>1 DEF AdmittedFresh, Admitted, CacheInv, CacheTypeOK, Tasks
  <2>5. Apart
    BY <2>1, CacheAssumption DEF Apart, Fresh, CacheInv, CacheTypeOK
  <2> QED BY <2>2, <2>3, <2>4, <2>5 DEF Owed, CacheInv
<1>3. CASE AskBot(r)
  <2>1. /\ phase' = [phase EXCEPT ![r] = "fetching"]
        /\ fetch' = [fetch EXCEPT ![r] = [at |-> now, ids |-> None]]
        /\ override = None
        /\ UNCHANGED <<cached, cachedAt, allow, failed>>
    BY <1>3 DEF AskBot
  <2>2. CacheTypeOK'
    BY <1>1, <2>1 DEF CacheInv, CacheTypeOK, Lists, Phases
  <2>3. OneQuery' /\ ServedAfterPrime' /\ ListKept'
    BY <1>1, <2>1
    DEF CacheInv, CacheTypeOK, OneQuery, ServedAfterPrime, ListKept
  <2>4. QuerySound'
    BY <1>1, <2>1, CacheAssumption DEF CacheInv, CacheTypeOK, QuerySound, Fresh
  <2>5. ASSUME NEW q \in Requests PROVE ~Admitted(q)
    BY <1>1, <2>1 DEF Admitted, CacheInv, CacheTypeOK, Tasks
  <2> QED BY <2>1, <2>2, <2>3, <2>4, <2>5 DEF Owed, CacheInv, AdmittedFresh, Apart
<1> QED BY <1>2, <1>3

(* With the lock free and requests served, no query is under way.           *)
LEMMA LockFree ==
  ASSUME CacheInv, phase[Startup] = "done", ~Locked
  PROVE  \A t \in Tasks : ~Querying(t)
  BY DEF Locked, Tasks, Querying

LEMMA ArriveStep == ASSUME CacheInv, NEW r \in Requests, Arrive(r), Same PROVE Owed
<1>1. /\ phase[r] = "idle" /\ ~Querying(r) /\ phase[Startup] = "done"
      /\ UNCHANGED <<now, bot, override>>
  BY DEF Arrive, Same, Querying, CacheInv, ServedAfterPrime
<1>2. CASE Fresh
  <2>1. Admit(r, cached, FALSE) /\ UNCHANGED <<cache, waiting>>
    BY <1>2 DEF Arrive
  <2> QED BY <1>1, <1>2, <2>1, AdmitFresh DEF CacheInv, CacheTypeOK
<1>3. CASE ~Fresh /\ ~Locked /\ waiting = <<>>
  <2>1. (UseOverride(r) \/ AskBot(r)) /\ UNCHANGED waiting
    BY <1>3 DEF Arrive
  <2> QED BY <1>1, <1>3, <2>1, LockFree, RefreshStep DEF CacheInv, CacheTypeOK
<1>4. CASE ~Fresh /\ (Locked \/ waiting # <<>>)
  <2>1. /\ waiting' = Append(waiting, r)
        /\ phase' = [phase EXCEPT ![r] = "queued"]
        /\ UNCHANGED <<now, active, since, override, cached, cachedAt, fetch, allow, failed>>
    BY <1>1, <1>4 DEF Arrive, Enqueue, cache, bot
  <2>2. \A t \in Tasks : /\ Querying(t)' <=> Querying(t)
                         /\ phase'[t] = "admitted" => phase[t] = "admitted"
    BY <1>1, <2>1 DEF Querying, CacheInv, CacheTypeOK
  <2>3. CacheTypeOK'
    <3>1. waiting' \in Seq(Requests)
      BY <2>1 DEF CacheInv, CacheTypeOK
    <3>2. phase' \in [Tasks -> Phases]
      BY <2>1 DEF CacheInv, CacheTypeOK, Phases
    <3> QED BY <2>1, <3>1, <3>2 DEF CacheInv, CacheTypeOK
  <2>4. OneQuery' /\ ServedAfterPrime' /\ QuerySound' /\ ListKept'
    BY <1>1, <2>1, <2>2, CacheAssumption
    DEF CacheInv, CacheTypeOK, OneQuery, ServedAfterPrime, QuerySound, ListKept,
        AgreeBefore, Tasks
  <2> QED BY <2>1, <2>2, <2>3, <2>4
    DEF Owed, CacheInv, AdmittedFresh, Admitted, Apart, Tasks
<1> QED BY <1>2, <1>3, <1>4

LEMMA AcquireStep == ASSUME CacheInv, NEW r \in Requests, Acquire(r), Same PROVE Owed
<1>1. /\ phase[Startup] = "done" /\ waiting # <<>> /\ ~Locked
      /\ UNCHANGED <<now, bot, override>>
  BY DEF Acquire, Same, CacheInv, ServedAfterPrime
<1>2. waiting' \in Seq(Requests) /\ r \in Tasks
  BY <1>1 DEF Acquire, CacheInv, CacheTypeOK, Tasks
<1>3. \A t \in Tasks : ~Querying(t)
  BY <1>1, LockFree
<1>4. CASE Fresh
  BY <1>1, <1>2, <1>3, <1>4, AdmitFresh DEF Acquire, Refreshed
<1>5. CASE ~Fresh
  BY <1>1, <1>2, <1>3, <1>5, RefreshStep DEF Acquire, Refreshed
<1> QED BY <1>4, <1>5

LEMMA LeaveStep == ASSUME CacheInv, NEW r \in Requests, Leave(r), Same PROVE Owed
  BY CacheAssumption DEF Leave, Settled, Same, Owed, Apart, AdmittedFresh, Admitted,
     CacheInv, CacheTypeOK, OneQuery, ServedAfterPrime, QuerySound, ListKept, Querying,
     Lists, Phases, Tasks, NoFetch, cache, bot, AgreeBefore

LEMMA UserChangesStep == ASSUME CacheInv, NEW u \in Users, UserChanges(u), Same PROVE Owed
  BY CacheAssumption DEF UserChanges, Settled, Same, Owed, Apart, AdmittedFresh, Admitted,
     CacheInv, CacheTypeOK, OneQuery, ServedAfterPrime, QuerySound, ListKept, Querying,
     Lists, Phases, Tasks, NoFetch, cache, bot, AgreeBefore, requests

(* The clock: no query outlives its timeout.                                *)
LEMMA TickStep == ASSUME CacheInv, Tick PROVE Owed
  BY CacheAssumption DEF Tick, Owed, Apart, AdmittedFresh, Admitted,
     CacheInv, CacheTypeOK, OneQuery, ServedAfterPrime, QuerySound, ListKept, Querying,
     cacheVars, cache, bot, requests, AgreeBefore

LEMMA QuietStep ==
  ASSUME CacheInv, LoginAttempt \/ UNCHANGED vars PROVE Owed
  BY DEF LoginAttempt, vars, Owed, Apart, AdmittedFresh, Admitted,
     CacheInv, CacheTypeOK, OneQuery, ServedAfterPrime, QuerySound, ListKept, Querying,
     cacheVars, cache, bot, requests, AgreeBefore

(* Every step keeps the invariant and owes what the two properties say.     *)
LEMMA CacheStep == ASSUME CacheInv, [Next]_vars PROVE Owed
<1>1. CASE CacheNext /\ Same
  <2>1. CASE Prime
    BY <1>1, <2>1, PrimeStep
  <2>2. ASSUME NEW t \in Tasks, BotAnswers(t) \/ Store(t) \/ RefreshFails(t) PROVE Owed
    BY <1>1, <2>2, BotAnswersStep, StoreStep, FailStep
  <2>3. ASSUME NEW r \in Requests, Arrive(r) \/ Acquire(r) \/ Leave(r) PROVE Owed
    BY <1>1, <2>3, ArriveStep, AcquireStep, LeaveStep
  <2>4. ASSUME NEW u \in Users, UserChanges(u) PROVE Owed
    BY <1>1, <2>4, UserChangesStep
  <2> QED BY <1>1, <2>1, <2>2, <2>3, <2>4 DEF CacheNext
<1>2. CASE LoginAttempt \/ UNCHANGED vars
  BY <1>2, QuietStep
<1>3. CASE Tick
  BY <1>3, TickStep
<1> QED BY <1>1, <1>2, <1>3 DEF Next

LEMMA CacheInductive == Spec => []CacheInv
<1>1. CacheInv /\ [Next]_vars => CacheInv'
  BY CacheStep DEF Owed
<1> QED BY <1>1, CacheInitHolds, PTL DEF Spec

-----------------------------------------------------------------------------
(* However requests, failures, answers and changes of the bot's users       *)
(* interleave, a request is let through with the override, or with a list   *)
(* that names the bot's users of a moment at most Ttl plus one query ago,   *)
(* unless the refresh it made itself failed (ensure_fresh and refresh of    *)
(* ActiveUsersCache, auth_middleware).                                      *)
THEOREM ServedListIsFresh == Spec => AllowListFresh
<1>1. CacheInv /\ [Next]_vars =>
        [\A r \in Requests : Admitted(r) =>
             /\ cached # None \/ ~failed'[r] => allow'[r] # None
             /\ override # None => allow'[r] = override
             /\ override = None /\ ~failed'[r] =>
                  \A u \in Users : Settled(u) => (u \in allow'[r] <=> u \in active)]_vars
  BY CacheStep DEF Owed, AdmittedFresh
<1> QED BY <1>1, CacheInductive, PTL DEF Spec, AllowListFresh

(* Successful refreshes are a Ttl apart, however many requests wait for the *)
(* lock: each checks again once it holds it (_refresh_lock).                *)
THEOREM OneRefreshPerTtl == Spec => RefreshesApart
<1>1. CacheInv /\ [Next]_vars =>
        [cachedAt' # cachedAt /\ cached # None => cachedAt' - cachedAt >= Ttl]_vars
  BY CacheStep DEF Owed, Apart
<1> QED BY <1>1, CacheInductive, PTL DEF Spec, RefreshesApart

-----------------------------------------------------------------------------
(* The limiter of the logins.                                               *)

(* The deque is in the order of time, so that the attempts of a window are  *)
(* its last ones; passed counts them by their age.                          *)
AgedBy(d) == {i \in DOMAIN attempts : attempts[i] + d = now}

LimiterInv ==
    /\ now \in Nat
    /\ attempts \in Seq(Nat)
    /\ \A i, j \in DOMAIN attempts : i <= j => attempts[i] <= attempts[j]
    /\ \A i \in DOMAIN attempts : attempts[i] <= now
    /\ passed = [d \in 0..RateWindow |-> Cardinality(AgedBy(d))]
    /\ Cardinality(Within(now)) <= RateMax

(* The first k - 1 attempts are dropped, the others kept in their order.    *)
LEMMA RecentDrops ==
  ASSUME attempts \in Seq(Nat), NEW t \in Nat,
         \A i, j \in DOMAIN attempts : i <= j => attempts[i] <= attempts[j]
  PROVE  \E k \in 1..Len(attempts) + 1 :
           /\ Within(t) = k..Len(attempts)
           /\ Recent(t) \in Seq(Nat)
           /\ Len(Recent(t)) = Len(attempts) - k + 1
           /\ \A i \in 1..Len(attempts) - k + 1 : Recent(t)[i] = attempts[i + k - 1]
<1> DEFINE n == Len(attempts)
<1>1. n \in Nat /\ DOMAIN attempts = 1..n /\ \A i \in 1..n : attempts[i] \in Nat
  OBVIOUS
<1>2. CASE Within(t) = {}
  <2>1. n + 1 \in 1..n + 1 /\ Within(t) = (n + 1)..n /\ Recent(t) = <<>>
    BY <1>1, <1>2 DEF Recent
  <2> WITNESS n + 1 \in 1..n + 1
  <2> QED BY <1>1, <2>1
<1>3. CASE Within(t) # {}
  <2> DEFINE k == Min(Within(t))
  <2>1. Within(t) \subseteq 1..n
    BY <1>1 DEF Within
  <2>2. k \in Within(t) /\ \A i \in Within(t) : k <= i
    <3>1. Within(t) \in SUBSET Nat
      BY <1>1, <2>1
    <3> DEFINE W == Within(t)
    <3>2. W \in SUBSET Nat /\ W # {} /\ k = Min(W)
      BY <1>3, <3>1
    <3> HIDE DEF W, k
    <3>3. \E m \in W : \A i \in W : m <= i
      BY <3>2, SmallestOf
    <3>4. k \in W /\ \A i \in W : k <= i
      BY <3>2, <3>3 DEF Min
    <3> QED BY <3>4 DEF W
  <2> HIDE DEF k
  <2>3. k \in 1..n
    BY <2>1, <2>2
  <2>4. Within(t) = k..n
    <3>1. ASSUME NEW i \in k..n PROVE i \in Within(t)
      <4>1. i \in 1..n /\ attempts[k] <= attempts[i] /\ attempts[k] + RateWindow >= t
        BY <1>1, <2>2, <2>3 DEF Within
      <4> QED BY <1>1, <2>3, <4>1, LimiterAssumption DEF Within
    <3>2. ASSUME NEW i \in Within(t) PROVE i \in k..n
      BY <2>1, <2>2, <2>3
    <3> QED BY <3>1, <3>2
  <2>5. Recent(t) = SubSeq(attempts, k, n)
    BY <1>3 DEF Recent, k
  <2>6. /\ Recent(t) \in Seq(Nat)
        /\ Len(Recent(t)) = n - k + 1
        /\ \A i \in 1..n - k + 1 : Recent(t)[i] = attempts[i + k - 1]
    BY <1>1, <2>3, <2>5
  <2>7. k \in 1..n + 1
    BY <1>1, <2>3
  <2> QED BY <2>4, <2>6, <2>7
<1> QED BY <1>2, <1>3

LEMMA LimiterInitHolds == Init => LimiterInv
<1> SUFFICES ASSUME Init PROVE LimiterInv
  OBVIOUS
<1>1. now = 0 /\ attempts = <<>> /\ passed = [d \in 0..RateWindow |-> 0]
  BY DEF Init, LimiterInit
<1>2. Within(now) = {} /\ \A d \in 0..RateWindow : AgedBy(d) = {}
  BY <1>1 DEF Within, AgedBy
<1> QED BY <1>1, <1>2, FS_EmptySet, LimiterAssumption DEF LimiterInv

LEMMA AttemptsFinite ==
  ASSUME attempts \in Seq(Nat), NEW A \in SUBSET DOMAIN attempts
  PROVE  IsFiniteSet(A) /\ Cardinality(A) \in Nat /\ A \subseteq Int
<1>1. DOMAIN attempts = 1..Len(attempts) /\ Len(attempts) \in Nat
  OBVIOUS
<1>2. IsFiniteSet(DOMAIN attempts)
  BY <1>1, FS_Interval
<1> QED BY <1>1, <1>2, FS_Subset, FS_CardinalityType

(* An attempt is counted under age 0 if it is let through, and the deque    *)
(* then holds the attempts of the window and no others.                     *)
LEMMA LoginStep == ASSUME LimiterInv, Login(now), UNCHANGED now PROVE LimiterInv'
<1> DEFINE n == Len(attempts)
           ok == Len(Recent(now)) < RateMax
<1>1. /\ n \in Nat /\ DOMAIN attempts = 1..n /\ now \in Nat
      /\ \A i \in 1..n : attempts[i] \in Nat /\ attempts[i] <= now
      /\ \A i, j \in 1..n : i <= j => attempts[i] <= attempts[j]
  BY DEF LimiterInv
<1>2. PICK k \in 1..n + 1 :
           /\ Within(now) = k..n
           /\ Recent(now) \in Seq(Nat)
           /\ Len(Recent(now)) = n - k + 1
           /\ \A i \in 1..n - k + 1 : Recent(now)[i] = attempts[i + k - 1]
  BY RecentDrops DEF LimiterInv
<1> DEFINE m == n - k + 1
<1>3. /\ m \in Nat /\ m = n - k + 1 /\ Cardinality(Within(now)) = m /\ m <= RateMax
      /\ k \in Int /\ 1 <= k
  <2>1. k \in Int /\ n \in Int /\ k <= n + 1 /\ 1 <= k
    BY <1>1, <1>2
  <2>2. Cardinality(k..n) = m
    <3> HIDE DEF n
    <3> QED BY <2>1, IntervalSize
  <2> QED BY <1>2, <2>1, <2>2 DEF LimiterInv
<1> HIDE DEF m
<1>4. /\ attempts' \in Seq(Nat)
      /\ ok => Len(attempts') = m + 1 /\ attempts'[m + 1] = now
      /\ ~ok => Len(attempts') = m
      /\ \A i \in 1..m : attempts'[i] = attempts[i + (k - 1)]
  <2> DEFINE kept == Recent(now)
  <2>1. kept \in Seq(Nat) /\ Len(kept) = m /\ \A i \in 1..m : kept[i] = attempts[i + (k - 1)]
    BY <1>1, <1>2, <1>3
  <2>2. attempts' = IF ok THEN Append(kept, now) ELSE kept
    BY DEF Login, Recorded
  <2> HIDE DEF kept, ok
  <2> QED BY <1>1, <2>1, <2>2
<1>5. \A i \in 1..m : i + (k - 1) \in k..n /\ i + (k - 1) \in 1..n
  BY <1>1, <1>3
<1>9. ok => m + 1 <= RateMax
  BY <1>2, <1>3, LimiterAssumption
<1>10. passed' = IF ok THEN [passed EXCEPT ![0] = @ + 1] ELSE passed
  BY DEF Login
<1> HIDE DEF ok
<1>6. /\ \A i, j \in DOMAIN attempts' : i <= j => attempts'[i] <= attempts'[j]
      /\ \A i \in DOMAIN attempts' : attempts'[i] <= now'
  <2>1. DOMAIN attempts' = IF ok THEN 1..m + 1 ELSE 1..m
    BY <1>4
  <2>2. \A i \in 1..m : attempts'[i] \in Nat /\ attempts'[i] <= now
    BY <1>1, <1>4, <1>5
  <2>3. \A i, j \in 1..m : i <= j => attempts'[i] <= attempts'[j]
    <3> SUFFICES ASSUME NEW i \in 1..m, NEW j \in 1..m, i <= j
                 PROVE  attempts[i + (k - 1)] <= attempts[j + (k - 1)]
      BY <1>4
    <3>1. i + (k - 1) \in 1..n /\ j + (k - 1) \in 1..n /\ i + (k - 1) <= j + (k - 1)
      BY <1>1, <1>3, <1>5
    <3> QED BY <1>1, <3>1
  <2>4. CASE ok
    <3>1. \A i \in 1..m + 1 : i \in 1..m \/ i = m + 1
      BY <1>3
    <3>2. \A i \in DOMAIN attempts' : attempts'[i] \in Nat /\ attempts'[i] <= now
      BY <1>1, <1>4, <2>1, <2>2, <2>4, <3>1
    <3>3. \A i, j \in 1..m + 1 : i <= j /\ j # m + 1 => i \in 1..m /\ j \in 1..m
      BY <1>3
    <3> QED BY <1>1, <1>4, <2>1, <2>3, <2>4, <3>2, <3>3
  <2>5. CASE ~ok
    BY <2>1, <2>2, <2>3, <2>5
  <2> QED BY <2>4, <2>5
<1>7. Within(now)' = DOMAIN attempts' /\ Cardinality(Within(now)') <= RateMax
  <2>1. DOMAIN attempts' = 1..Len(attempts') /\ Len(attempts') \in Nat
    BY <1>4
  <2>2. Within(now)' = 1..Len(attempts')
    <3>1. \A i \in 1..m : attempts'[i] + RateWindow >= now
      BY <1>2, <1>4, <1>5 DEF Within
    <3>2. now + RateWindow >= now
      BY <1>1, LimiterAssumption
    <3>3. \A i \in 1..Len(attempts') : i \in 1..m \/ (ok /\ i = m + 1)
      <4>1. CASE ok
        <5>1. Len(attempts') = m + 1
          BY <1>4, <4>1
        <5> QED BY <1>3, <4>1, <5>1
      <4>2. CASE ~ok
        BY <1>4, <4>2
      <4> QED BY <4>1, <4>2
    <3>4. \A i \in 1..Len(attempts') : attempts'[i] + RateWindow >= now
      BY <1>4, <3>1, <3>2, <3>3
    <3> QED BY <2>1, <3>4 DEF Within
  <2>3. Cardinality(1..Len(attempts')) = Len(attempts')
    <3> DEFINE l == Len(attempts')
    <3>1. l \in Nat /\ l \in Int /\ 1 \in Int
      BY <2>1
    <3> HIDE DEF l
    <3>2. Cardinality(1..l) = l
      BY <3>1, FS_Interval
    <3> QED BY <3>2 DEF l
  <2>4. Len(attempts') <= RateMax
    BY <1>3, <1>4, <1>9
  <2> QED BY <2>1, <2>2, <2>3, <2>4
<1>8. passed' = [d \in 0..RateWindow |-> Cardinality(AgedBy(d)')]
  <2> DEFINE Kept(d) == {i \in 1..m : attempts'[i] + d = now}
  <2>1. ASSUME NEW d \in 0..RateWindow
        PROVE  /\ IsFiniteSet(Kept(d)) /\ Kept(d) \subseteq Int
               /\ Cardinality(Kept(d)) = Cardinality(AgedBy(d))
    <3>1. IsFiniteSet(Kept(d)) /\ Kept(d) \subseteq Int
      <4>1. IsFiniteSet(1..m)
        BY <1>3, FS_Interval
      <4>2. Kept(d) \in SUBSET (1..m) /\ Kept(d) \subseteq Int
        BY <1>3
      <4> HIDE DEF Kept
      <4> QED BY <4>1, <4>2, FS_Subset
    <3>2. IsFiniteSet(AgedBy(d)) /\ AgedBy(d) \subseteq Int
      BY AttemptsFinite DEF AgedBy, LimiterInv
    <3>3. ASSUME NEW i \in Int PROVE i \in Kept(d) <=> i + (k - 1) \in AgedBy(d)
      <4>1. ASSUME i + (k - 1) \in AgedBy(d) PROVE i + (k - 1) \in k..n
        <5>1. i + (k - 1) \in DOMAIN attempts /\ attempts[i + (k - 1)] + d = now
          BY <4>1 DEF AgedBy
        <5>2. attempts[i + (k - 1)] + RateWindow >= now
          <6> DEFINE a == attempts[i + (k - 1)]
          <6>1. a \in Nat /\ a + d = now /\ d <= RateWindow /\ d \in Nat /\ RateWindow \in Nat
            BY <1>1, <5>1, LimiterAssumption
          <6> HIDE DEF a
          <6>2. a + RateWindow >= now
            BY <6>1
          <6> QED BY <6>2 DEF a
        <5> QED BY <1>2, <5>1, <5>2 DEF Within
      <4>2. i \in 1..m <=> i + (k - 1) \in k..n
        BY <1>1, <1>3
      <4>3. i \in 1..m => attempts'[i] = attempts[i + (k - 1)] /\ i + (k - 1) \in 1..n
        BY <1>4, <1>5
      <4> QED BY <1>1, <4>1, <4>2, <4>3 DEF AgedBy
    <3>4. k - 1 \in Int
      BY <1>1
    <3> HIDE DEF Kept
    <3> QED BY <3>1, <3>2, <3>3, <3>4, ShiftCardinality
  <2>2. CASE ~ok
    <3>1. \A d \in 0..RateWindow : AgedBy(d)' = Kept(d)
      BY <1>4, <2>2 DEF AgedBy
    <3>2. passed' = passed
      BY <1>10, <2>2
    <3> HIDE DEF Kept
    <3> QED BY <2>1, <3>1, <3>2 DEF LimiterInv
  <2>3. CASE ok
    <3>1. passed' = [passed EXCEPT ![0] = @ + 1]
      BY <1>10, <2>3
    <3>0. DOMAIN attempts' = 1..m + 1 /\ \A i \in 1..m + 1 : i \in 1..m \/ i = m + 1
      <4>1. Len(attempts') = m + 1
        BY <1>4, <2>3
      <4>2. DOMAIN attempts' = 1..m + 1
        BY <1>4, <4>1
      <4> QED BY <1>3, <4>2
    <3>2. ASSUME NEW d \in 0..RateWindow, d # 0 PROVE AgedBy(d)' = Kept(d)
      <4>1. attempts'[m + 1] + d # now
        BY <1>1, <1>4, <2>3, <3>2, LimiterAssumption
      <4> QED BY <1>3, <3>0, <4>1 DEF AgedBy
    <3>3. AgedBy(0)' = Kept(0) \cup {m + 1} /\ m + 1 \notin Kept(0)
      <4>1. attempts'[m + 1] + 0 = now /\ m + 1 \notin 1..m /\ m + 1 \in 1..m + 1
        BY <1>1, <1>3, <1>4, <2>3
      <4> QED BY <1>3, <3>0, <4>1 DEF AgedBy
    <3>4. 0 \in 0..RateWindow
      BY LimiterAssumption
    <3> HIDE DEF Kept, m
    <3>5. Cardinality(AgedBy(0)') = Cardinality(AgedBy(0)) + 1
      BY <2>1, <3>3, <3>4, FS_AddElement
    <3>6. passed \in [0..RateWindow -> Nat] /\ passed = [d \in 0..RateWindow |-> Cardinality(AgedBy(d))]
      BY AttemptsFinite DEF LimiterInv, AgedBy
    <3>7. \A d \in 0..RateWindow : passed'[d] = Cardinality(AgedBy(d)')
      BY <2>1, <3>1, <3>2, <3>4, <3>5, <3>6
    <3> QED BY <3>1, <3>6, <3>7
  <2> QED BY <2>2, <2>3
<1> QED BY <1>1, <1>4, <1>6, <1>7, <1>8 DEF LimiterInv

(* A tick makes every attempt one older; none of them is of now.            *)
LEMMA AgesStep == ASSUME LimiterInv, now' = now + 1, UNCHANGED attempts, Ages
                  PROVE  LimiterInv'
<1>1. ASSUME NEW d \in 0..RateWindow
      PROVE  passed'[d] = Cardinality(AgedBy(d)')
  <2>1. CASE d = 0
    <3>1. \A i \in DOMAIN attempts : attempts[i] + 0 # now + 1
      BY DEF LimiterInv
    <3>2. AgedBy(d)' = {}
      BY <2>1, <3>1 DEF AgedBy
    <3> QED BY <2>1, <3>2, FS_EmptySet DEF Ages
  <2>2. CASE d # 0
    <3>1. d - 1 \in 0..RateWindow
      BY <2>2, LimiterAssumption
    <3>2. AgedBy(d)' = AgedBy(d - 1)
      <4>1. ASSUME NEW i \in DOMAIN attempts
            PROVE  attempts[i] + d = now + 1 <=> attempts[i] + (d - 1) = now
        <5>1. attempts[i] \in Nat /\ now \in Nat /\ d \in Nat
          BY LimiterAssumption DEF LimiterInv
        <5> QED BY <5>1
      <4> QED BY <4>1 DEF AgedBy
    <3> QED BY <2>2, <3>1, <3>2 DEF Ages, LimiterInv
  <2> QED BY <2>1, <2>2
<1>2. passed' = [d \in 0..RateWindow |-> Cardinality(AgedBy(d)')]
  BY <1>1 DEF Ages
<1>3. Cardinality(Within(now)') <= RateMax
  <2>1. Within(now)' \subseteq Within(now) /\ Within(now) \in SUBSET DOMAIN attempts
    BY LimiterAssumption DEF Within, LimiterInv
  <2>2. Cardinality(Within(now)') <= Cardinality(Within(now))
    BY <2>1, AttemptsFinite, FS_Subset DEF LimiterInv
  <2> QED BY <2>1, <2>2, AttemptsFinite, LimiterAssumption DEF LimiterInv
<1>4. \A i \in DOMAIN attempts : attempts[i] <= now'
  BY DEF LimiterInv
<1> QED BY <1>2, <1>3, <1>4 DEF LimiterInv

LEMMA LimiterInductive == Spec => []LimiterInv
<1>1. LimiterInv /\ [Next]_vars => LimiterInv'
  <2> SUFFICES ASSUME LimiterInv, [Next]_vars PROVE LimiterInv'
    OBVIOUS
  <2>1. CASE LoginAttempt
    BY <2>1, LoginStep DEF LoginAttempt
  <2>2. CASE Tick
    BY <2>2, AgesStep DEF Tick
  <2>3. CASE UNCHANGED <<now, limiterVars>>
    BY <2>3 DEF LimiterInv, AgedBy, Within, limiterVars
  <2> QED BY <2>1, <2>2, <2>3 DEF Next, Same, vars
<1> QED BY <1>1, LimiterInitHolds, PTL DEF Spec

(* No window of the limiter holds more than RateMax attempts that were let  *)
(* through, and the deque of _login_rate_ok holds these and no others.      *)
THEOREM LoginsAreLimited == Spec => []LoginsLimited
<1>1. LimiterInv => LoginsLimited
  <2> SUFFICES ASSUME LimiterInv PROVE LoginsLimited
    OBVIOUS
  <2> DEFINE age == [i \in Within(now) |-> now - attempts[i]]
  <2>1. Len(Recent(now)) = Cardinality(Within(now))
    <3>1. PICK k \in 1..Len(attempts) + 1 :
             Within(now) = k..Len(attempts) /\ Len(Recent(now)) = Len(attempts) - k + 1
      BY RecentDrops DEF LimiterInv
    <3>2. k \in Int /\ Len(attempts) \in Int /\ k <= Len(attempts) + 1
      BY DEF LimiterInv
    <3> DEFINE n == Len(attempts)
    <3>3. Cardinality(k..n) = n - k + 1
      <4>1. k \in Int /\ n \in Int /\ k <= n + 1
        BY <3>2
      <4> HIDE DEF n
      <4> QED BY <4>1, IntervalSize
    <3> QED BY <3>1, <3>3
  <2>2. IsFiniteSet(Within(now)) /\ IsFiniteSet(0..RateWindow)
    BY AttemptsFinite, FS_Interval, LimiterAssumption DEF LimiterInv, Within
  <2>3. \A i \in Within(now) : age[i] \in 0..RateWindow
    BY LimiterAssumption DEF LimiterInv, Within
  <2>4. \A d \in 0..RateWindow : {i \in Within(now) : age[i] = d} = AgedBy(d)
    BY LimiterAssumption DEF LimiterInv, Within, AgedBy
  <2>5. passed = [d \in 0..RateWindow |-> Cardinality({i \in Within(now) : age[i] = d})]
    BY <2>4 DEF LimiterInv
  <2>6. SumFunctionOnSet([d \in 0..RateWindow |-> Cardinality({i \in Within(now) : age[i] = d})],
                         0..RateWindow) = Cardinality(Within(now))
    <3> HIDE DEF age
    <3> QED BY <2>2, <2>3, SumOfCounts
  <2>7. SumFunction(passed) = Cardinality(Within(now))
    <3> HIDE DEF age
    <3> QED BY <2>5, <2>6 DEF SumFunction
  <2> QED BY <2>1, <2>7 DEF LoginsLimited, LimiterInv
<1> QED BY <1>1, LimiterInductive, PTL

=============================================================================
