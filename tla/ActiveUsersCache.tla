-------------------------- MODULE ActiveUsersCache --------------------------
(***************************************************************************)
(* The allow-list of the ingest endpoints: ActiveUsersCache of             *)
(* src/dashboard/_active_users_cache.py and the part of auth_middleware    *)
(* (src/dashboard/api.py) that uses it.  Code between two awaits runs      *)
(* without interruption; a request can be suspended in the queue of        *)
(* _refresh_lock and while it waits for the bot's answer.                  *)
(*                                                                         *)
(* The bot is external: its users come and go, and it answers a request    *)
(* with the users of some moment before the answer arrives.                *)
(***************************************************************************)
EXTENDS Naturals, Sequences

CONSTANTS
    Users,
    Requests,       \* slots: each carries one /api/bot request after another
    Startup,        \* the task that runs _prime_users_cache
    Overrides,      \* what BOT_API_KEY_USER_IDS may hold, None when not set
    Ttl,            \* CACHE_TTL_SECONDS
    HttpTimeout,    \* the longest a query of the bot takes
    None

ASSUME CacheAssumption ==
    /\ Startup \notin Requests
    /\ \A o \in Overrides : o = None \/ o \subseteq Users
    /\ Ttl \in Nat \ {0} /\ HttpTimeout \in Nat

VARIABLES
    now,            \* time.monotonic()
    active,         \* the bot's users
    since,          \* [Users -> when the user last appeared or disappeared]
    override,       \* _override_ids
    cached,         \* _cached_ids
    cachedAt,       \* _cached_at
    waiting,        \* the requests in the queue of _refresh_lock
    phase,          \* [Tasks -> where a task is]
    fetch,          \* [Tasks -> its query of the bot: when sent, what answered]
    allow,          \* [Requests -> request.state.allowed_user_ids]
    failed          \* [Requests -> its own refresh failed]

bot == <<active, since>>
cache == <<cached, cachedAt>>
requests == <<phase, fetch, allow, failed>>
cacheVars == <<bot, override, cache, waiting, requests>>

Tasks == Requests \cup {Startup}
NoFetch == [at |-> 0, ids |-> None]

CacheInit ==
    /\ active \in SUBSET Users
    /\ since = [u \in Users |-> 0]
    /\ override \in Overrides
    /\ cached = None /\ cachedAt = 0
    /\ waiting = <<>>
    /\ phase = [t \in Tasks |-> IF t = Startup THEN "new" ELSE "down"]
    /\ fetch = [t \in Tasks |-> NoFetch]
    /\ allow = [r \in Requests |-> None]
    /\ failed = [r \in Requests |-> FALSE]

-----------------------------------------------------------------------------
Fresh == cached # None /\ now - cachedAt < Ttl

(* _refresh_lock is held by the request that queries the bot.               *)
Locked == \E r \in Requests : phase[r] = "fetching"

(* The middleware reads _cached_ids at once after ensure_fresh returned.    *)
Admit(r, ids, hasFailed) ==
    /\ phase' = [phase EXCEPT ![r] = "admitted"]
    /\ allow' = [allow EXCEPT ![r] = ids]
    /\ failed' = [failed EXCEPT ![r] = hasFailed]
    /\ fetch' = [fetch EXCEPT ![r] = NoFetch]

(* refresh with BOT_API_KEY_USER_IDS set: no await.                         *)
UseOverride(r) ==
    /\ override # None
    /\ cached' = override /\ cachedAt' = now
    /\ Admit(r, override, FALSE)

(* refresh up to its await.                                                 *)
AskBot(t) ==
    /\ override = None
    /\ phase' = [phase EXCEPT ![t] = "fetching"]
    /\ fetch' = [fetch EXCEPT ![t] = [at |-> now, ids |-> None]]
    /\ UNCHANGED <<cache, allow, failed>>

(* _prime_users_cache; requests are served once it has returned.            *)
Serve == [t \in Tasks |-> IF t = Startup THEN "done" ELSE "idle"]

Prime ==
    /\ phase[Startup] = "new"
    /\ \/ AskBot(Startup)
       \/ /\ override # None
          /\ cached' = override /\ cachedAt' = now
          /\ phase' = Serve
          /\ UNCHANGED <<fetch, allow, failed>>
    /\ UNCHANGED <<bot, override, waiting>>

(* Mutant of Enqueue: the last to come is woken first.                      *)
EnqueueFirst(r) == <<r>> \o waiting

(* asyncio.Lock wakes its waiters in the order they came.                   *)
Enqueue(r) == Append(waiting, r)

(* A request with the bot's key: ensure_fresh until it is suspended.        *)
Arrive(r) ==
    /\ phase[r] = "idle"
    /\ \/ /\ Fresh
          /\ Admit(r, cached, FALSE)
          /\ UNCHANGED <<cache, waiting>>
       \/ /\ ~Fresh
          /\ ~Locked /\ waiting = <<>>
          /\ UseOverride(r) \/ AskBot(r)
          /\ UNCHANGED waiting
       \/ /\ ~Fresh
          /\ Locked \/ waiting # <<>>
          /\ waiting' = Enqueue(r)
          /\ phase' = [phase EXCEPT ![r] = "queued"]
          /\ UNCHANGED <<cache, fetch, allow, failed>>
    /\ UNCHANGED <<bot, override>>

(* Mutant of Refreshed: no second check under the lock.                     *)
NeverRefreshed == FALSE

(* The lock is handed to the first in the queue, which checks again.        *)
Refreshed == Fresh

Acquire(r) ==
    /\ waiting # <<>> /\ r = Head(waiting)
    /\ ~Locked
    /\ waiting' = Tail(waiting)
    /\ \/ /\ Refreshed
          /\ Admit(r, cached, FALSE)
          /\ UNCHANGED cache
       \/ /\ ~Refreshed
          /\ UseOverride(r) \/ AskBot(r)
    /\ UNCHANGED <<bot, override>>

(* The bot reads its users for the answer.                                  *)
BotAnswers(t) ==
    /\ phase[t] = "fetching"
    /\ fetch[t].ids = None
    /\ fetch' = [fetch EXCEPT ![t].ids = active]
    /\ UNCHANGED <<bot, override, cache, waiting, phase, allow, failed>>

(* The answer arrives: refresh stores it, the lock is released and the      *)
(* request goes on.                                                         *)
Store(t) ==
    /\ phase[t] = "fetching"
    /\ fetch[t].ids # None
    /\ cached' = fetch[t].ids /\ cachedAt' = now
    /\ IF t = Startup
         THEN /\ phase' = Serve
              /\ fetch' = [fetch EXCEPT ![t] = NoFetch]
              /\ UNCHANGED <<allow, failed>>
         ELSE Admit(t, fetch[t].ids, FALSE)
    /\ UNCHANGED <<bot, override, waiting>>

(* Mutant of FailureTime: a failed refresh renews the time-to-live.         *)
RenewedByFailure == now

(* An error, a timeout or a status other than 200: refresh returns None and *)
(* the list stays as it is.                                                 *)
FailureTime == cachedAt

RefreshFails(t) ==
    /\ phase[t] = "fetching"
    /\ cachedAt' = FailureTime
    /\ IF t = Startup
         THEN /\ phase' = Serve
              /\ fetch' = [fetch EXCEPT ![t] = NoFetch]
              /\ UNCHANGED <<allow, failed>>
         ELSE Admit(t, cached, TRUE)
    /\ UNCHANGED <<bot, override, cached, waiting>>

(* The handler behind the middleware ends.                                  *)
Leave(r) ==
    /\ phase[r] = "admitted"
    /\ phase' = [phase EXCEPT ![r] = "idle"]
    /\ allow' = [allow EXCEPT ![r] = None]
    /\ failed' = [failed EXCEPT ![r] = FALSE]
    /\ UNCHANGED <<bot, override, cache, waiting, fetch>>

UserChanges(u) ==
    /\ active' = IF u \in active THEN active \ {u} ELSE active \cup {u}
    /\ since' = [since EXCEPT ![u] = now]
    /\ UNCHANGED <<override, cache, waiting, requests>>

CacheNext ==
    \/ Prime
    \/ \E t \in Tasks : BotAnswers(t) \/ Store(t) \/ RefreshFails(t)
    \/ \E r \in Requests : Arrive(r) \/ Acquire(r) \/ Leave(r)
    \/ \E u \in Users : UserChanges(u)

=============================================================================
