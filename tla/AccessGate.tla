----------------------------- MODULE AccessGate -----------------------------
(***************************************************************************)
(* What stands in front of the dashboard's API (create_app of              *)
(* src/dashboard/api.py): the allow-list of the ingest requests and the    *)
(* limiter of the logins, under one clock.                                 *)
(***************************************************************************)
EXTENDS ActiveUsersCache, LoginLimiter

CONSTANT MaxTime    \* bound of the clock
ASSUME GateAssumption == MaxTime \in Nat

vars == <<now, cacheVars, limiterVars>>

Init ==
    /\ now = 0
    /\ CacheInit
    /\ LimiterInit

LoginAttempt ==
    /\ Login(now)
    /\ UNCHANGED <<now, cacheVars>>

(* No query of the bot outlives its timeout, and a request that can go on   *)
(* does so before time passes.                                              *)
Tick ==
    /\ now < MaxTime
    /\ \A t \in Tasks : phase[t] = "fetching" => now < fetch[t].at + HttpTimeout
    /\ waiting # <<>> => Locked
    /\ now' = now + 1
    /\ Ages
    /\ UNCHANGED <<cacheVars, attempts>>

Same == UNCHANGED <<now, limiterVars>>

Next ==
    \/ CacheNext /\ Same
    \/ LoginAttempt
    \/ Tick

Spec == Init /\ [][Next]_vars

(* The event loop resumes a task that can go on; a query ends within its    *)
(* timeout, with an answer or an error.                                     *)
QueryEnds(t) == Store(t) \/ RefreshFails(t)

FairSpec ==
    /\ Spec
    /\ WF_vars(Prime /\ Same)
    /\ \A t \in Tasks : WF_vars(QueryEnds(t) /\ Same)
    /\ \A r \in Requests : WF_vars(Acquire(r) /\ Same)

-----------------------------------------------------------------------------
(* A request is let through with the list of a moment at most Ttl plus one  *)
(* query ago ("Pulls the allow-list from the bot every CACHE_TTL_SECONDS"), *)
(* unless the refresh it made itself failed; waiting behind others that     *)
(* fail does not excuse it.  One whose refresh failed still gets the cached *)
(* list if there is any.  With an override the list is the override.        *)
Admitted(r) == phase[r] # "admitted" /\ phase'[r] = "admitted"
Settled(u) == now - since[u] >= Ttl + HttpTimeout

AllowListFresh ==
    [][\A r \in Requests : Admitted(r) =>
         /\ cached # None \/ ~failed'[r] => allow'[r] # None
         /\ override # None => allow'[r] = override
         /\ override = None /\ ~failed'[r] =>
              \A u \in Users : Settled(u) => (u \in allow'[r] <=> u \in active)]_vars

(* "Holds a lock so concurrent requests don't hammer the bot": successful   *)
(* refreshes are a Ttl apart, however many requests wait.                   *)
RefreshesApart ==
    [][cachedAt' # cachedAt /\ cached # None => cachedAt' - cachedAt >= Ttl]_vars

(* The limiter's purpose, "N attempts per window-seconds per client IP":    *)
(* no window holds more than RateMax attempts that were let through, and    *)
(* only those count, so a client that keeps trying is not locked out.       *)
LoginsLimited ==
    /\ SumFunction(passed) <= RateMax
    /\ Len(Recent(now)) = SumFunction(passed)

-----------------------------------------------------------------------------
(* A request that waits for the lock is let through in the end, also when   *)
(* every refresh before it fails.                                           *)
RequestsPass ==
    \A r \in Requests : phase[r] = "queued" ~> phase[r] = "admitted"

=============================================================================
