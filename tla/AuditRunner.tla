----------------------------- MODULE AuditRunner -----------------------------
(***************************************************************************)
(* AuditRunner (src/audit/runner.py) and the token its checks share        *)
(* (src/observability/health/_bot_auth.py).  Every check has a loop, and   *)
(* /api/audit/run executes all of them once more, so that two executions   *)
(* of one check overlap.                                                   *)
(*                                                                         *)
(* An execution is split at its awaits: the login, the request to the bot, *)
(* its queries (one step: what they return is any of Observed) and the     *)
(* rows it stores.  A request's next check, and a storage check, begin in  *)
(* a step of their own where the code awaits nothing: more orders than the *)
(* code has, never fewer.                                                  *)
(***************************************************************************)
EXTENDS AuditChecks, FiniteSets, FiniteSetsExt

CONSTANTS
    Registered,     \* the lists of checks a runner may have been given
    Requests,       \* requests to /api/audit/run at a time
    Observed,       \* for each check, what its queries may return
    BotReplies,     \* what a check may make of the bot's reply
    HasCredentials, \* AUDIT_BOT_USERNAME and AUDIT_BOT_PASSWORD are set
    MaxRefusals     \* how often the bot begins to refuse old tokens: a bound

ASSUME AuditAssumption ==
    /\ \A list \in Registered : list \in Seq(Checks) /\ list # <<>>
    /\ Requests \cap Checks = {}
    /\ MaxRefusals \in Nat /\ HasCredentials \in BOOLEAN

VARIABLES
    checks,     \* _checks, in the order of their registration
    running,    \* _running
    run,        \* the executions: their phase, check, bot's reply and token
    last,       \* last_result of each check, NoResult before
    score,      \* _global_score
    token,      \* _cached_token: the bot's generation, and whether it is young
    bot,        \* the generation of tokens the bot accepts
    began,      \* the executions under way in the order they began
    overtaken,  \* those that a later one of their check has finished before
    outdated    \* the checks whose last result was read before the one it replaced

auditVars == <<checks, running, run, last, score, token, bot, began, overtaken, outdated>>

NoResult == [status |-> "PENDING", score |-> 100, findings |-> <<>>]
NoToken == [of |-> -1, young |-> FALSE]
Unreachable == -1

Loops == Range(checks)
Executions == Loops \cup Requests
NameOf(e) == IF e \in Requests THEN checks[run[e].at] ELSE e
At(p, i) == [phase |-> p, at |-> i, reply |-> Unreachable, of |-> -1]

AuditInit ==
    /\ checks \in Registered
    /\ running = TRUE
    /\ run = [e \in Executions |-> At(IF e \in Requests THEN "idle" ELSE "begin", 1)]
    /\ last = [c \in Loops |-> NoResult]
    /\ score = 100
    /\ token = NoToken
    /\ bot = 0
    /\ began = <<>>
    /\ overtaken = {}
    /\ outdated = {}

-----------------------------------------------------------------------------
(* Mutant of Cached: the age of the token is not asked.                     *)
CachedForGood == token # NoToken

(* get_bot_token's cache.                                                   *)
Cached == token # NoToken /\ token.young

Phase(e, p) == run' = [run EXCEPT ![e].phase = p]

(* The check's run() up to its first await.                                 *)
Begin(e) ==
    /\ run[e].phase = "begin"
    /\ began' = Append(began, e)
    /\ run' = [run EXCEPT ![e] =
                 IF NameOf(e) \notin AsksBot \/ ~HasCredentials
                 THEN [@ EXCEPT !.phase = "query", !.reply = Unreachable]
                 ELSE IF Cached THEN [@ EXCEPT !.phase = "ask", !.of = token.of]
                 ELSE [@ EXCEPT !.phase = "login"]]
    /\ UNCHANGED <<checks, running, last, score, token, bot, overtaken, outdated>>

(* The login answers with a token, or not at all: then the check goes on    *)
(* without the bot.  Of two logins the later one is kept.                   *)
LoggedIn(e) ==
    /\ run[e].phase = "login"
    /\ token' = [of |-> bot, young |-> TRUE]
    /\ run' = [run EXCEPT ![e].phase = "ask", ![e].of = bot]
    /\ UNCHANGED <<checks, running, last, score, bot, began, overtaken, outdated>>

LoginFails(e) ==
    /\ run[e].phase = "login"
    /\ run' = [run EXCEPT ![e].phase = "query", ![e].reply = Unreachable]
    /\ UNCHANGED <<checks, running, last, score, token, bot, began, overtaken, outdated>>

(* GET /api/hl/trading/history.  A refusal and an error are the same to the *)
(* check, and neither clears the cached token.                              *)
AskBot(e) ==
    /\ run[e].phase = "ask"
    /\ \E reply \in IF run[e].of = bot THEN BotReplies \cup {Unreachable} ELSE {Unreachable} :
          run' = [run EXCEPT ![e] = [phase |-> "query", at |-> @.at, reply |-> reply, of |-> -1]]
    /\ UNCHANGED <<checks, running, last, score, token, bot, began, overtaken, outdated>>

-----------------------------------------------------------------------------
WorstScore(results) == Min({results[c].score : c \in Loops})

After(e) == IF e \notin Requests THEN "persist"
            ELSE IF run[e].at = Len(checks) THEN "idle" ELSE "begin"
NextAt(e) == IF e \in Requests THEN (run[e].at % Len(checks)) + 1 ELSE 1

(* Mutant of Concludes: run_all_now leaves the global score to the loops.   *)
NeverConcludes(e) == FALSE

(* The request's last check: run_all_now updates the global score.          *)
Concludes(e) == e \in Requests /\ run[e].at = Len(checks)

(* The end of e's execution of its check, which then goes on to phase p.    *)
Leave(e, p) ==
    /\ run' = [run EXCEPT ![e] = At(p, NextAt(e))]
    /\ began' = SelectSeq(began, LAMBDA x : x # e)

(* run() returned: its result replaces the last one, whichever began first. *)
Store(e, result) ==
    LET c == NameOf(e)
        earlier == {x \in Executions : /\ NameOf(x) = c
                                       /\ \E i, j \in DOMAIN began :
                                             i < j /\ began[i] = x /\ began[j] = e}
    IN  /\ last' = [last EXCEPT ![c] = result]
        /\ score' = IF Concludes(e) THEN WorstScore(last') ELSE score
        /\ outdated' = IF e \in overtaken THEN outdated \cup {c} ELSE outdated \ {c}
        /\ overtaken' = (overtaken \cup earlier) \ {e}
        /\ Leave(e, After(e))

(* The queries; a consistency check without the bot's data makes none.      *)
Query(e) ==
    /\ run[e].phase = "query"
    /\ IF NameOf(e) = "consistency" /\ run[e].reply = Unreachable
         THEN Store(e, Result(Finding(TRUE, "warning", "BOT_UNREACHABLE")))
         ELSE \E o \in Observed[NameOf(e)] :
                Store(e, Result(Findings(NameOf(e), run[e].reply, o)))
    /\ UNCHANGED <<checks, running, token, bot>>

(* Mutant of AfterFailure: the exception ends the loop.                     *)
LoopEnds(e) == IF e \in Requests THEN After(e) ELSE "ended"

(* A scheduled execution's exception is logged, and the loop goes on.       *)
AfterFailure(e) == IF e \in Requests THEN After(e) ELSE IF running THEN "sleep" ELSE "ended"

(* A query raises: the last result stays.                                   *)
QueryFails(e) ==
    /\ run[e].phase = "query"
    /\ NameOf(e) # "storage" /\ ~(NameOf(e) = "consistency" /\ run[e].reply = Unreachable)
    /\ Leave(e, AfterFailure(e))
    /\ overtaken' = overtaken \ {e}
    /\ score' = IF Concludes(e) THEN WorstScore(last) ELSE score
    /\ UNCHANGED <<checks, running, last, token, bot, outdated>>

(* _persist, whose own failure is only logged, and _update_global_score.    *)
Persist(e) ==
    /\ run[e].phase = "persist"
    /\ Phase(e, IF running THEN "sleep" ELSE "ended")
    /\ score' = WorstScore(last)
    /\ UNCHANGED <<checks, running, last, token, bot, began, overtaken, outdated>>

(* _run_loop after its sleep.                                               *)
Wake(e) ==
    /\ run[e].phase = "sleep"
    /\ Phase(e, IF running THEN "begin" ELSE "ended")
    /\ UNCHANGED <<checks, running, last, score, token, bot, began, overtaken, outdated>>

(* POST /api/audit/run.                                                     *)
RunAllNow(e) ==
    /\ e \in Requests /\ run[e].phase = "idle"
    /\ Phase(e, "begin")
    /\ UNCHANGED <<checks, running, last, score, token, bot, began, overtaken, outdated>>

Stop ==
    /\ running /\ running' = FALSE
    /\ UNCHANGED <<checks, run, last, score, token, bot, began, overtaken, outdated>>

(* The environment: the token's 50 minutes pass, and the bot refuses the    *)
(* tokens it gave out, because it restarted or because their key changed.   *)
TokenAges ==
    /\ token.young /\ token' = [of |-> token.of, young |-> FALSE]
    /\ UNCHANGED <<checks, running, run, last, score, bot, began, overtaken, outdated>>
BotRefuses ==
    /\ bot < MaxRefusals /\ bot' = bot + 1
    /\ UNCHANGED <<checks, running, run, last, score, token, began, overtaken, outdated>>

Step(e) == Begin(e) \/ LoggedIn(e) \/ LoginFails(e) \/ AskBot(e) \/ Query(e)
           \/ QueryFails(e) \/ Persist(e) \/ Wake(e)

AuditNext == (\E e \in Executions : Step(e) \/ RunAllNow(e)) \/ Stop \/ TokenAges \/ BotRefuses

(* Time passes and a scheduled execution goes on.  Of a query that is made  *)
(* again and again, and of a login, not every one fails.                    *)
Places == 1..Max({Len(list) : list \in Registered})
Fairness ==
    /\ WF_auditVars(TokenAges)
    /\ \A i \in Places : LET Scheduled(Do(_)) == i \in DOMAIN checks /\ Do(checks[i]) IN
         /\ WF_auditVars(Scheduled(Step))
         /\ SF_auditVars(Scheduled(Query))
         /\ SF_auditVars(Scheduled(LoggedIn))

AuditSpec == AuditInit /\ [][AuditNext]_auditVars /\ Fairness

-----------------------------------------------------------------------------
Severities(c) == {last[c].findings[i].severity : i \in DOMAIN last[c].findings}
Failed(c) == Severities(c) \cap {"error", "critical"} # {}
Warned(c) == "warning" \in Severities(c)

(* No result waits to be counted: no loop is between its result and its     *)
(* update, no request between its first result and its answer.              *)
Settled == \A e \in Executions :
    run[e].phase # "persist" /\ (e \in Requests => run[e].phase = "idle")

(* The global score is that of the worst finding there is, whatever loops   *)
(* and requests stored in whatever order, and a check's status is that of   *)
(* its own worst finding, whatever was found after it.                      *)
ScoreIsWorst == Settled =>
    /\ \A c \in Loops : last[c] # NoResult =>
         last[c].status = IF Failed(c) THEN "ERROR" ELSE IF Warned(c) THEN "WARNING" ELSE "OK"
    /\ score = IF \E c \in Loops : Failed(c) THEN 40
               ELSE IF \E c \in Loops : Warned(c) THEN 75 ELSE 100

(* A result that was read before the one it replaced is replaced in turn,   *)
(* unless the runner is stopped.                                            *)
Outdated(i) == i \in DOMAIN checks /\ checks[i] \in outdated
OutdatedIsReplaced == \A i \in Places : Outdated(i) ~> (~Outdated(i) \/ ~running)

(* A token that the bot refuses is not used for good, although a refusal    *)
(* does not clear it.                                                       *)
Refused == token # NoToken /\ token.of # bot
DeadTokenReplaced == Refused ~> (~Refused \/ ~running)

=============================================================================
