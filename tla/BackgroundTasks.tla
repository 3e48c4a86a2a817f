--------------------------- MODULE BackgroundTasks ---------------------------
(***************************************************************************)
(* Two tasks that PlatformRunner starts beside the event pipeline, and the *)
(* trades that both are about: TelegramSummaryService                      *)
(* (src/observability/alerts/telegram_summary.py), which once a day sends  *)
(* what happened in the 24 hours before, and SnapshotService               *)
(* (src/features/snapshot_service.py), whose rows the enriched dataset     *)
(* joins to a trade as its features at entry.                              *)
(*                                                                         *)
(* now counts units of elapsed time, Hour of them an hour.  A task acts at *)
(* the full unit; trades and market events fall between the unit they are  *)
(* noted with and the next.  How long an await takes is chosen when it     *)
(* begins: the lookups and messages of a summary take units of their own.  *)
(* The wall clock, which the wait is computed from, may be put forward or  *)
(* back by an hour.  Day, SendAt and Interval scale both schedules down.   *)
(***************************************************************************)
EXTENDS Integers, Sequences, FiniteSets, FiniteSetsExt, SequencesExt

CONSTANTS
    Coins,          \* the tracked coins
    Day, Hour,      \* units of a day and of an hour
    SendAt,         \* _send_hour and _send_minute, on the wall clock
    Interval,       \* _interval of the snapshots
    Starts,         \* readings of the wall clock when the platform starts
    Changes,        \* clock changes: when, and by how much
    None,
    MaxSend,        \* bounds: how long after its hour a round of messages ends,
    MaxTime,        \* how long a behaviour is,
    MaxUpdates,     \* how often the features of a coin change,
    MaxFailures,    \* how many writes and queries fail,
    MaxDelay        \* and how long a commit takes

(* A round is over within the hour, and an hour and a round within a day:   *)
(* nothing in the code sees to it, each await has a timeout but the         *)
(* recipients are not counted.                                              *)
ASSUME ScheduleAssumption ==
    /\ Day \in Nat \ {0} /\ Hour \in Nat \ {0}
    /\ MaxSend \in Nat /\ MaxSend < Hour /\ Hour + MaxSend < Day
    /\ SendAt \in 0..(Day - 1) /\ Starts \subseteq 0..(Day - 1)
    /\ Interval \in Nat \ {0}
    /\ \A c \in Changes : c.by \in {-Hour, 0, Hour} /\ c.at \in Nat \ {0}
    /\ None \notin Nat

VARIABLES
    now,        \* time since the start
    wallAtStart, change,    \* of the wall clock
    running,
    doing,      \* what the summary task waits for: its hour ("sleep"), the
                \* query of the trade's user ("gather"), the end of its round
    summaryAt,  \* when it has it; None: the task ended
    rounds,     \* when each round of messages was due
    queries,    \* the user's queries: when due, when run, whether it went
                \* well, whether it tells of the trade, how far the trade was
    snapshotAt, \* when the snapshot task wakes, None while it writes
    writing,    \* the rows it writes; none and no wake: the task ended
    snapshots,  \* feature_snapshots
    asOf,       \* the last market event in each coin's features
    trade,      \* a trade of the bot: when it was entered and left, and
                \* whether its row is in trade_outcomes
    updates, failures

summaryVars == <<doing, summaryAt, rounds, queries>>
snapshotVars == <<snapshotAt, writing, snapshots>>
clock == <<now, wallAtStart, change>>
vars == <<clock, running, summaryVars, snapshotVars, asOf, trade, updates, failures>>

-----------------------------------------------------------------------------
(* datetime.now(tz), in units since midnight of the day of the start.       *)
Wall(t) == wallAtStart + t + (IF t >= change.at THEN change.by ELSE 0)
DayOf(t) == Wall(t) \div Day

(* Mutants of SecondsUntilNextRun: always a whole day; the time that really *)
(* passes until the clock shows the hour again.                             *)
AlwaysADay(t) == Day
ElapsedTime(t) == Min({w \in 1..(2 * Day) : Wall(t + w) % Day = SendAt})

(* _seconds_until_next_run: the difference of two readings of the clock.    *)
SecondsUntilNextRun(t) ==
    LET target == DayOf(t) * Day + SendAt
    IN  (IF target <= Wall(t) THEN target + Day ELSE target) - Wall(t)

Init ==
    /\ now = 0
    /\ wallAtStart \in Starts
    /\ change \in Changes
    /\ running = TRUE
    /\ doing = "sleep"
    /\ summaryAt = SecondsUntilNextRun(0)
    /\ rounds = <<>> /\ queries = <<>>
    /\ snapshotAt = Interval
    /\ writing = {}
    /\ snapshots = {}
    /\ asOf = [c \in Coins |-> 0]
    /\ trade = None
    /\ updates = 0 /\ failures = 0

MayFail(ok) == ok \/ failures < MaxFailures
Counted(ok) == failures' = IF ok THEN failures ELSE failures + 1

(* No task is due: no await takes longer than was chosen.                   *)
AllAsleep == now # summaryAt /\ now # snapshotAt

(* A commit takes MaxDelay units at most.                                   *)
Tick ==
    /\ now < MaxTime /\ AllAsleep
    /\ \A r \in writing : now < r.timestamp + MaxDelay
    /\ now' = now + 1
    /\ UNCHANGED <<wallAtStart, change, running, summaryVars, snapshotVars, asOf, trade,
                   updates, failures>>

-----------------------------------------------------------------------------
(* How far the trade is, for a query at this moment.                        *)
Progress ==
    IF trade = None \/ trade.exit = None THEN "open"
    ELSE IF trade.stored THEN "stored" ELSE "left"

(* _gather_data: exit_time > now() - interval '24 hours', from the moment   *)
(* of the query.                                                            *)
InWindow == Progress = "stored" /\ trade.exit >= now - Day

(* The summary task wakes; a stopped one ends.  The recipients are looked   *)
(* up, and those before the trade's user get their messages.                *)
Wake ==
    /\ doing = "sleep" /\ now = summaryAt
    /\ IF running
         THEN /\ rounds' = Append(rounds, now)
              /\ doing' = "gather"
              /\ summaryAt' \in now..(now + MaxSend)
         ELSE summaryAt' = None /\ UNCHANGED <<rounds, doing>>
    /\ UNCHANGED <<clock, running, queries, snapshotVars, asOf, trade, updates, failures>>

(* The turn of the trade's user; not ok: the query failed, or no recipients *)
(* could be looked up.  A message that fails is only logged.                *)
Gather(ok) ==
    /\ doing = "gather" /\ now = summaryAt
    /\ MayFail(ok) /\ Counted(ok)
    /\ queries' = Append(queries, [due |-> Last(rounds), at |-> now, ok |-> ok,
                                   tells |-> ok /\ InWindow, trade |-> Progress])
    /\ doing' = "send"
    /\ summaryAt' \in now..(Last(rounds) + MaxSend)
    /\ UNCHANGED <<clock, running, rounds, snapshotVars, asOf, trade, updates>>

(* All messages are out: only now the next wait is computed.                *)
RoundEnds ==
    /\ doing = "send" /\ now = summaryAt
    /\ IF running THEN doing' = "sleep" /\ summaryAt' = now + SecondsUntilNextRun(now)
                  ELSE summaryAt' = None /\ UNCHANGED doing
    /\ UNCHANGED <<clock, running, rounds, queries, snapshotVars, asOf, trade, updates, failures>>

-----------------------------------------------------------------------------
(* The snapshot loop looks at _running after each round only.               *)
NextRound == IF running THEN now + Interval ELSE None

(* _take_snapshots up to its await: a row for each coin whose snapshot      *)
(* could be computed, all of the same time.                                 *)
TakeSnapshots(failing) ==
    /\ now = snapshotAt
    /\ MayFail(failing = {}) /\ Counted(failing = {})
    /\ writing' = {[coin |-> c, timestamp |-> now, asOf |-> asOf[c]] : c \in Coins \ failing}
    /\ snapshotAt' = IF writing' = {} THEN NextRound ELSE None
    /\ UNCHANGED <<clock, running, summaryVars, snapshots, asOf, trade, updates>>

(* The commit of all the rows, or of none: they are not tried again.        *)
Commit(ok) ==
    /\ writing # {}
    /\ MayFail(ok) /\ Counted(ok)
    /\ snapshots' = IF ok THEN snapshots \cup writing ELSE snapshots
    /\ writing' = {}
    /\ snapshotAt' = NextRound
    /\ UNCHANGED <<clock, running, summaryVars, asOf, trade, updates>>

-----------------------------------------------------------------------------
(* The exchange: a trade or a book changes the features of a coin.          *)
MarketEvent(c) ==
    /\ AllAsleep /\ running /\ updates < MaxUpdates /\ asOf[c] # now
    /\ asOf' = [asOf EXCEPT ![c] = now]
    /\ updates' = updates + 1
    /\ UNCHANGED <<clock, running, summaryVars, snapshotVars, trade, failures>>

(* The bot enters a trade, leaves it, and posts it, perhaps late.           *)
Enter(c) ==
    /\ AllAsleep /\ running /\ trade = None
    /\ trade' = [coin |-> c, entry |-> now, exit |-> None, stored |-> FALSE]
    /\ UNCHANGED <<clock, running, summaryVars, snapshotVars, asOf, updates, failures>>

Leave ==
    /\ AllAsleep /\ running /\ trade # None /\ trade.exit = None
    /\ trade' = [trade EXCEPT !.exit = now]
    /\ UNCHANGED <<clock, running, summaryVars, snapshotVars, asOf, updates, failures>>

PostTrade ==
    /\ AllAsleep /\ running /\ Progress = "left"
    /\ trade' = [trade EXCEPT !.stored = TRUE]
    /\ UNCHANGED <<clock, running, summaryVars, snapshotVars, asOf, updates, failures>>

(* PlatformRunner.stop: both services are told, and at its end the tasks    *)
(* are cancelled wherever they wait.                                        *)
Stop ==
    /\ running
    /\ running' = FALSE
    /\ UNCHANGED <<clock, summaryVars, snapshotVars, asOf, trade, updates, failures>>

CancelTasks ==
    /\ ~running
    /\ summaryAt' = None /\ snapshotAt' = None /\ writing' = {}
    /\ UNCHANGED <<clock, running, doing, rounds, queries, snapshots, asOf, trade, updates, failures>>

Next ==
    \/ Tick
    \/ Wake \/ RoundEnds
    \/ \E ok \in BOOLEAN : Gather(ok) \/ Commit(ok)
    \/ \E failing \in SUBSET Coins : TakeSnapshots(failing)
    \/ \E c \in Coins : MarketEvent(c) \/ Enter(c)
    \/ Leave \/ PostTrade
    \/ Stop \/ CancelTasks

Spec == Init /\ [][Next]_vars

-----------------------------------------------------------------------------
(* Mutant of FeaturesAtEntry: the row closest in time.                      *)
ClosestFeatures(t) ==
    LET rows == {r \in snapshots : r.coin = t.coin}
        Off(r) == IF r.timestamp > t.entry THEN r.timestamp - t.entry ELSE t.entry - r.timestamp
    IN  {r \in rows : \A q \in rows : Off(r) <= Off(q)}

(* build: the lateral join of a trade with feature_snapshots.               *)
FeaturesAtEntry(t) ==
    LET rows == {r \in snapshots : r.coin = t.coin /\ r.timestamp <= t.entry}
    IN  {r \in rows : \A q \in rows : q.timestamp <= r.timestamp}

-----------------------------------------------------------------------------
(* Which trades no summary tells of, though no query failed and the trade   *)
(* was posted in time: if it was still open, or not entered, at the user's  *)
(* query before (or at the start) and is stored by this one, then it was    *)
(* left within the moments by which this query comes later after its hour   *)
(* than the one before did.  All others lie in the 24 hours the query       *)
(* reads: the hours themselves are never more than a day of elapsed time    *)
(* apart, also when the clock is put back, during a round or between two,   *)
(* and the local day has 25 hours.                                          *)
MissedOnlyBetweenWindows ==
    \A i \in DOMAIN queries :
        LET q == queries[i]
            before == IF i = 1 THEN [due |-> 0, at |-> 0, trade |-> "open"] ELSE queries[i - 1]
            later == (q.at - q.due) - (before.at - before.due)
        IN  q.ok /\ q.trade = "stored" /\ before.trade = "open" /\ ~q.tells
            => trade.exit < before.at + later

(* "Runs once per day at a fixed local time": on every local day that is    *)
(* over, except on the day of a clock change and its neighbours, one round  *)
(* was due, at SendAt; a change leaves none or two of them, never three.    *)
OncePerDay ==
    \A d \in 0..(DayOf(now) - 1) :
        LET times == {rounds[i] : i \in {j \in DOMAIN rounds : DayOf(rounds[j]) = d}}
            started == d > 0 \/ wallAtStart < SendAt
            changed == change.by # 0 /\ d - DayOf(change.at) \in -1..1
        IN  running => /\ Cardinality(times) <= 2
                       /\ started /\ ~changed =>
                             /\ Cardinality(times) = 1
                             /\ \A t \in times : Wall(t) % Day = SendAt

(* The enriched dataset gives a trade only features that were known when it *)
(* was entered, however late a snapshot is committed; and once a row from   *)
(* after the entry is stored the join gives the same features for ever, so  *)
(* that two reports over one trade agree.                                   *)
EntryFeaturesSettle ==
    [][trade # None =>
         /\ \A r \in FeaturesAtEntry(trade) : r.asOf <= trade.entry
         /\ (\E r \in snapshots : r.coin = trade.coin /\ r.timestamp > trade.entry)
              => FeaturesAtEntry(trade)' = FeaturesAtEntry(trade)]_vars
=============================================================================
