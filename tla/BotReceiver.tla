----------------------------- MODULE BotReceiver -----------------------------
(***************************************************************************)
(* The bot-ingest REST endpoints of src/ingestion/rest/bot_receiver.py.    *)
(*                                                                         *)
(* The trading bot keeps an outbox and posts every event until it reads an *)
(* ok reply, so an event may arrive several times, also concurrently.      *)
(* Every HTTP request is one asyncio task of the platform; its database    *)
(* round trips are the points where it is suspended, so each of them is an *)
(* action here.  The database is PostgreSQL at READ COMMITTED: a statement *)
(* sees the rows committed when it starts, and an INSERT that meets the    *)
(* same event_id in another open transaction waits for that transaction.   *)
(***************************************************************************)
EXTENDS Integers, FiniteSets, Sequences

CONSTANTS
    Events,      \* what the bot has to report
    Identified,  \* the events that carry an event_id (legacy ones do not)
    Malformed,   \* the identified events whose event_id is not a UUID
    Kind,        \* [Events -> Kinds]: the endpoint an event is posted to
    User,        \* [Events -> user ids]: payload.user_id
    Scope,       \* [Events -> (user, coin, side)]: what a back-link must share
    Entered,     \* the signals whose action is ENTER
    EntryTime,   \* [trade events -> Int]: payload.entry_time
    Messages,    \* the HTTP bodies the bot may post
    AllowLists,  \* the values request.state.allowed_user_ids may have
    Requests,    \* the HTTP requests; each is one delivery
    Before,      \* the link window: 5 minutes before entry_time ...
    After,       \* ... to 1 minute after it
    MaxTime,     \* bound on the platform's clock
    None         \* no row, no allow-list

Kinds == {"signal", "trade", "marker", "regime", "snapshot"}

(* A body posted to /signals is a list of signals; every other endpoint     *)
(* takes one payload.  Two payloads of one list are the same event only if  *)
(* they carry the same event_id.                                            *)
IsMessage(m) ==
    /\ m.events \in Seq(Events)
    /\ m.events # << >>
    /\ IF m.to = "signals"
       THEN /\ \A i \in DOMAIN m.events : Kind[m.events[i]] = "signal"
            /\ \A i, j \in DOMAIN m.events :
                  m.events[i] = m.events[j] => i = j \/ m.events[i] \in Identified
       ELSE Len(m.events) = 1 /\ m.to = Kind[m.events[1]]

ASSUME EventAssumption ==
    /\ Kind \in [Events -> Kinds]
    /\ Identified \subseteq Events
    /\ Malformed \subseteq Identified
    /\ \A e \in Identified : Kind[e] # "snapshot"
    /\ None \notin [req : Requests, ev : Events]

ASSUME MessageAssumption == \A m \in Messages : IsMessage(m)

ASSUME TimeAssumption ==
    /\ MaxTime \in Nat /\ Before \in Nat /\ After \in Nat
    /\ \A e \in Events : Kind[e] = "trade" => EntryTime[e] \in Int

(* A database row: the event it stores and the request that inserted it.    *)
Row == [req : Requests, ev : Events]

VARIABLES
    up,        \* _session_factory is set: the application has started
    now,       \* the platform's clock
    acked,     \* the events the bot has seen an ok reply for
    rows,      \* the committed rows
    link,      \* [Row -> Row or None]: the committed trade_outcome_id of a signal
    phase,     \* [Requests -> Phases]: the await a request is suspended at
    msg,       \* [Requests -> body with its allow-list, or None]
    existing,  \* [Requests -> set of events]: what the dedupe query returned
    left,      \* [Requests -> set of positions]: the records not inserted yet
    own,       \* [Requests -> set of events]: the rows of its open transaction
    stamp,     \* [Requests -> time]: the timestamp it gives its rows
    pick,      \* [Requests -> Row or None]: the signal its UPDATE selected
    inserted,  \* [Requests -> Nat]: the count of its reply ...
    skipped,   \* ... and the number of payloads it skipped
    named,     \* [Requests -> Row or None]: the row id of a duplicate reply
    reply      \* [Requests -> Replies]

table == <<rows, link>>
tally == <<inserted, skipped>>
vars == <<up, now, acked, table, phase, msg, existing, left, own, stamp, pick,
          tally, named, reply>>

Phases == {"idle", "lookup", "insert", "refetch", "pick", "update", "commit",
           "fallback", "fallback_commit", "done"}
OkReplies == {"stored", "duplicate", "batch"}
Replies == OkReplies \cup {"none", "rejected", "error", "lost"}

Active(r) == phase[r] \notin {"idle", "done"}
EventsOf(r) == {msg[r].events[i] : i \in DOMAIN msg[r].events}

Init ==
    /\ up = FALSE
    /\ now = 0
    /\ acked = {}
    /\ rows = {}
    /\ link = [w \in Row |-> None]
    /\ phase = [r \in Requests |-> "idle"]
    /\ msg = [r \in Requests |-> None]
    /\ existing = [r \in Requests |-> {}]
    /\ left = [r \in Requests |-> {}]
    /\ own = [r \in Requests |-> {}]
    /\ stamp = [r \in Requests |-> 0]
    /\ pick = [r \in Requests |-> None]
    /\ inserted = [r \in Requests |-> 0]
    /\ skipped = [r \in Requests |-> 0]
    /\ named = [r \in Requests |-> None]
    /\ reply = [r \in Requests |-> "none"]

-----------------------------------------------------------------------------
(* The database.                                                            *)

RowsOf(e) == {w \in rows : w.ev = e}
Stored == {w.ev : w \in rows}

(* _find_by_event_id: never finds a payload without event_id.               *)
FindByEventId(e) == IF e \in Identified THEN RowsOf(e) ELSE {}

(* The record whose INSERT is next: records go in in list order.            *)
First(r, p) == p \in left[r] /\ \A q \in left[r] : p <= q
Wants(r, e) ==
    /\ phase[r] \in {"insert", "fallback"}
    /\ \E p \in left[r] : First(r, p) /\ e = msg[r].events[p]

(* Mutant of Violates: without the constraint of migration c3d4e5f6a7b8.    *)
NoConstraint(r, e) == e \in Identified /\ e \in own[r]

(* The UNIQUE constraint on event_id rejects the INSERT.                    *)
Violates(r, e) == e \in Identified /\ (RowsOf(e) # {} \/ e \in own[r])

(* a's statement waits for the end of b's transaction: for the same         *)
(* event_id, or for the lock on the signal row both want to link.           *)
WaitsFor(a, b) ==
    /\ a # b
    /\ \/ \E e \in Identified : Wants(a, e) /\ e \in own[b]
       \/ /\ phase[a] = "update" /\ phase[b] = "commit"
          /\ pick[a] # None /\ pick[a] = pick[b]

Blocked(r) == \E b \in Requests : WaitsFor(r, b)

(* Mutant of Deadlocked: the server does not look for circles.              *)
NoDetector(r) == FALSE

(* Requests that wait for one another in a circle.                          *)
Deadlocked(r) ==
    \E S \in SUBSET Requests :
        /\ r \in S
        /\ \A a \in S : /\ \E b \in S : WaitsFor(a, b)
                        /\ \E b \in S : WaitsFor(b, a)

-----------------------------------------------------------------------------
(* How a handler ends: its session closes, which rolls back what it did not *)
(* commit, and the reply goes out.                                          *)

Finish(r, answer) ==
    /\ phase' = [phase EXCEPT ![r] = "done"]
    /\ own' = [own EXCEPT ![r] = {}]
    /\ reply' = [reply EXCEPT ![r] = answer]

Goto(r, next) ==
    /\ phase' = [phase EXCEPT ![r] = next]
    /\ UNCHANGED reply

(* _check_user_id: no allow-list means trust mode.                          *)
CheckUserId(m, allowed) ==
    allowed = None \/ \A i \in DOMAIN m.events : User[m.events[i]] \in allowed

(* _parse_event_id fails on one payload of the body: 400.                   *)
BadEventId(m) == \E i \in DOMAIN m.events : m.events[i] \in Malformed

(* What runs before the first await: the allow-list (403), the session      *)
(* factory (503), every event_id (400).  A marker goes straight to its      *)
(* INSERT .. ON CONFLICT, a snapshot to its INSERT.                         *)
ReceiveRequest(r, m, allowed) ==
    /\ phase[r] = "idle"
    /\ \E i \in DOMAIN m.events : m.events[i] \notin acked
    /\ msg' = [msg EXCEPT ![r] = [to |-> m.to, events |-> m.events,
                                  allowed |-> allowed]]
    /\ IF ~CheckUserId(m, allowed) \/ ~up \/ BadEventId(m)
       THEN Finish(r, "rejected") /\ UNCHANGED left
       ELSE /\ Goto(r, IF m.to \in {"marker", "snapshot"} THEN "insert" ELSE "lookup")
            /\ left' = [left EXCEPT ![r] = DOMAIN m.events]
            /\ UNCHANGED own
    /\ UNCHANGED <<up, now, acked, table, existing, stamp, pick, tally, named>>

(* receive_signal, receive_trade, receive_regime: the dedupe query.         *)
LookupOne(r) ==
    /\ phase[r] = "lookup" /\ msg[r].to # "signals"
    /\ LET found == FindByEventId(msg[r].events[1])
       IN \/ /\ found # {}
             /\ \E w \in found : named' = [named EXCEPT ![r] = w]
             /\ Finish(r, "duplicate")
             /\ UNCHANGED stamp
          \/ /\ found = {}
             /\ Goto(r, "insert")
             /\ stamp' = [stamp EXCEPT ![r] = now]
             /\ UNCHANGED <<own, named>>
    /\ UNCHANGED <<up, now, acked, table, msg, existing, left, pick, tally>>

(* The positions of a batch whose event is not in the set known.            *)
Records(r, known) == {i \in DOMAIN msg[r].events : msg[r].events[i] \notin known}

(* receive_signals: one IN query, then the records it does not know.        *)
LookupBatch(r) ==
    /\ phase[r] = "lookup" /\ msg[r].to = "signals"
    /\ LET known == {e \in EventsOf(r) : FindByEventId(e) # {}}
       IN /\ existing' = [existing EXCEPT ![r] = known]
          /\ left' = [left EXCEPT ![r] = Records(r, known)]
          /\ skipped' = [skipped EXCEPT ![r] =
                            Cardinality(DOMAIN msg[r].events \ Records(r, known))]
          /\ IF Records(r, known) = {}
             THEN Finish(r, "batch")
             ELSE Goto(r, "insert") /\ UNCHANGED own
    /\ stamp' = [stamp EXCEPT ![r] = now]
    /\ UNCHANGED <<up, now, acked, table, msg, pick, inserted, named>>

(* One record is flushed; after the last one a trade goes on to its         *)
(* back-link, the others commit.                                            *)
InsertRow(r) ==
    /\ phase[r] = "insert"
    /\ ~Blocked(r)
    /\ \E p \in left[r] :
          LET e == msg[r].events[p] IN
          /\ First(r, p)
          /\ ~Violates(r, e)
          /\ own' = [own EXCEPT ![r] = @ \cup {e}]
          /\ left' = [left EXCEPT ![r] = @ \ {p}]
          /\ Goto(r, IF left[r] # {p} THEN "insert"
                     ELSE IF msg[r].to = "trade" THEN "pick" ELSE "commit")
    /\ UNCHANGED <<up, now, acked, table, msg, existing, stamp, pick, tally, named>>

(* Mutant of InsertConflict: the fallback of a batch resumes at the record  *)
(* that conflicted, although the rollback undid the ones before it.         *)
ConflictResumes(r) ==
    /\ phase[r] = "insert" /\ msg[r].to = "signals"
    /\ ~Blocked(r)
    /\ \E p \in left[r] : First(r, p) /\ Violates(r, msg[r].events[p])
    /\ Goto(r, "fallback")
    /\ own' = [own EXCEPT ![r] = {}]
    /\ UNCHANGED <<up, now, acked, table, msg, existing, left, stamp, pick, tally, named>>

(* The INSERT conflicts.  IntegrityError rolls the session back: a signal   *)
(* or a regime label is answered as a duplicate, a trade asks a second      *)
(* session for the row, a batch falls back to one transaction per record.   *)
(* A marker's ON CONFLICT DO NOTHING reads the row in the same session.     *)
InsertConflict(r) ==
    /\ phase[r] = "insert"
    /\ ~Blocked(r)
    /\ \E p \in left[r] : First(r, p) /\ Violates(r, msg[r].events[p])
    /\ \/ /\ msg[r].to \in {"signal", "regime"}
          /\ Finish(r, "duplicate")
          /\ UNCHANGED left
       \/ /\ msg[r].to \in {"trade", "marker"}
          /\ Goto(r, "refetch")
          /\ UNCHANGED <<own, left>>
       \/ /\ msg[r].to = "signals"
          /\ Goto(r, "fallback")
          /\ own' = [own EXCEPT ![r] = {}]
          /\ left' = [left EXCEPT ![r] = Records(r, existing[r])]
    /\ UNCHANGED <<up, now, acked, table, msg, existing, stamp, pick, tally, named>>

(* Mutant of Refetch: the id of the record whose flush failed.              *)
NoRefetch(r) ==
    /\ phase[r] = "refetch"
    /\ Finish(r, "duplicate")
    /\ UNCHANGED <<up, now, acked, table, msg, existing, left, stamp, pick, tally, named>>

(* The id of the row that won; none if the query finds nothing.             *)
Refetch(r) ==
    /\ phase[r] = "refetch"
    /\ LET found == FindByEventId(msg[r].events[1])
       IN \E w \in IF found = {} THEN {None} ELSE found :
             named' = [named EXCEPT ![r] = w]
    /\ Finish(r, "duplicate")
    /\ UNCHANGED <<up, now, acked, table, msg, existing, left, stamp, pick, tally>>

-----------------------------------------------------------------------------
(* The back-link of a trade: one UPDATE whose subquery selects the signal.  *)

Distance(a, b) == IF a < b THEN b - a ELSE a - b

(* Mutant of Candidates: no lower bound on the signal's age.                *)
AnyEarlier(e) ==
    {w \in rows : /\ Kind[w.ev] = "signal" /\ w.ev \in Entered
                  /\ Scope[w.ev] = Scope[e]
                  /\ link[w] = None
                  /\ stamp[w.req] <= EntryTime[e] + After}

(* The committed ENTER signals of the same user, coin and side, not linked  *)
(* yet, that were stamped inside the window around the trade's entry.       *)
Candidates(e) ==
    {w \in rows : /\ Kind[w.ev] = "signal" /\ w.ev \in Entered
                  /\ Scope[w.ev] = Scope[e]
                  /\ link[w] = None
                  /\ EntryTime[e] - Before <= stamp[w.req]
                  /\ stamp[w.req] <= EntryTime[e] + After}

Closest(e) ==
    {w \in Candidates(e) : \A v \in Candidates(e) :
        Distance(stamp[w.req], EntryTime[e]) <= Distance(stamp[v.req], EntryTime[e])}

(* The subquery runs on the snapshot of the statement, without FOR UPDATE.  *)
PickSignal(r) ==
    /\ phase[r] = "pick"
    /\ LET near == Closest(msg[r].events[1])
       IN \E w \in IF near = {} THEN {None} ELSE near :
             pick' = [pick EXCEPT ![r] = w]
    /\ Goto(r, "update")
    /\ UNCHANGED <<up, now, acked, table, msg, existing, left, own, stamp, tally, named>>

(* The UPDATE locks the selected row, waiting for another trade that has    *)
(* it; the only condition it then checks again is the row's id.             *)
UpdateLink(r) ==
    /\ phase[r] = "update"
    /\ ~Blocked(r)
    /\ Goto(r, "commit")
    /\ UNCHANGED <<up, now, acked, table, msg, existing, left, own, stamp, pick, tally, named>>

(* The open transaction becomes durable: its rows and its link, at once.    *)
Persist(r) ==
    /\ rows' = rows \cup {[req |-> r, ev |-> e] : e \in own[r]}
    /\ link' = IF phase[r] = "commit" /\ pick[r] # None
               THEN [link EXCEPT ![pick[r]] = [req |-> r, ev |-> msg[r].events[1]]]
               ELSE link

(* The count a batch reports after its one commit: len(records).            *)
RecordCount(r) == Cardinality(Records(r, existing[r]))

Commit(r) ==
    /\ phase[r] = "commit"
    /\ Persist(r)
    /\ inserted' = [inserted EXCEPT ![r] = RecordCount(r)]
    /\ Finish(r, IF msg[r].to = "signals" THEN "batch" ELSE "stored")
    /\ UNCHANGED <<up, now, acked, msg, existing, left, stamp, pick, skipped, named>>

-----------------------------------------------------------------------------
(* The fallback of receive_signals: the records one by one, each in a       *)
(* transaction of its own, counting those that conflict.                    *)

FallbackInsert(r) ==
    /\ phase[r] = "fallback"
    /\ ~Blocked(r)
    /\ \E p \in left[r] :
          /\ First(r, p)
          /\ ~Violates(r, msg[r].events[p])
          /\ own' = [own EXCEPT ![r] = {msg[r].events[p]}]
          /\ left' = [left EXCEPT ![r] = @ \ {p}]
    /\ Goto(r, "fallback_commit")
    /\ UNCHANGED <<up, now, acked, table, msg, existing, stamp, pick, tally, named>>

FallbackSkip(r) ==
    /\ phase[r] = "fallback"
    /\ ~Blocked(r)
    /\ \E p \in left[r] :
          /\ First(r, p)
          /\ Violates(r, msg[r].events[p])
          /\ left' = [left EXCEPT ![r] = @ \ {p}]
          /\ skipped' = [skipped EXCEPT ![r] = @ + 1]
          /\ IF left[r] = {p} THEN Finish(r, "batch")
             ELSE UNCHANGED <<phase, own, reply>>
    /\ UNCHANGED <<up, now, acked, table, msg, existing, stamp, pick, inserted, named>>

FallbackCommit(r) ==
    /\ phase[r] = "fallback_commit"
    /\ Persist(r)
    /\ inserted' = [inserted EXCEPT ![r] = @ + 1]
    /\ IF left[r] = {} THEN Finish(r, "batch")
       ELSE Goto(r, "fallback") /\ own' = [own EXCEPT ![r] = {}]
    /\ UNCHANGED <<up, now, acked, msg, existing, left, stamp, pick, skipped, named>>

-----------------------------------------------------------------------------
(* What goes wrong: any other database error is a 500, and so is a commit   *)
(* whose confirmation is lost after the server made it durable.             *)

Abort(r) ==
    /\ Finish(r, "error")
    /\ UNCHANGED <<up, now, acked, table, msg, existing, left, stamp, pick, tally, named>>

DbError(r) == Active(r) /\ Abort(r)

(* PostgreSQL breaks a circle of waiting transactions by aborting one.      *)
DeadlockVictim(r) == Deadlocked(r) /\ Abort(r)

CommitUnconfirmed(r) ==
    /\ phase[r] \in {"commit", "fallback_commit"}
    /\ Persist(r)
    /\ Finish(r, "error")
    /\ UNCHANGED <<up, now, acked, msg, existing, left, stamp, pick, tally, named>>

(* The process dies: open transactions roll back, no reply goes out.        *)
Crash ==
    /\ up
    /\ up' = FALSE
    /\ phase' = [r \in Requests |-> IF Active(r) THEN "done" ELSE phase[r]]
    /\ reply' = [r \in Requests |-> IF Active(r) THEN "lost" ELSE reply[r]]
    /\ own' = [r \in Requests |-> {}]
    /\ UNCHANGED <<now, acked, table, msg, existing, left, stamp, pick, tally, named>>

Start ==
    /\ ~up
    /\ up' = TRUE
    /\ UNCHANGED <<now, acked, table, phase, msg, existing, left, own, stamp, pick,
                   tally, named, reply>>

-----------------------------------------------------------------------------
(* The environment: the bot reads a reply (or never does), time passes.     *)

(* Mutant of AckReply: every reply counts.                                  *)
AckAnyReply(r) ==
    /\ reply[r] \in OkReplies \cup {"error"}
    /\ acked' = acked \cup EventsOf(r)
    /\ UNCHANGED <<up, now, table, phase, msg, existing, left, own, stamp, pick,
                   tally, named, reply>>

AckReply(r) ==
    /\ reply[r] \in OkReplies
    /\ acked' = acked \cup EventsOf(r)
    /\ UNCHANGED <<up, now, table, phase, msg, existing, left, own, stamp, pick,
                   tally, named, reply>>

Tick ==
    /\ now < MaxTime
    /\ now' = now + 1
    /\ UNCHANGED <<up, acked, table, phase, msg, existing, left, own, stamp, pick,
                   tally, named, reply>>

(* The steps a request takes when nothing goes wrong.                       *)
Step(r) ==
    \/ LookupOne(r) \/ LookupBatch(r)
    \/ InsertRow(r) \/ InsertConflict(r) \/ Refetch(r)
    \/ PickSignal(r) \/ UpdateLink(r) \/ Commit(r)
    \/ FallbackInsert(r) \/ FallbackSkip(r) \/ FallbackCommit(r)

Next ==
    \/ \E r \in Requests :
          \/ \E m \in Messages, allowed \in AllowLists : ReceiveRequest(r, m, allowed)
          \/ Step(r)
          \/ DbError(r)
          \/ DeadlockVictim(r)
          \/ CommitUnconfirmed(r)
          \/ AckReply(r)
    \/ Crash
    \/ Start
    \/ Tick

Spec == Init /\ [][Next]_vars

(* The event loop resumes every task whose statement has returned, and the  *)
(* server's deadlock detector runs.  Nothing else is certain: not that the  *)
(* bot sends or reads, not that errors stay away.                           *)
Fairness ==
    \A r \in Requests : WF_vars(Step(r)) /\ WF_vars(DeadlockVictim(r))

FairSpec == Spec /\ Fairness

-----------------------------------------------------------------------------
(* Types.                                                                   *)

Bodies == [to : Kinds \cup {"signals"}, events : Seq(Events), allowed : AllowLists]

ServerTypes ==
    /\ now \in 0..MaxTime
    /\ acked \subseteq Events
    /\ rows \subseteq Row
    /\ link \in [Row -> Row \cup {None}]

HandlerTypes ==
    /\ phase \in [Requests -> Phases]
    /\ reply \in [Requests -> Replies]
    /\ msg \in [Requests -> Bodies \cup {None}]
    /\ own \in [Requests -> SUBSET Events]
    /\ left \in [Requests -> SUBSET Nat]

RequestTypes ==
    /\ existing \in [Requests -> SUBSET Events]
    /\ stamp \in [Requests -> 0..MaxTime]
    /\ pick \in [Requests -> Row \cup {None}]
    /\ inserted \in [Requests -> Nat]
    /\ skipped \in [Requests -> Nat]
    /\ named \in [Requests -> Row \cup {None}]

(* Every variable keeps its type: rows and links are database rows, and     *)
(* what a handler holds are events, positions and counts.                   *)
TypeOK == up \in BOOLEAN /\ ServerTypes /\ HandlerTypes /\ RequestTypes

-----------------------------------------------------------------------------
(* Safety.                                                                  *)

(* However often an event with an event_id is delivered, and however its    *)
(* deliveries interleave, one row stores it.                                *)
UniqueEventId ==
    \A v, w \in rows : v.ev = w.ev /\ v.ev \in Identified => v = w

(* The outbox may forget what was answered ok: an ok reply, also one that   *)
(* says duplicate or counts skipped payloads, means that every event of the *)
(* body is committed.                                                       *)
OkReplyStored ==
    \A r \in Requests : reply[r] \in OkReplies => EventsOf(r) \subseteq Stored

(* The id a duplicate trade or marker is answered with is the id of the one *)
(* row that stores it, never null.                                          *)
DuplicateNamesRow ==
    \A r \in Requests :
        /\ reply[r] = "duplicate" /\ msg[r].to \in {"trade", "marker"}
        => named[r] \in RowsOf(msg[r].events[1])

(* A trade explains at most one signal, although the trade is delivered     *)
(* again: its row and its link commit together or not at all.               *)
OneSignalPerTrade ==
    \A v, w \in rows :
        /\ link[v] # None /\ link[w] # None
        /\ link[v].ev = link[w].ev /\ link[v].ev \in Identified
        => v = w

(* A link joins a committed ENTER signal and a committed trade of the same  *)
(* user, coin and side, with the signal inside the window of the entry.     *)
LinkSound ==
    \A w \in Row :
        link[w] # None =>
            LET t == link[w].ev IN
            /\ w \in rows /\ link[w] \in rows
            /\ w.ev \in Entered /\ Kind[t] = "trade" /\ Scope[w.ev] = Scope[t]
            /\ EntryTime[t] - Before <= stamp[w.req]
            /\ stamp[w.req] <= EntryTime[t] + After

(* The comment of the back-link: "only if not already linked (idempotent)". *)
(* A linked signal would then keep its trade.                               *)
LinkKept ==
    [][\A w \in Row : link[w] # None => link'[w] = link[w]]_vars

-----------------------------------------------------------------------------
(* Liveness.                                                                *)

(* No request waits for ever: neither two batches that insert the same      *)
(* signals in opposite orders, nor a trade behind the lock of another one.  *)
RequestsEnd == \A r \in Requests : Active(r) ~> phase[r] = "done"

(* What the receiver promises the outbox (see ExactlyOnceIngest).           *)
Ingest == INSTANCE ExactlyOnceIngest WITH table <- rows
IngestSpec == Ingest!Spec

=============================================================================
