---------------------------- MODULE ExchangeFeed ----------------------------
(***************************************************************************)
(* HyperliquidWsClient (src/ingestion/ws/hyperliquid_ws.py): one socket    *)
(* that is opened again whenever it closes, and the subscriptions that     *)
(* follow _desired_coins.  Two tasks use the socket: start, which opens it *)
(* and reads it, and the _periodic_sync task of the open connection.       *)
(* update_coins and stop are called by others between their awaits.        *)
(*                                                                         *)
(* The exchange is external: it takes the messages of a connection in the  *)
(* order they were sent, may close it at any time, and sends data while    *)
(* something is subscribed.                                                *)
(***************************************************************************)
EXTENDS Naturals, Sequences, SequencesExt

CONSTANTS
    Coins,
    MaxWire     \* bound: send waits while this many messages are unread

ASSUME FeedAssumption == MaxWire \in Nat \ {0}

VARIABLES
    running,    \* _running
    desired,    \* _desired_coins
    subscribed, \* _subscribed_coins
    main,       \* where start is suspended
    err,        \* an exception is on its way out of _connect_and_listen
    sync,       \* the _periodic_sync task: "none", "asleep" or "busy"
    job,        \* what the task that subscribes has left to do
    link,       \* the connection: "none", "open" or "closed"
    wire,       \* messages sent on it and not read yet
    server      \* the subscriptions the exchange holds for it

connection == <<link, wire, server>>
vars == <<running, desired, subscribed, main, err, sync, job, connection>>

Channels == {"trades", "l2Book"}
Message(op, ch, c) == [op |-> op, ch |-> ch, coin |-> c]

(* The coins still to add and to remove, and the one being sent: how many   *)
(* of its two messages are out.                                             *)
NoJob == [add |-> {}, remove |-> {}, coin |-> {}, sent |-> 0]
Idle == job = NoJob

Init ==
    /\ running = TRUE
    /\ desired \in SUBSET Coins \ {{}}
    /\ subscribed = {}
    /\ main = "connecting" /\ err = FALSE
    /\ sync = "none"
    /\ job = NoJob
    /\ link = "none" /\ wire = <<>> /\ server = {}

-----------------------------------------------------------------------------
(* start: the next connection, or the end, once one has been left.          *)
AfterConnection ==
    main' = IF running THEN (IF err THEN "backoff" ELSE "connecting") ELSE "ended"

(* Mutant of Forget: what was subscribed on the last connection is kept.    *)
Remember == subscribed

(* _connect_and_listen up to the first send.                                *)
Forget == {}

Connect ==
    /\ main = "connecting"
    /\ link' = "open" /\ wire' = <<>> /\ server' = {}
    /\ subscribed' = Forget
    /\ job' = [NoJob EXCEPT !.add = desired \ Forget]
    /\ main' = "subscribing"
    /\ UNCHANGED <<running, desired, err, sync>>

ConnectFails ==
    /\ main = "connecting"
    /\ main' = IF running THEN "backoff" ELSE "ended"
    /\ UNCHANGED <<running, desired, subscribed, err, sync, job, connection>>

BackoffEnds ==
    /\ main = "backoff"
    /\ main' = IF running THEN "connecting" ELSE "ended"
    /\ err' = FALSE
    /\ UNCHANGED <<running, desired, subscribed, sync, job, connection>>

(* _subscribe_coin and _unsubscribe_coin, for the task that runs them: one  *)
(* message at a time, then the bookkeeping.                                 *)
Sends == main = "subscribing" \/ sync = "busy"

PickCoin ==
    /\ Sends /\ job.coin = {}
    /\ \E c \in IF job.add # {} THEN job.add ELSE job.remove :
        job' = [job EXCEPT !.coin = {c}]
    /\ UNCHANGED <<running, desired, subscribed, main, err, sync, connection>>

Operation == IF job.add # {} THEN "subscribe" ELSE "unsubscribe"
Channel == IF job.sent = 0 THEN "trades" ELSE "l2Book"

Send ==
    /\ Sends /\ job.coin # {} /\ job.sent < 2
    /\ link = "open" /\ Len(wire) < MaxWire
    /\ \E c \in job.coin : wire' = Append(wire, Message(Operation, Channel, c))
    /\ job' = [job EXCEPT !.sent = @ + 1]
    /\ UNCHANGED <<running, desired, subscribed, main, err, sync, link, server>>

CoinDone ==
    /\ Sends /\ job.sent = 2
    /\ subscribed' = IF Operation = "subscribe" THEN subscribed \cup job.coin
                                                ELSE subscribed \ job.coin
    /\ job' = [add |-> job.add \ job.coin, remove |-> job.remove \ job.coin,
               coin |-> {}, sent |-> 0]
    /\ UNCHANGED <<running, desired, main, err, sync, connection>>

(* send raises: the sync task ends and leaves it to start to notice; in the *)
(* initial subscription the exception leaves the connection.                *)
SendFails ==
    /\ Sends /\ job.coin # {} /\ job.sent < 2 /\ link = "closed"
    /\ job' = NoJob
    /\ IF main = "subscribing" THEN main' = "closing" /\ err' = TRUE /\ sync' = "none"
                               ELSE sync' = "none" /\ UNCHANGED <<main, err>>
    /\ UNCHANGED <<running, desired, subscribed, connection>>

-----------------------------------------------------------------------------
(* All initial subscriptions are out: the sync task starts.                 *)
Listen ==
    /\ main = "subscribing" /\ Idle
    /\ main' = "listening"
    /\ sync' = IF running THEN "asleep" ELSE "none"
    /\ UNCHANGED <<running, desired, subscribed, err, job, connection>>

(* _periodic_sync after five seconds; it checks _running before it sleeps.  *)
SyncRound == [NoJob EXCEPT !.add = desired \ subscribed, !.remove = subscribed \ desired]

SyncWakes ==
    /\ sync = "asleep"
    /\ job' = SyncRound
    /\ sync' = "busy"
    /\ UNCHANGED <<running, desired, subscribed, main, err, connection>>

(* Mutant of SyncGoesOn: one round only.                                    *)
SyncOnce == "none"

SyncGoesOn == IF running THEN "asleep" ELSE "none"

SyncRests ==
    /\ sync = "busy" /\ Idle
    /\ sync' = SyncGoesOn
    /\ UNCHANGED <<running, desired, subscribed, main, err, job, connection>>

(* Leaving the loop over the messages cancels the sync task, wherever it is.*)
Cancelled == "none"

LeaveLoop(failure) ==
    /\ main' = "closing" /\ err' = failure
    /\ sync' = Cancelled /\ job' = NoJob
    /\ UNCHANGED <<running, desired, subscribed>>

(* Mutant of BreaksOff: _running is checked between connections only.       *)
ReadsOn == FALSE

(* A message arrives: data is handled, or the loop is left after a stop.    *)
BreaksOff == ~running

ReadMessage ==
    /\ main = "listening" /\ link = "open" /\ server # {}
    /\ BreaksOff
    /\ LeaveLoop(FALSE)
    /\ UNCHANGED connection

(* The connection closed: the loop ends, with an exception unless the close *)
(* was a normal one.                                                        *)
ReadClose ==
    /\ main = "listening" /\ link = "closed"
    /\ \E failure \in BOOLEAN : LeaveLoop(failure)
    /\ UNCHANGED connection

(* async with closes what is left of the connection.                        *)
CloseSocket ==
    /\ main = "closing"
    /\ link' = "none" /\ wire' = <<>> /\ server' = {}
    /\ AfterConnection
    /\ UNCHANGED <<running, desired, subscribed, err, sync, job>>

-----------------------------------------------------------------------------
UpdateCoins ==
    /\ running
    /\ desired' \in SUBSET Coins \ {{}}
    /\ UNCHANGED <<running, subscribed, main, err, sync, job, connection>>

(* stop: _ws is the connection if there is one, which it closes.            *)
Stop ==
    /\ running
    /\ running' = FALSE
    /\ link' = IF link = "open" THEN "closed" ELSE link
    /\ UNCHANGED <<desired, subscribed, main, err, sync, job, wire, server>>

(* The exchange: takes a message, or closes the connection.                 *)
Taken(s, m) ==
    IF m.op = "subscribe" THEN s \cup {<<m.ch, m.coin>>} ELSE s \ {<<m.ch, m.coin>>}

ServerTakes ==
    /\ link = "open" /\ wire # <<>>
    /\ server' = Taken(server, Head(wire))
    /\ wire' = Tail(wire)
    /\ UNCHANGED <<running, desired, subscribed, main, err, sync, job, link>>

LinkCloses ==
    /\ link = "open"
    /\ link' = "closed"
    /\ UNCHANGED <<running, desired, subscribed, main, err, sync, job, wire, server>>

Sending == PickCoin \/ Send \/ CoinDone \/ SendFails
Syncing == SyncWakes \/ SyncRests
Reading == ReadMessage \/ ReadClose
Connecting == Connect \/ ConnectFails \/ BackoffEnds \/ Listen \/ CloseSocket

Next == Sending \/ Syncing \/ Reading \/ Connecting
        \/ UpdateCoins \/ Stop \/ ServerTakes \/ LinkCloses

Spec == Init /\ [][Next]_vars

(* Tasks that can go on do, timers expire, an attempt to connect ends, the  *)
(* exchange takes what is sent and sends data for what is subscribed.       *)
FairSpec ==
    /\ Spec
    /\ WF_vars(Sending) /\ WF_vars(Syncing) /\ WF_vars(Reading)
    /\ WF_vars(Connecting) /\ WF_vars(ServerTakes)

-----------------------------------------------------------------------------
(* What the exchange will hold once it has read the wire.                   *)
Settled == FoldLeft(Taken, server, wire)

(* _subscribed_coins is what the exchange sends, on both channels: of each  *)
(* coin that is not being sent, also across reconnections and updates that  *)
(* arrive in the middle of a round.                                         *)
SubscribedIsServed ==
    link = "open" /\ main \in {"subscribing", "listening"} =>
        \A c \in Coins \ job.coin : \A ch \in Channels :
            <<ch, c>> \in Settled <=> c \in subscribed

-----------------------------------------------------------------------------
(* "Sync subscriptions every 5 seconds -- independent of incoming           *)
(* messages": on a connection that lasts, the exchange ends up sending the  *)
(* desired coins, whenever they were changed.                               *)
Served == {p[2] : p \in server}

DesiredIsServed ==
    \A D \in SUBSET Coins \ {{}} :
        <>[](running /\ desired = D /\ main = "listening" /\ link = "open")
            => <>[](Served = D)

(* After stop, start returns: also when it was about to connect, or in the  *)
(* middle of the first subscriptions.                                       *)
StopEnds == ~running ~> main = "ended"

=============================================================================
