------------------------- MODULE ExchangeFeedProofs -------------------------
(***************************************************************************)
(* The proof that _subscribed_coins is what the exchange sends, for any    *)
(* coins, any length of the wire, and any order of reconnections, updates, *)
(* sync rounds, closes and stops.                                          *)
(*                                                                         *)
(* The invariant also says what the exchange will hold of the coin that is *)
(* being sent (OnItsWay), and that a job is never replaced while one of    *)
(* its messages is out: only one task sends at a time (OneSender).         *)
(***************************************************************************)
EXTENDS ExchangeFeed, FoldLemmas, SequenceTheorems

Pairs == Channels \X Coins
Messages == [op : {"subscribe", "unsubscribe"}, ch : Channels, coin : Coins]

Jobs == [add : SUBSET Coins, remove : SUBSET Coins, coin : SUBSET Coins, sent : 0..2]

TypeOK ==
    /\ running \in BOOLEAN
    /\ desired \in SUBSET Coins
    /\ subscribed \in SUBSET Coins
    /\ main \in {"connecting", "backoff", "subscribing", "listening", "closing", "ended"}
    /\ err \in BOOLEAN
    /\ sync \in {"none", "asleep", "busy"}
    /\ job \in Jobs
    /\ link \in {"none", "open", "closed"}
    /\ wire \in Seq(Messages)
    /\ server \in SUBSET Pairs

(* One task sends at a time, and what is being sent is one coin of its job. *)
OneSender ==
    /\ sync # "none" => main = "listening"
    /\ ~Sends => Idle
    /\ job.coin = {} => job.sent = 0
    /\ \A c, d \in job.coin : c = d

(* Which messages about a coin are out already.                             *)
Out(c, ch) == c \in job.coin /\ (job.sent = 2 \/ (job.sent = 1 /\ ch = "trades"))

OnItsWay ==
    link = "open" /\ main \in {"subscribing", "listening"} =>
        \A c \in Coins, ch \in Channels :
            <<ch, c>> \in Settled
                <=> IF Out(c, ch) THEN Operation = "subscribe" ELSE c \in subscribed

IInv == TypeOK /\ OneSender /\ OnItsWay

-----------------------------------------------------------------------------
(* What the exchange holds, one message of the wire after the other.        *)

Takes(it, list, base, n) ==
    /\ \A k \in 0..n : it[k] \in SUBSET Pairs
    /\ it[0] = base
    /\ \A k \in 1..n : it[k] = Taken(it[k - 1], list[k])

LEMMA TakenType ==
  ASSUME NEW s \in SUBSET Pairs, NEW m \in Messages PROVE Taken(s, m) \in SUBSET Pairs
<1>1. <<m.ch, m.coin>> \in Pairs
  BY DEF Messages, Pairs
<1> QED BY <1>1 DEF Taken

LEMMA FoldTakes ==
  ASSUME NEW list \in Seq(Messages), NEW base \in SUBSET Pairs
  PROVE  \E it : Takes(it, list, base, Len(list)) /\ FoldLeft(Taken, base, list) = it[Len(list)]
<1> DEFINE n == Len(list)
           D == 1..n
           V == SUBSET Pairs
           step == [w \in D \X V |-> Taken(w[2], list[w[1]])]
           last == [s \in SUBSET D |-> Max(s)]
           next(it, s) == IF s = {} THEN base ELSE Taken(it[s \ {Max(s)}], list[Max(s)])
           Equals(it) == it = [s \in SUBSET D |-> next(it, s)]
           iter == CHOOSE it : Equals(it)
<1>1. n \in Nat /\ DOMAIN list = D /\ IsFiniteSet(D) /\ \A i \in D : list[i] \in Messages
  BY FS_Interval
<1>2. FoldLeft(Taken, base, list) = iter[D]
  BY <1>1 DEF FoldLeft, MapThenFoldSet
<1>3. \A s \in SUBSET D : s # {} => Max(s) \in s
  <2> SUFFICES ASSUME NEW s \in SUBSET D, s # {} PROVE Max(s) \in s
    OBVIOUS
  <2>1. s \in SUBSET Nat /\ \A i \in s : i <= n
    BY <1>1
  <2> HIDE DEF n
  <2> QED BY <1>1, <2>1, LargestOf
<1>4. PICK it : Folds(it, D, V, base, step, last)
  <2>1. step \in [D \X V -> V]
    <3>1. ASSUME NEW w \in D \X V PROVE step[w] \in V
      <4>1. w[2] \in V /\ list[w[1]] \in Messages /\ step[w] = Taken(w[2], list[w[1]])
        BY <1>1
      <4> QED BY <4>1, TakenType
    <3> QED BY <3>1
  <2>2. Picks(last, D)
    BY <1>3 DEF Picks
  <2>3. base \in V
    OBVIOUS
  <2> HIDE DEF step, last, D, V
  <2> QED BY <1>1, <2>1, <2>2, <2>3, FoldExists
<1>5. it \in [SUBSET D -> V]
  BY <1>4 DEF Folds
<1>6. Equals(it)
  <2>1. ASSUME NEW s \in SUBSET D, s # {} PROVE it[s] = next(it, s)
    <3>1. Max(s) \in D /\ s \ {Max(s)} \in SUBSET D /\ last[s] = Max(s)
      BY <1>3, <2>1
    <3>2. it[s \ {Max(s)}] \in V
      BY <1>5, <3>1
    <3>3. it[s] = step[<<Max(s), it[s \ {Max(s)}]>>]
      <4> HIDE DEF step, last
      <4> QED BY <1>4, <2>1, <3>1 DEF Folds
    <3>4. step[<<Max(s), it[s \ {Max(s)}]>>] = Taken(it[s \ {Max(s)}], list[Max(s)])
      BY <3>1, <3>2
    <3> QED BY <2>1, <3>3, <3>4
  <2>2. it[{}] = base
    BY <1>4 DEF Folds
  <2> QED BY <1>5, <2>1, <2>2
<1>7. Equals(iter)
  <2> HIDE DEF Equals
  <2> QED BY <1>6
<1>8. \A s \in SUBSET D : iter[s] = next(iter, s)
  <2> HIDE DEF iter, next
  <2> QED BY <1>7
<1> DEFINE kt == [k \in 0..n |-> iter[1..k]]
<1>9. kt[0] = base
  <2>1. 1..0 = {} /\ {} \in SUBSET D /\ 0 \in 0..n
    BY <1>1
  <2> HIDE DEF iter
  <2> QED BY <1>8, <2>1
<1>10. ASSUME NEW k \in 1..n PROVE kt[k] = Taken(kt[k - 1], list[k])
  <2>1. k \in Nat /\ k - 1 \in 0..n /\ k \in 0..n /\ 1..k \in SUBSET D /\ 1..k # {}
    <3> HIDE DEF n, kt, iter
    <3>1. k \in Nat /\ 1 <= k /\ k <= n /\ n \in Nat
      BY <1>1
    <3>2. \A i \in 1..k : i \in 1..n
      BY <3>1
    <3>3. k \in 1..k
      BY <3>1
    <3>4. k - 1 \in 0..n /\ k \in 0..n
      BY <3>1
    <3>5. 1..k \in SUBSET (1..n) /\ 1..k # {}
      BY <3>2, <3>3
    <3> QED BY <3>1, <3>4, <3>5
  <2>2. Max(1..k) = k
    <3>1. 1..k \in SUBSET Nat /\ (\A i \in 1..k : i <= k) /\ k \in 1..k
      BY <2>1
    <3>2. Max(1..k) \in 1..k /\ \A i \in 1..k : i <= Max(1..k)
      BY <2>1, <3>1, LargestOf
    <3> QED BY <2>1, <3>1, <3>2
  <2>3. (1..k) \ {k} = 1..(k - 1)
    BY <2>1
  <2>4. iter[1..k] = next(iter, 1..k)
    BY <1>8, <2>1
  <2> HIDE DEF iter
  <2> QED BY <2>1, <2>2, <2>3, <2>4
<1>11. \A k \in 0..n : kt[k] \in V
  <2> DEFINE C == {k \in Nat : k <= n => kt[k] \in V}
  <2> HIDE DEF kt, n, V
  <2>1. 0 \in C
    BY <1>9 DEF V
  <2>2. ASSUME NEW k \in Nat, k \in C PROVE k + 1 \in C
    <3> SUFFICES ASSUME k + 1 <= n PROVE kt[k + 1] \in V
      OBVIOUS
    <3>1. k + 1 \in 1..n /\ (k + 1) - 1 = k /\ kt[k] \in V
      BY <1>1, <2>2
    <3>2. list[k + 1] \in Messages
      BY <1>1, <3>1
    <3>3. kt[k + 1] = Taken(kt[k], list[k + 1])
      BY <1>10, <3>1
    <3> QED BY <3>1, <3>2, <3>3, TakenType DEF V
  <2>3. \A k \in Nat : k \in C
    <3> HIDE DEF C
    <3> QED BY <2>1, <2>2, StepInduction
  <2> QED BY <1>1, <2>3
<1>12. FoldLeft(Taken, base, list) = kt[n]
  <2> HIDE DEF iter
  <2> QED BY <1>1, <1>2
<1> HIDE DEF kt
<1>13. Takes(kt, list, base, n)
  <2> HIDE DEF n
  <2> QED BY <1>9, <1>10, <1>11 DEF Takes
<1> QED BY <1>12, <1>13

(* Two lists of which one goes on where the other, d places later, starts.  *)
Shifted(f, g, d, n) == \A k \in 1..n : f[k + d] = g[k]

LEMMA TakesAlike ==
  ASSUME NEW n \in Nat, NEW d \in Nat, NEW f, NEW g, Shifted(f, g, d, n),
         NEW m, m = n + d, NEW it, NEW a, Takes(it, f, a, m),
         NEW jt, Takes(jt, g, it[d], n)
  PROVE  it[m] = jt[n]
<1> DEFINE C == {k \in Nat : k <= n => it[k + d] = jt[k]}
<1>1. 0 \in C
  BY DEF Takes
<1>2. ASSUME NEW k \in Nat, k \in C PROVE k + 1 \in C
  <2> SUFFICES ASSUME k + 1 <= n PROVE it[(k + 1) + d] = jt[k + 1]
    OBVIOUS
  <2>1. /\ k + 1 \in 1..n /\ (k + 1) - 1 = k /\ (k + 1) + d \in 1..n + d
        /\ ((k + 1) + d) - 1 = k + d /\ it[k + d] = jt[k]
    BY <1>2
  <2>2. it[(k + 1) + d] = Taken(it[k + d], f[(k + 1) + d])
    BY <2>1 DEF Takes
  <2>3. jt[k + 1] = Taken(jt[k], g[k + 1])
    BY <2>1 DEF Takes
  <2>4. f[(k + 1) + d] = g[k + 1]
    BY <2>1 DEF Shifted
  <2> QED BY <2>1, <2>2, <2>3, <2>4
<1>3. \A k \in Nat : k \in C
  <2> HIDE DEF C
  <2> QED BY <1>1, <1>2, StepInduction
<1> QED BY <1>3

LEMMA SettledType ==
  ASSUME NEW list \in Seq(Messages), NEW base \in SUBSET Pairs
  PROVE  FoldLeft(Taken, base, list) \in SUBSET Pairs
<1>1. PICK it : Takes(it, list, base, Len(list)) /\ FoldLeft(Taken, base, list) = it[Len(list)]
  BY FoldTakes
<1>2. Len(list) \in 0..Len(list)
  OBVIOUS
<1> QED BY <1>1, <1>2 DEF Takes

(* The exchange would hold nothing more of an empty wire, one message more  *)
(* of a longer one, and the same after it has taken the first.              *)
LEMMA NothingSent ==
  ASSUME NEW base \in SUBSET Pairs PROVE FoldLeft(Taken, base, << >>) = base
<1>1. << >> \in Seq(Messages) /\ Len(<< >>) = 0
  OBVIOUS
<1>2. PICK it : Takes(it, << >>, base, 0) /\ FoldLeft(Taken, base, << >>) = it[0]
  BY <1>1, FoldTakes
<1> QED BY <1>2 DEF Takes

LEMMA OneMoreSent ==
  ASSUME NEW list \in Seq(Messages), NEW base \in SUBSET Pairs, NEW m \in Messages
  PROVE  FoldLeft(Taken, base, Append(list, m)) = Taken(FoldLeft(Taken, base, list), m)
<1> DEFINE n == Len(list)
           longer == Append(list, m)
<1>1. /\ n \in Nat /\ longer \in Seq(Messages) /\ Len(longer) = n + 1 /\ longer[n + 1] = m
      /\ \A k \in 1..n : longer[k] = list[k]
  OBVIOUS
<1>2. PICK it : Takes(it, list, base, n) /\ FoldLeft(Taken, base, list) = it[n]
  BY FoldTakes
<1> HIDE DEF longer
<1>3. PICK jt : Takes(jt, longer, base, n + 1) /\ FoldLeft(Taken, base, longer) = jt[n + 1]
  BY <1>1, FoldTakes
<1> HIDE DEF n
<1>4. n + 1 \in 1..n + 1 /\ (n + 1) - 1 = n /\ n + 0 = n
  BY <1>1
<1>5. jt[n + 1] = Taken(jt[n], m)
  BY <1>1, <1>3, <1>4 DEF Takes
<1>6. Takes(jt, longer, base, n)
  <2>1. (\A k \in 0..n : k \in 0..n + 1) /\ (\A k \in 1..n : k \in 1..n + 1)
    BY <1>1
  <2> QED BY <1>1, <1>3, <1>4, <2>1 DEF Takes
<1>7. Shifted(longer, list, 0, n)
  <2>1. \A k \in 1..n : k + 0 = k
    BY <1>1
  <2> QED BY <1>1, <2>1 DEF Shifted
<1>8. n = n + 0 /\ n \in Nat /\ 0 \in Nat
  BY <1>1
<1>9. jt[0] = base /\ Takes(it, list, base, n)
  BY <1>2, <1>3 DEF Takes
<1>10. Takes(it, list, jt[0], n)
  BY <1>9
<1>11. jt[n] = it[n]
  BY <1>6, <1>7, <1>8, <1>10, TakesAlike
<1> QED BY <1>2, <1>3, <1>4, <1>5, <1>11 DEF longer

LEMMA FirstTaken ==
  ASSUME NEW list \in Seq(Messages), NEW base \in SUBSET Pairs, list # << >>
  PROVE  FoldLeft(Taken, Taken(base, Head(list)), Tail(list)) = FoldLeft(Taken, base, list)
<1> DEFINE n == Len(list) - 1
           rest == Tail(list)
           next == Taken(base, Head(list))
<1>1. /\ n \in Nat /\ Len(list) = n + 1 /\ Head(list) = list[1] /\ list[1] \in Messages
      /\ rest \in Seq(Messages) /\ Len(rest) = n /\ \A k \in 1..n : list[k + 1] = rest[k]
  <2>1. Len(list) \in Nat \ {0}
    BY EmptySeq
  <2> QED BY <2>1
<1>2. next \in SUBSET Pairs
  BY <1>1, TakenType
<1> HIDE DEF n, rest
<1>3. PICK it : Takes(it, list, base, n + 1) /\ FoldLeft(Taken, base, list) = it[n + 1]
  BY <1>1, FoldTakes
<1>4. it[1] = next
  <2>1. 1 \in 1..n + 1 /\ 1 - 1 = 0
    BY <1>1
  <2> QED BY <1>1, <1>3, <2>1 DEF Takes
<1> HIDE DEF next
<1>5. PICK jt : Takes(jt, rest, next, n) /\ FoldLeft(Taken, next, rest) = jt[n]
  BY <1>1, <1>2, FoldTakes
<1>6. it[n + 1] = jt[n]
  <2>1. n \in Nat /\ 1 \in Nat
    BY <1>1
  <2>2. Shifted(list, rest, 1, n)
    BY <1>1 DEF Shifted
  <2>3. Takes(it, list, base, n + 1) /\ Takes(jt, rest, it[1], n)
    BY <1>3, <1>4, <1>5
  <2> QED BY <2>1, <2>2, <2>3, TakesAlike
<1> QED BY <1>3, <1>5, <1>6 DEF next, rest

-----------------------------------------------------------------------------
(* The invariant, action by action.                                         *)

LEMMA NewJobs ==
  ASSUME NEW add \in SUBSET Coins, NEW remove \in SUBSET Coins
  PROVE  /\ NoJob \in Jobs /\ NoJob.coin = {} /\ NoJob.sent = 0
         /\ [NoJob EXCEPT !.add = add] \in Jobs
         /\ [NoJob EXCEPT !.add = add, !.remove = remove] \in Jobs
<1>1. NoJob \in Jobs /\ NoJob.coin = {} /\ NoJob.sent = 0
  BY DEF NoJob, Jobs
<1>2. [NoJob EXCEPT !.add = add] \in Jobs
  BY <1>1 DEF Jobs
<1>3. [NoJob EXCEPT !.add = add, !.remove = remove] \in Jobs
  BY <1>1 DEF Jobs
<1> QED BY <1>1, <1>2, <1>3

LEMMA InitInv == Init => IInv
<1> SUFFICES ASSUME Init PROVE IInv
  OBVIOUS
<1>1. TypeOK
  <2>1. << >> \in Seq(Messages) /\ {} \in SUBSET Pairs /\ {} \in SUBSET Coins
    OBVIOUS
  <2> QED BY <2>1, NewJobs DEF Init, TypeOK
<1>2. OneSender /\ OnItsWay
  BY DEF Init, OneSender, Idle, NoJob, OnItsWay
<1> QED BY <1>1, <1>2 DEF IInv

LEMMA TypeStep ==
  ASSUME TypeOK, [Next]_vars PROVE TypeOK'
<1> USE DEF TypeOK
<1>1. CASE PickCoin
  <2>1. PICK c \in job.add \cup job.remove : job' = [job EXCEPT !.coin = {c}]
    BY <1>1 DEF PickCoin
  <2> QED BY <1>1, <2>1 DEF PickCoin, connection, Jobs
<1>2. CASE Send
  <2>1. PICK c \in job.coin : wire' = Append(wire, Message(Operation, Channel, c))
    BY <1>2 DEF Send
  <2>2. Message(Operation, Channel, c) \in Messages
    <3>1. c \in Coins
      BY <2>1 DEF Jobs
    <3>2. Operation \in {"subscribe", "unsubscribe"} /\ Channel \in Channels
      BY DEF Operation, Channel, Channels
    <3> QED BY <3>1, <3>2 DEF Message, Messages
  <2>3. wire' \in Seq(Messages)
    BY <2>1, <2>2
  <2>4. job' \in Jobs
    <3>1. job' = [job EXCEPT !.sent = @ + 1] /\ job.sent + 1 \in 0..2
      BY <1>2 DEF Send, Jobs
    <3> QED BY <3>1 DEF Jobs
  <2> QED BY <1>2, <2>3, <2>4 DEF Send
<1>3. CASE CoinDone
  BY <1>3 DEF CoinDone, connection, Jobs
<1>4. CASE SendFails
  BY <1>4, NewJobs DEF SendFails, connection
<1>5. CASE Syncing
  <2>1. SyncRound \in Jobs
    BY NewJobs DEF SyncRound
  <2> QED BY <1>5, <2>1 DEF Syncing, SyncWakes, SyncRests, SyncGoesOn, connection
<1>6. CASE Reading
  <2>1. PICK failure \in BOOLEAN : LeaveLoop(failure) /\ UNCHANGED connection
    BY <1>6 DEF Reading, ReadMessage, ReadClose
  <2> QED BY <2>1, NewJobs DEF LeaveLoop, Cancelled, connection
<1>7. CASE Connecting
  <2>1. CASE Connect
    <3>1. [NoJob EXCEPT !.add = desired \ Forget] \in Jobs
      <4>1. desired \ Forget \in SUBSET Coins
        OBVIOUS
      <4> QED BY <4>1, NewJobs
    <3> QED BY <2>1, <3>1 DEF Connect, Forget
  <2>2. CASE ConnectFails \/ BackoffEnds \/ Listen
    BY <2>2 DEF ConnectFails, BackoffEnds, Listen, connection
  <2>3. CASE CloseSocket
    BY <2>3 DEF CloseSocket, AfterConnection
  <2> QED BY <1>7, <2>1, <2>2, <2>3 DEF Connecting
<1>8. CASE UpdateCoins \/ Stop
  BY <1>8 DEF UpdateCoins, Stop, connection
<1>9. CASE ServerTakes
  <2>1. wire # << >> /\ server' = Taken(server, Head(wire)) /\ wire' = Tail(wire)
    BY <1>9 DEF ServerTakes
  <2>2. Head(wire) \in Messages /\ Tail(wire) \in Seq(Messages)
    BY <2>1
  <2>3. server' \in SUBSET Pairs
    BY <2>1, <2>2, TakenType
  <2> QED BY <1>9, <2>1, <2>2, <2>3 DEF ServerTakes
<1>10. CASE LinkCloses
  BY <1>10 DEF LinkCloses
<1>11. CASE UNCHANGED vars
  BY <1>11 DEF vars, connection
<1> QED BY <1>1, <1>2, <1>3, <1>4, <1>5, <1>6, <1>7, <1>8, <1>9, <1>10, <1>11 DEF Next, Sending

LEMMA SenderStep ==
  ASSUME TypeOK, OneSender, [Next]_vars PROVE OneSender'
<1> USE DEF OneSender, Sends, Idle
<1>1. CASE PickCoin
  <2>1. PICK c : job' = [job EXCEPT !.coin = {c}]
    BY <1>1 DEF PickCoin
  <2> QED BY <1>1, <2>1 DEF PickCoin, TypeOK
<1>2. CASE Send
  BY <1>2 DEF Send, TypeOK
<1>3. CASE CoinDone
  BY <1>3 DEF CoinDone, TypeOK
<1>4. CASE SendFails
  BY <1>4 DEF SendFails, NoJob
<1>5. CASE Syncing
  BY <1>5 DEF Syncing, SyncWakes, SyncRests, SyncRound, SyncGoesOn, NoJob
<1>6. CASE Reading
  BY <1>6 DEF Reading, ReadMessage, ReadClose, LeaveLoop, Cancelled, NoJob
<1>7. CASE Connecting
  <2>1. CASE Connect
    BY <2>1 DEF Connect, NoJob
  <2>2. CASE ConnectFails \/ BackoffEnds \/ Listen
    BY <2>2 DEF ConnectFails, BackoffEnds, Listen
  <2>3. CASE CloseSocket
    BY <2>3 DEF CloseSocket, AfterConnection
  <2> QED BY <1>7, <2>1, <2>2, <2>3 DEF Connecting
<1>8. CASE UpdateCoins \/ Stop \/ ServerTakes \/ LinkCloses
  BY <1>8 DEF UpdateCoins, Stop, ServerTakes, LinkCloses
<1>9. CASE UNCHANGED vars
  BY <1>9 DEF vars
<1> QED BY <1>1, <1>2, <1>3, <1>4, <1>5, <1>6, <1>7, <1>8, <1>9 DEF Next, Sending

(* The two messages about a coin, and what its row in OnItsWay becomes.     *)
LEMMA SendServes ==
  ASSUME TypeOK, OneSender, OnItsWay, Send PROVE OnItsWay'
<1> SUFFICES ASSUME link = "open", main \in {"subscribing", "listening"},
                    NEW d \in Coins, NEW ch \in Channels
             PROVE  <<ch, d>> \in Settled'
                      <=> IF Out(d, ch)' THEN Operation' = "subscribe" ELSE d \in subscribed
  BY DEF OnItsWay, Send
<1>1. PICK c \in job.coin : wire' = Append(wire, Message(Operation, Channel, c))
  BY DEF Send
<1>2. /\ \A x \in job.coin : x = c
      /\ c \in Coins /\ job.sent \in 0..2 /\ job.sent < 2
      /\ job' = [job EXCEPT !.sent = @ + 1]
  BY <1>1 DEF Send, OneSender, TypeOK, Jobs
<1>3. job'.coin = job.coin /\ job'.sent = job.sent + 1 /\ job'.add = job.add
  BY <1>2 DEF TypeOK, Jobs
<1> DEFINE m == Message(Operation, Channel, c)
<1>4. /\ m \in Messages /\ m.coin = c /\ m.ch = Channel /\ (m.op = "subscribe" <=> Operation = "subscribe")
  <2>1. Operation \in {"subscribe", "unsubscribe"} /\ Channel \in Channels
    BY DEF Operation, Channel, Channels
  <2> QED BY <1>2, <2>1 DEF Message, Messages
<1> HIDE DEF m
<1>5. Settled' = Taken(Settled, m)
  <2>1. server' = server /\ wire' = Append(wire, m)
    BY <1>1 DEF Send, m
  <2>2. wire \in Seq(Messages) /\ server \in SUBSET Pairs
    BY DEF TypeOK
  <2> QED BY <1>4, <2>1, <2>2, OneMoreSent DEF Settled
<1>6. <<ch, d>> \in Settled' <=> IF <<ch, d>> = <<Channel, c>> THEN Operation = "subscribe"
                                                             ELSE <<ch, d>> \in Settled
  BY <1>4, <1>5 DEF Taken
<1>7. Operation' = Operation
  BY <1>3 DEF Operation
<1>8. <<ch, d>> \in Settled
        <=> IF Out(d, ch) THEN Operation = "subscribe" ELSE d \in subscribed
  BY DEF OnItsWay
<1>9. CASE d = c
  <2>1. Out(d, ch)' <=> job.sent + 1 = 2 \/ (job.sent + 1 = 1 /\ ch = "trades")
    BY <1>1, <1>3, <1>9 DEF Out
  <2>2. Out(d, ch) <=> job.sent = 1 /\ ch = "trades"
    BY <1>1, <1>2, <1>9 DEF Out
  <2>3. ch \in {"trades", "l2Book"} /\ (job.sent = 0 \/ job.sent = 1)
    BY <1>2 DEF Channels
  <2>4. CASE job.sent = 0
    BY <1>6, <1>7, <1>8, <1>9, <2>1, <2>2, <2>3, <2>4 DEF Channel
  <2>5. CASE job.sent = 1
    <3>1. job.sent + 1 = 2 /\ job.sent # 0
      BY <2>5
    <3>2. Out(d, ch)'
      BY <2>1, <3>1
    <3>3. Channel = "l2Book"
      BY <3>1 DEF Channel
    <3>4. ch = "trades" => Out(d, ch) /\ <<ch, d>> # <<Channel, c>>
      BY <2>2, <2>5, <3>3
    <3> QED BY <1>6, <1>7, <1>8, <1>9, <2>3, <3>2, <3>3, <3>4
  <2> QED BY <2>3, <2>4, <2>5
<1>10. CASE d # c
  <2>1. ~Out(d, ch) /\ ~Out(d, ch)'
    BY <1>2, <1>3, <1>10 DEF Out
  <2> QED BY <1>6, <1>8, <1>10, <2>1
<1> QED BY <1>9, <1>10

LEMMA ServedStep ==
  ASSUME TypeOK, OneSender, OnItsWay, [Next]_vars PROVE OnItsWay'
<1>1. CASE PickCoin
  <2>1. PICK x : job' = [job EXCEPT !.coin = {x}]
    BY <1>1 DEF PickCoin
  <2>2. job.coin = {} /\ job.sent = 0 /\ job'.sent = 0
    BY <1>1, <2>1 DEF PickCoin, OneSender, TypeOK, Jobs
  <2>3. \A c \in Coins, ch \in Channels : ~Out(c, ch) /\ ~Out(c, ch)'
    BY <2>2 DEF Out
  <2>4. UNCHANGED <<main, link, subscribed, Settled>>
    BY <1>1 DEF PickCoin, connection, Settled
  <2> QED BY <2>3, <2>4 DEF OnItsWay
<1>2. CASE Send
  BY <1>2, SendServes
<1>3. CASE CoinDone
  <2>1. /\ job.sent = 2 /\ job'.coin = {}
        /\ subscribed' = IF Operation = "subscribe" THEN subscribed \cup job.coin
                                                    ELSE subscribed \ job.coin
        /\ UNCHANGED <<main, link, Settled>>
    BY <1>3 DEF CoinDone, connection, Settled
  <2>2. \A c \in Coins, ch \in Channels : ~Out(c, ch)' /\ (Out(c, ch) <=> c \in job.coin)
    <3>1. \A c \in Coins, ch \in Channels : Out(c, ch) <=> c \in job.coin
      BY <2>1 DEF Out
    <3>2. \A c \in Coins, ch \in Channels : ~Out(c, ch)'
      BY <2>1 DEF Out
    <3> QED BY <3>1, <3>2
  <2>3. \A c \in Coins : c \in subscribed'
                          <=> IF c \in job.coin THEN Operation = "subscribe" ELSE c \in subscribed
    BY <2>1
  <2> QED BY <2>1, <2>2, <2>3 DEF OnItsWay
<1>4. CASE SyncWakes
  <2>1. job = NoJob /\ job' = SyncRound
    BY <1>4 DEF SyncWakes, OneSender, Sends, Idle
  <2>2. job.coin = {} /\ job'.coin = {}
    BY <2>1 DEF SyncRound, NoJob
  <2>3. \A c \in Coins, ch \in Channels : ~Out(c, ch) /\ ~Out(c, ch)'
    BY <2>2 DEF Out
  <2>4. UNCHANGED <<main, link, subscribed, Settled>>
    BY <1>4 DEF SyncWakes, connection, Settled
  <2> QED BY <2>3, <2>4 DEF OnItsWay
<1>5. CASE Connect
  <2>1. subscribed' = {} /\ job'.coin = {} /\ server' = {} /\ wire' = << >>
    BY <1>5 DEF Connect, Forget, NoJob
  <2>2. Settled' = {}
    <3>1. {} \in SUBSET Pairs
      OBVIOUS
    <3> QED BY <2>1, <3>1, NothingSent DEF Settled
  <2>3. \A c \in Coins, ch \in Channels : ~Out(c, ch)'
    BY <2>1 DEF Out
  <2> QED BY <2>1, <2>2, <2>3 DEF OnItsWay
<1>6. CASE ServerTakes
  <2>1. /\ wire # << >> /\ server' = Taken(server, Head(wire)) /\ wire' = Tail(wire)
        /\ UNCHANGED <<main, link, subscribed, job>>
    BY <1>6 DEF ServerTakes
  <2>2. Settled' = Settled
    BY <2>1, FirstTaken DEF Settled, TypeOK
  <2> QED BY <2>1, <2>2 DEF OnItsWay, Out, Operation
<1>7. CASE SendFails \/ Reading \/ ConnectFails \/ BackoffEnds \/ CloseSocket \/ Stop \/ LinkCloses
  <2>1. link' # "open" \/ main' \notin {"subscribing", "listening"}
    <3>1. CASE SendFails
      BY <3>1 DEF SendFails, connection
    <3>2. CASE Reading
      BY <3>2 DEF Reading, ReadMessage, ReadClose, LeaveLoop
    <3>3. CASE ConnectFails \/ BackoffEnds
      BY <3>3 DEF ConnectFails, BackoffEnds
    <3>4. CASE CloseSocket \/ Stop \/ LinkCloses
      BY <3>4 DEF CloseSocket, Stop, LinkCloses
    <3> QED BY <1>7, <3>1, <3>2, <3>3, <3>4
  <2> QED BY <2>1 DEF OnItsWay
<1>8. CASE SyncRests \/ Listen \/ UpdateCoins \/ UNCHANGED vars
  <2>1. UNCHANGED <<link, subscribed, job, Settled>> /\ (main' = main \/ main = "subscribing")
    BY <1>8 DEF SyncRests, Listen, UpdateCoins, vars, connection, Settled
  <2> QED BY <2>1 DEF OnItsWay, Out, Operation
<1> QED BY <1>1, <1>2, <1>3, <1>4, <1>5, <1>6, <1>7, <1>8 DEF Next, Sending, Syncing, Connecting

(* SubscribedIsServed: _subscribed_coins is what the exchange sends on both *)
(* channels, of each coin that is not being sent, once it has read the wire *)
(* (HyperliquidWsClient._subscribe_coin, _unsubscribe_coin, _periodic_sync  *)
(* and _connect_and_listen, which starts from an empty set).                *)
THEOREM SubscribedCoinsAreServed == Spec => []SubscribedIsServed
<1>1. IInv /\ [Next]_vars => IInv'
  BY TypeStep, SenderStep, ServedStep DEF IInv
<1>2. Spec => []IInv
  BY <1>1, InitInv, PTL DEF Spec
<1>3. IInv => SubscribedIsServed
  BY DEF IInv, OnItsWay, SubscribedIsServed, Out
<1> QED BY <1>2, <1>3, PTL

=============================================================================
