----------------------- MODULE BackgroundTasksProofs ------------------------
(***************************************************************************)
(* Proofs about the daily summary and the snapshots of features: for any   *)
(* length of the day and any hour to send at, any interval, any coins, any *)
(* clock change of an hour, rounds of messages of any length under an hour *)
(* and any failures.                                                       *)
(*                                                                         *)
(* ChainInv says that each round of messages came when the wait computed   *)
(* at the end of the one before was over, from which follow, by            *)
(* arithmetic, the distance of two rounds and the days; QueryInv says what *)
(* the last query saw of the trade; SnapshotInv orders the rows.           *)
(***************************************************************************)
EXTENDS BackgroundTasks, FoldLemmas, SequenceTheorems

Stages == {"open", "left", "stored"}
Queries == [due : Nat, at : Nat, ok : BOOLEAN, tells : BOOLEAN, trade : Stages]
Rows == [coin : Coins, timestamp : Nat, asOf : Nat]
Trades == [coin : Coins, entry : Nat, exit : Nat \cup {None}, stored : BOOLEAN]

TypeOK ==
    /\ now \in Nat /\ wallAtStart \in 0..(Day - 1) /\ change \in Changes
    /\ running \in BOOLEAN
    /\ doing \in {"sleep", "gather", "send"}
    /\ summaryAt \in Nat \cup {None}
    /\ rounds \in Seq(Nat)
    /\ doing # "sleep" => rounds # << >>
    /\ queries \in Seq(Queries)
    /\ snapshotAt \in Nat \cup {None}
    /\ writing \in SUBSET Rows
    /\ snapshots \in SUBSET Rows
    /\ asOf \in [Coins -> Nat]
    /\ trade = None \/ trade \in Trades

(* A row shows what was known at its time, and rows are committed in the    *)
(* order of their times: one round writes at a time.                        *)
SnapshotInv ==
    /\ \A c \in Coins : asOf[c] <= now
    /\ \A r \in writing \cup snapshots : r.asOf <= r.timestamp /\ r.timestamp <= now
    /\ \A w \in writing, r \in snapshots : r.timestamp <= w.timestamp

-----------------------------------------------------------------------------
(* Arithmetic of the clock.                                                 *)

LEMMA DivMod ==
  ASSUME NEW w \in Int, NEW n \in Nat \ {0}
  PROVE  /\ w \div n \in Int /\ w % n \in 0..(n - 1) /\ w = n * (w \div n) + (w % n)
<1>1. w \div n \in Int
  OBVIOUS
<1>2. w % n \in Int /\ 0 <= w % n /\ w % n < n
  OBVIOUS
<1>3. w = n * (w \div n) + (w % n)
  OBVIOUS
<1> QED BY <1>1, <1>2, <1>3

LEMMA ChangeType ==
  ASSUME TypeOK
  PROVE  /\ change.at \in Nat \ {0} /\ change.by \in {-Hour, 0, Hour} /\ Day \in Nat \ {0}
         /\ Hour \in Nat \ {0} /\ MaxSend \in Nat /\ MaxSend < Hour /\ Hour + MaxSend < Day
         /\ SendAt \in 0..(Day - 1) /\ wallAtStart \in 0..(Day - 1)
BY ScheduleAssumption DEF TypeOK

LEMMA WallType ==
  ASSUME TypeOK, NEW t \in Nat PROVE Wall(t) \in Int /\ DayOf(t) \in Int
<1>1. Wall(t) \in Int
  BY ChangeType DEF Wall
<1> QED BY <1>1, DivMod, ChangeType DEF DayOf

(* The wait leads to the next moment at SendAt, were the clock not changed. *)
LEMMA WaitIsADay ==
  ASSUME TypeOK, NEW t \in Nat
  PROVE  SecondsUntilNextRun(t) \in Nat /\ SecondsUntilNextRun(t) \in 1..Day
<1> DEFINE w == Wall(t)
           q == w \div Day
           k == q * Day
<1>1. w \in Int /\ Day \in Nat \ {0} /\ SendAt \in 0..(Day - 1)
  BY WallType, ChangeType
<1>2. k \in Int /\ k <= w /\ w < k + Day
  <2> HIDE DEF w
  <2>1. q \in Int /\ w % Day \in 0..(Day - 1) /\ w = Day * q + (w % Day)
    BY <1>1, DivMod
  <2>2. Day * q = k
    BY <1>1, <2>1
  <2> HIDE DEF k, q
  <2>3. w % Day >= 0 /\ w % Day < Day /\ w % Day \in Int /\ k = Day * q
    BY <1>1, <2>1, <2>2
  <2>4. k \in Int
    BY <1>1, <2>1 DEF k
  <2> QED BY <1>1, <2>1, <2>3, <2>4
<1>3. SecondsUntilNextRun(t)
        = (IF k + SendAt <= w THEN k + SendAt + Day ELSE k + SendAt) - w
  BY DEF SecondsUntilNextRun, DayOf
<1> HIDE DEF w, k
<1> QED BY <1>1, <1>2, <1>3

-----------------------------------------------------------------------------
(* Types.                                                                   *)

LEMMA ProgressType == Progress \in Stages
BY DEF Progress, Stages

LEMMA LastRound ==
  ASSUME rounds \in Seq(Nat), rounds # << >>
  PROVE  /\ Len(rounds) \in Nat \ {0} /\ Len(rounds) \in 1..Len(rounds)
         /\ Last(rounds) = rounds[Len(rounds)] /\ Last(rounds) \in Nat
<1>1. Len(rounds) \in Nat \ {0} /\ Len(rounds) \in 1..Len(rounds)
  BY EmptySeq
<1>2. Last(rounds) = rounds[Len(rounds)]
  BY DEF Last
<1>3. rounds[Len(rounds)] \in Nat
  BY <1>1
<1> QED BY <1>1, <1>2, <1>3

LEMMA InitType == Init => TypeOK /\ SnapshotInv
<1> SUFFICES ASSUME Init PROVE TypeOK /\ SnapshotInv
  OBVIOUS
<1>1. /\ now = 0 /\ wallAtStart \in 0..(Day - 1) /\ change \in Changes
      /\ now \in Nat /\ running \in BOOLEAN /\ snapshotAt \in Nat
      /\ doing = "sleep" /\ rounds \in Seq(Nat) /\ queries \in Seq(Queries)
      /\ writing = {} /\ snapshots = {}
      /\ asOf \in [Coins -> Nat] /\ trade = None
  BY ScheduleAssumption DEF Init
<1>2. SecondsUntilNextRun(0) \in 1..Day
  <2>1. /\ change.at \in Nat \ {0} /\ Day \in Nat \ {0} /\ SendAt \in 0..(Day - 1)
    BY <1>1, ScheduleAssumption
  <2>2. Wall(0) = wallAtStart /\ wallAtStart \in Nat
    BY <1>1, <2>1 DEF Wall
  <2>3. wallAtStart \div Day = 0
    BY <1>1, <2>1
  <2>4. SecondsUntilNextRun(0) = (IF SendAt <= wallAtStart THEN SendAt + Day ELSE SendAt) - wallAtStart
    <3>1. DayOf(0) = 0
      BY <2>2, <2>3 DEF DayOf
    <3>2. DayOf(0) * Day = 0 /\ 0 + SendAt = SendAt
      BY <2>1, <3>1
    <3> QED BY <2>2, <3>2 DEF SecondsUntilNextRun
  <2> QED BY <1>1, <2>1, <2>4
<1>3. summaryAt \in 1..Day /\ summaryAt \in Nat
  BY <1>2, ScheduleAssumption DEF Init
<1>4. TypeOK
  BY <1>1, <1>3 DEF TypeOK
<1>5. SnapshotInv
  BY <1>1 DEF Init, SnapshotInv
<1> QED BY <1>4, <1>5

(* Every step but these two leaves the rounds and the queries alone.        *)
LEMMA OtherSteps ==
  ASSUME [Next]_vars
  PROVE  /\ UNCHANGED <<wallAtStart, change>>
         /\ rounds' = rounds \/ (Wake /\ running)
         /\ queries' = queries \/ \E ok \in BOOLEAN : Gather(ok)
BY DEF Next, Tick, Wake, Gather, RoundEnds, Commit, TakeSnapshots, MarketEvent, Enter, Leave,
       PostTrade, Stop, CancelTasks, clock, summaryVars, vars

LEMMA NextType ==
  ASSUME TypeOK, [Next]_vars PROVE TypeOK'
<1>1. CASE Tick
  BY <1>1 DEF Tick, TypeOK, summaryVars, snapshotVars
<1>2. CASE Wake
  <2>1. UNCHANGED <<now, wallAtStart, change, running, queries, snapshotAt, writing, snapshots,
                    asOf, trade>>
    BY <1>2 DEF Wake, clock, snapshotVars
  <2>2. now \in Nat /\ MaxSend \in Nat /\ rounds \in Seq(Nat)
    BY ScheduleAssumption DEF TypeOK
  <2>3. summaryAt' \in Nat \cup {None}
    BY <1>2, <2>2 DEF Wake
  <2>4. /\ rounds' \in Seq(Nat) /\ doing' \in {"sleep", "gather", "send"}
        /\ doing' # "sleep" => rounds' # << >>
    <3>1. CASE running
      <4>1. rounds' = Append(rounds, now) /\ doing' = "gather"
        BY <1>2, <3>1 DEF Wake
      <4>2. Append(rounds, now) \in Seq(Nat) /\ Append(rounds, now) # << >>
        BY <2>2, AppendProperties
      <4> QED BY <4>1, <4>2
    <3>2. CASE ~running
      BY <1>2, <3>2 DEF Wake, TypeOK
    <3> QED BY <3>1, <3>2
  <2> QED BY <2>1, <2>3, <2>4 DEF TypeOK
<1>3. CASE \E ok \in BOOLEAN : Gather(ok)
  <2>1. PICK ok \in BOOLEAN : Gather(ok)
    BY <1>3
  <2>2. /\ UNCHANGED <<now, wallAtStart, change, running, rounds, snapshotAt, writing, snapshots,
                       asOf, trade>>
        /\ doing = "gather" /\ doing' = "send"
    BY <2>1 DEF Gather, clock, snapshotVars
  <2>3. now \in Nat /\ MaxSend \in Nat /\ rounds # << >> /\ Last(rounds) \in Nat
    BY <2>2, LastRound, ScheduleAssumption DEF TypeOK
  <2>4. summaryAt' \in Nat
    BY <2>1, <2>3 DEF Gather
  <2>5. queries' \in Seq(Queries)
    <3> DEFINE q == [due |-> Last(rounds), at |-> now, ok |-> ok, tells |-> ok /\ InWindow,
                     trade |-> Progress]
    <3>1. q \in Queries
      <4>1. (ok /\ InWindow) \in BOOLEAN
        BY DEF InWindow
      <4> QED BY <2>3, <4>1, ProgressType DEF Queries
    <3>2. queries' = Append(queries, q)
      BY <2>1 DEF Gather
    <3> HIDE DEF q
    <3> QED BY <3>1, <3>2 DEF TypeOK
  <2> QED BY <2>2, <2>3, <2>4, <2>5 DEF TypeOK
<1>4. CASE RoundEnds
  <2>1. UNCHANGED <<now, wallAtStart, change, running, rounds, queries, snapshotAt, writing,
                    snapshots, asOf, trade>>
    BY <1>4 DEF RoundEnds, clock, snapshotVars
  <2>2. summaryAt' \in Nat \cup {None} /\ doing' \in {"sleep", doing}
    <3>1. SecondsUntilNextRun(now) \in Nat /\ now \in Nat
      BY WaitIsADay DEF TypeOK
    <3> HIDE DEF SecondsUntilNextRun
    <3> QED BY <1>4, <3>1 DEF RoundEnds
  <2> QED BY <2>1, <2>2 DEF TypeOK
<1>5. CASE \E ok \in BOOLEAN : Commit(ok)
  <2>1. /\ snapshots' \in SUBSET Rows /\ writing' = {} /\ snapshotAt' = NextRound
        /\ UNCHANGED <<now, wallAtStart, change, running, doing, summaryAt, rounds, queries, asOf,
                       trade>>
    BY <1>5 DEF Commit, clock, summaryVars, TypeOK
  <2>2. NextRound \in Nat \cup {None}
    BY ScheduleAssumption DEF NextRound, TypeOK
  <2> QED BY <2>1, <2>2 DEF TypeOK
<1>6. CASE \E failing \in SUBSET Coins : TakeSnapshots(failing)
  <2>1. PICK failing \in SUBSET Coins : TakeSnapshots(failing)
    BY <1>6
  <2>2. /\ writing' = {[coin |-> c, timestamp |-> now, asOf |-> asOf[c]] : c \in Coins \ failing}
        /\ snapshotAt' \in {NextRound, None}
        /\ UNCHANGED <<now, wallAtStart, change, running, doing, summaryAt, rounds, queries,
                       snapshots, asOf, trade>>
    BY <2>1 DEF TakeSnapshots, clock, summaryVars
  <2>3. NextRound \in Nat \cup {None}
    BY ScheduleAssumption DEF NextRound, TypeOK
  <2>4. writing' \in SUBSET Rows
    BY <2>2 DEF Rows, TypeOK
  <2> QED BY <2>2, <2>3, <2>4 DEF TypeOK
<1>7. CASE \E c \in Coins : MarketEvent(c)
  BY <1>7 DEF MarketEvent, clock, summaryVars, snapshotVars, TypeOK
<1>8. CASE (\E c \in Coins : Enter(c)) \/ Leave \/ PostTrade
  <2>1. UNCHANGED <<now, wallAtStart, change, running, doing, summaryAt, rounds, queries,
                    snapshotAt, writing, snapshots, asOf>>
    BY <1>8 DEF Enter, Leave, PostTrade, clock, summaryVars, snapshotVars
  <2>2. trade' \in Trades
    <3>1. ASSUME NEW c \in Coins, Enter(c) PROVE trade' \in Trades
      BY <3>1 DEF Enter, Trades, TypeOK
    <3>2. CASE Leave
      BY <3>2 DEF Leave, Trades, TypeOK
    <3>3. CASE PostTrade
      BY <3>3 DEF PostTrade, Progress, Trades, TypeOK
    <3> QED BY <1>8, <3>1, <3>2, <3>3
  <2> QED BY <2>1, <2>2 DEF TypeOK
<1>9. CASE Stop \/ CancelTasks
  BY <1>9 DEF Stop, CancelTasks, clock, summaryVars, snapshotVars, TypeOK
<1>10. CASE UNCHANGED vars
  BY <1>10 DEF vars, clock, summaryVars, snapshotVars, TypeOK
<1> QED BY <1>1, <1>2, <1>3, <1>4, <1>5, <1>6, <1>7, <1>8, <1>9, <1>10 DEF Next

-----------------------------------------------------------------------------
(* The snapshots.                                                           *)

LEMMA NextSnapshots ==
  ASSUME TypeOK, SnapshotInv, [Next]_vars PROVE SnapshotInv'
<1>0. now \in Nat /\ \A r \in writing \cup snapshots : r.timestamp \in Nat
  BY DEF TypeOK, Rows
<1>1. CASE Tick
  <2>1. now' = now + 1 /\ UNCHANGED <<asOf, writing, snapshots>>
    BY <1>1 DEF Tick, snapshotVars
  <2> QED BY <1>0, <2>1 DEF SnapshotInv, TypeOK
<1>2. CASE \E ok \in BOOLEAN : Commit(ok)
  <2>1. /\ snapshots' \subseteq writing \cup snapshots /\ writing' = {}
        /\ UNCHANGED <<now, asOf>>
    BY <1>2 DEF Commit, clock
  <2> QED BY <2>1 DEF SnapshotInv
<1>3. CASE \E failing \in SUBSET Coins : TakeSnapshots(failing)
  <2>1. PICK failing \in SUBSET Coins : TakeSnapshots(failing)
    BY <1>3
  <2>2. /\ writing' = {[coin |-> c, timestamp |-> now, asOf |-> asOf[c]] : c \in Coins \ failing}
        /\ UNCHANGED <<now, asOf, snapshots>>
    BY <2>1 DEF TakeSnapshots, clock
  <2>3. \A w \in writing' : w.timestamp = now /\ w.asOf <= now
    BY <2>2 DEF SnapshotInv
  <2>4. now <= now
    BY <1>0
  <2> QED BY <2>2, <2>3, <2>4 DEF SnapshotInv
<1>4. CASE \E c \in Coins : MarketEvent(c)
  <2>1. PICK c \in Coins : MarketEvent(c)
    BY <1>4
  <2>2. asOf' = [asOf EXCEPT ![c] = now] /\ UNCHANGED <<now, writing, snapshots>>
    BY <2>1 DEF MarketEvent, clock, snapshotVars
  <2>3. \A d \in Coins : asOf'[d] <= now
    BY <1>0, <2>2 DEF SnapshotInv, TypeOK
  <2> QED BY <2>2, <2>3 DEF SnapshotInv
<1>5. CASE \/ Wake \/ RoundEnds \/ \E ok \in BOOLEAN : Gather(ok)
           \/ \E c \in Coins : Enter(c)
           \/ Leave \/ PostTrade \/ Stop \/ UNCHANGED vars
  <2>1. UNCHANGED <<now, asOf, writing, snapshots>>
    BY <1>5 DEF Wake, Gather, RoundEnds, Enter, Leave, PostTrade, Stop, vars, clock, snapshotVars
  <2> QED BY <2>1 DEF SnapshotInv
<1>6. CASE CancelTasks
  <2>1. UNCHANGED <<now, asOf, snapshots>> /\ writing' = {}
    BY <1>6 DEF CancelTasks, clock
  <2> QED BY <2>1 DEF SnapshotInv
<1> QED BY <1>1, <1>2, <1>3, <1>4, <1>5, <1>6 DEF Next

(* EntryFeaturesSettle: a trade joins only features that were known when it *)
(* was entered, and once a row from after the entry is stored the join is   *)
(* settled (SnapshotService._take_snapshots, the lateral join of            *)
(* TradesEnrichedBuilder.build).                                            *)
THEOREM FeaturesSettle == Spec => EntryFeaturesSettle
<1> DEFINE known == trade # None => \A r \in FeaturesAtEntry(trade) : r.asOf <= trade.entry
           settled == /\ trade # None
                      /\ \E r \in snapshots : r.coin = trade.coin /\ r.timestamp > trade.entry
                      => FeaturesAtEntry(trade)' = FeaturesAtEntry(trade)
<1>1. ASSUME TypeOK, SnapshotInv PROVE known
  <2> SUFFICES ASSUME trade # None, NEW r \in FeaturesAtEntry(trade) PROVE r.asOf <= trade.entry
    OBVIOUS
  <2>1. r \in snapshots /\ r.timestamp <= trade.entry
    BY DEF FeaturesAtEntry
  <2>2. r.asOf \in Nat /\ r.timestamp \in Nat /\ r.asOf <= r.timestamp /\ trade.entry \in Nat
    BY <1>1, <2>1 DEF TypeOK, Rows, Trades, SnapshotInv
  <2> QED BY <2>1, <2>2
<1>2. ASSUME TypeOK, SnapshotInv, [Next]_vars PROVE settled
  <2> SUFFICES ASSUME trade # None, NEW after \in snapshots,
                      after.coin = trade.coin, after.timestamp > trade.entry
               PROVE  FeaturesAtEntry(trade)' = FeaturesAtEntry(trade)
    OBVIOUS
  <2>1. trade \in Trades /\ trade.entry \in Nat /\ after.timestamp \in Nat
    BY <1>2 DEF TypeOK, Rows, Trades
  <2>2. trade'.coin = trade.coin /\ trade'.entry = trade.entry
    <3>1. CASE Leave \/ PostTrade
      BY <2>1, <3>1 DEF Leave, PostTrade, Trades
    <3>2. CASE ~(Leave \/ PostTrade)
      <4>1. UNCHANGED trade
        BY <1>2, <3>2 DEF Next, Tick, Wake, Gather, RoundEnds, Commit, TakeSnapshots, MarketEvent, Enter,
                          Stop, CancelTasks, vars
      <4> QED BY <4>1
    <3> QED BY <3>1, <3>2
  <2>3. snapshots' = snapshots \/ snapshots' = snapshots \cup writing
    BY <1>2 DEF Next, Tick, Wake, Gather, RoundEnds, Commit, TakeSnapshots, MarketEvent, Enter, Leave,
                PostTrade, Stop, CancelTasks, snapshotVars, vars
  <2>4. \A w \in writing : ~(w.timestamp <= trade.entry)
    <3> SUFFICES ASSUME NEW w \in writing PROVE ~(w.timestamp <= trade.entry)
      OBVIOUS
    <3>1. w.timestamp \in Nat /\ after.timestamp <= w.timestamp
      BY <1>2 DEF TypeOK, Rows, SnapshotInv
    <3> QED BY <2>1, <3>1
  <2>5. {r \in snapshots' : r.coin = trade.coin /\ r.timestamp <= trade.entry}
          = {r \in snapshots : r.coin = trade.coin /\ r.timestamp <= trade.entry}
    BY <2>3, <2>4
  <2> QED BY <2>2, <2>5 DEF FeaturesAtEntry
<1>3. TypeOK /\ SnapshotInv /\ [Next]_vars
        => [trade # None =>
             /\ \A r \in FeaturesAtEntry(trade) : r.asOf <= trade.entry
             /\ (\E r \in snapshots : r.coin = trade.coin /\ r.timestamp > trade.entry)
                  => FeaturesAtEntry(trade)' = FeaturesAtEntry(trade)]_vars
  BY <1>1, <1>2
<1>4. TypeOK /\ SnapshotInv /\ [Next]_vars => (TypeOK /\ SnapshotInv)'
  BY NextType, NextSnapshots
<1> QED BY <1>3, <1>4, InitType, PTL DEF Spec, EntryFeaturesSettle

-----------------------------------------------------------------------------
(* The days: when the wall clock reaches one, and how a wait crosses them.  *)

Midnight(q) == q * Day

LEMMA Midnights ==
  /\ \A q \in Int : Midnight(q) \in Int /\ Midnight(q + 1) = Midnight(q) + Day
  /\ \A q, r \in Int : q < r => Midnight(q) + Day <= Midnight(r)
<1>1. Day \in Nat \ {0}
  BY ScheduleAssumption
<1>2. \A q \in Int : Midnight(q) \in Int /\ Midnight(q + 1) = Midnight(q) + Day
  BY <1>1 DEF Midnight
<1>3. ASSUME NEW q \in Int, NEW r \in Int, q < r PROVE Midnight(q) + Day <= Midnight(r)
  <2>1. (r - q - 1) \in Nat
    BY <1>3
  <2>2. (r - q - 1) * Day >= 0
    BY <1>1, <2>1
  <2>3. Midnight(r) = Midnight(q) + Day + (r - q - 1) * Day
    BY <1>1 DEF Midnight
  <2>4. Midnight(q) \in Int /\ Midnight(r) \in Int /\ (r - q - 1) * Day \in Int
    BY <1>1, <1>2, <2>1
  <2> QED BY <1>1, <2>2, <2>3, <2>4
<1> QED BY <1>2, <1>3

LEMMA DayBounds ==
  ASSUME TypeOK, NEW t \in Nat
  PROVE  /\ DayOf(t) \in Int
         /\ Midnight(DayOf(t)) <= Wall(t) /\ Wall(t) < Midnight(DayOf(t)) + Day
<1> DEFINE w == Wall(t)
<1>1. w \in Int /\ Day \in Nat \ {0}
  BY WallType, ChangeType
<1>2. DayOf(t) = w \div Day
  BY DEF DayOf
<1> HIDE DEF w
<1>3. DayOf(t) \in Int /\ w % Day \in 0..(Day - 1) /\ w = Day * DayOf(t) + (w % Day)
  BY <1>1, <1>2, DivMod
<1>4. Midnight(DayOf(t)) = Day * DayOf(t) /\ Midnight(DayOf(t)) \in Int
  BY <1>1, <1>3 DEF Midnight
<1> QED BY <1>1, <1>3, <1>4 DEF w

LEMMA DayFrom ==
  ASSUME TypeOK, NEW t \in Nat, NEW q \in Int
  PROVE  q <= DayOf(t) <=> Midnight(q) <= Wall(t)
<1>1. /\ DayOf(t) \in Int /\ Wall(t) \in Int /\ Day \in Nat
      /\ Midnight(DayOf(t)) <= Wall(t) /\ Wall(t) < Midnight(DayOf(t)) + Day
  BY DayBounds, WallType, ChangeType
<1>2. Midnight(q) \in Int /\ Midnight(DayOf(t)) \in Int
  BY <1>1, Midnights
<1>3. CASE q <= DayOf(t)
  <2> DEFINE r == DayOf(t)
  <2>2. r \in Int /\ q <= r
    BY <1>1, <1>3
  <2> HIDE DEF r
  <2>3. q = r \/ Midnight(q) + Day <= Midnight(r)
    BY <2>2, Midnights
  <2>1. q = DayOf(t) \/ Midnight(q) + Day <= Midnight(DayOf(t))
    BY <2>3 DEF r
  <2> QED BY <1>1, <1>2, <1>3, <2>1
<1>4. CASE ~(q <= DayOf(t))
  <2>1. Midnight(DayOf(t)) + Day <= Midnight(q)
    BY <1>1, <1>4, Midnights
  <2> QED BY <1>1, <1>2, <1>4, <2>1
<1> QED BY <1>3, <1>4

(* What the wall clock will show after the wait, were it not changed.       *)
Target(t) ==
    IF Midnight(DayOf(t)) + SendAt <= Wall(t) THEN Midnight(DayOf(t)) + SendAt + Day
                                              ELSE Midnight(DayOf(t)) + SendAt

LEMMA TargetIs ==
  ASSUME TypeOK, NEW t \in Nat
  PROVE  /\ Target(t) \in Int /\ Wall(t) < Target(t) /\ Target(t) <= Wall(t) + Day
         /\ SecondsUntilNextRun(t) = Target(t) - Wall(t)
         /\ \E q \in Int : Target(t) = Midnight(q) + SendAt
<1>1. /\ DayOf(t) \in Int /\ Wall(t) \in Int /\ Day \in Nat \ {0} /\ SendAt \in 0..(Day - 1)
      /\ Midnight(DayOf(t)) <= Wall(t) /\ Wall(t) < Midnight(DayOf(t)) + Day
  BY DayBounds, WallType, ChangeType
<1>2. /\ Midnight(DayOf(t)) \in Int /\ DayOf(t) + 1 \in Int
      /\ Midnight(DayOf(t) + 1) = Midnight(DayOf(t)) + Day
  <2> DEFINE r == DayOf(t)
  <2>1. r \in Int
    BY <1>1
  <2> HIDE DEF r
  <2>2. Midnight(r) \in Int /\ r + 1 \in Int /\ Midnight(r + 1) = Midnight(r) + Day
    BY <2>1, Midnights
  <2> QED BY <2>2 DEF r
<1>3. SecondsUntilNextRun(t) = Target(t) - Wall(t)
  BY DEF SecondsUntilNextRun, Target, Midnight
<1>4. Target(t) = Midnight(DayOf(t)) + SendAt \/ Target(t) = Midnight(DayOf(t) + 1) + SendAt
  BY <1>1, <1>2 DEF Target
<1>5. Target(t) \in Int /\ Wall(t) < Target(t) /\ Target(t) <= Wall(t) + Day
  BY <1>1, <1>2 DEF Target
<1> QED BY <1>1, <1>2, <1>3, <1>4, <1>5

(* It is the first moment at SendAt after t.                                *)
LEMMA TargetIsFirst ==
  ASSUME TypeOK, NEW t \in Nat, NEW d \in Int
  PROVE  /\ Wall(t) < Midnight(d) + SendAt => Target(t) <= Midnight(d) + SendAt
         /\ Midnight(d) <= Target(t) /\ Target(t) < Midnight(d) + Day
              => Target(t) = Midnight(d) + SendAt
<1>1. PICK q \in Int : Target(t) = Midnight(q) + SendAt
  BY TargetIs
<1>2. /\ Target(t) <= Wall(t) + Day /\ Wall(t) \in Int /\ Target(t) \in Int
      /\ Day \in Nat \ {0} /\ SendAt \in 0..(Day - 1)
  BY TargetIs, WallType, ChangeType
<1>3. Midnight(q) \in Int /\ Midnight(d) \in Int
  BY Midnights
<1>4. CASE q < d
  <2>1. Midnight(q) + Day <= Midnight(d)
    BY <1>4, Midnights
  <2> QED BY <1>1, <1>2, <1>3, <2>1
<1>5. CASE q > d
  <2>1. Midnight(d) + Day <= Midnight(q)
    BY <1>5, Midnights
  <2> QED BY <1>1, <1>2, <1>3, <2>1
<1>6. CASE q = d
  BY <1>1, <1>2, <1>3, <1>6
<1> QED BY <1>4, <1>5, <1>6

(* How far the wall clock gets.                                             *)
Crossed(t, u) == t < change.at /\ change.at <= u
Jump(t, u) == IF Crossed(t, u) THEN change.by ELSE 0

LEMMA WallMoves ==
  ASSUME TypeOK, NEW t \in Nat, NEW u \in Nat, t <= u
  PROVE  /\ Jump(t, u) \in {-Hour, 0, Hour}
         /\ Wall(u) = Wall(t) + (u - t) + Jump(t, u)
<1>1. /\ change.at \in Nat \ {0} /\ change.by \in {-Hour, 0, Hour} /\ wallAtStart \in Nat
      /\ Hour \in Nat
  BY ChangeType
<1>2. Jump(t, u) \in {-Hour, 0, Hour}
  BY <1>1 DEF Jump
<1>3. Wall(u) = Wall(t) + (u - t) + Jump(t, u)
  BY <1>1 DEF Wall, Jump, Crossed
<1> QED BY <1>2, <1>3

After == [t \in Nat |-> t + SecondsUntilNextRun(t)]

LEMMA AfterIs ==
  ASSUME TypeOK, NEW t \in Nat
  PROVE  /\ After[t] \in Nat /\ t < After[t]
         /\ Wall(After[t]) = Target(t) + Jump(t, After[t])
<1>1. /\ SecondsUntilNextRun(t) \in Nat /\ SecondsUntilNextRun(t) \in 1..Day
      /\ SecondsUntilNextRun(t) = Target(t) - Wall(t) /\ Target(t) \in Int /\ Wall(t) \in Int
      /\ Day \in Nat
  BY WaitIsADay, TargetIs, WallType, ChangeType
<1>2. After[t] = t + SecondsUntilNextRun(t)
  BY DEF After
<1> DEFINE u == After[t]
<1>3. u \in Nat /\ t < u /\ u - t = Target(t) - Wall(t)
  BY <1>1, <1>2
<1> HIDE DEF u
<1>4. /\ Jump(t, u) \in {-Hour, 0, Hour} /\ Wall(u) = Wall(t) + (u - t) + Jump(t, u)
      /\ Jump(t, u) \in Int
  BY <1>3, WallMoves, ChangeType
<1>5. Wall(u) = Target(t) + Jump(t, u)
  <2> HIDE DEF Jump, Wall, Target
  <2> QED BY <1>1, <1>3, <1>4
<1> QED BY <1>3, <1>5 DEF u

(* A wait that crosses the clock change leads from the day before it, or    *)
(* its own, to at most the day after: on other days the clock was right.    *)
LEMMA CrossedNear ==
  ASSUME TypeOK, NEW t \in Nat, NEW u \in Nat, t < u, Crossed(t, u), NEW d \in Int,
         Wall(u) = Target(t) + Jump(t, u),
         Midnight(d) <= Wall(u), Wall(u) < Midnight(d) + 2 * Day
  PROVE  d - DayOf(change.at) \in -1..1
<1> DEFINE c == change.at
<1>1. c \in Nat /\ t < c /\ c <= u /\ t <= c /\ t <= u
  BY ChangeType DEF Crossed
<1>2. /\ Wall(c) \in Int /\ Wall(u) \in Int /\ Wall(t) \in Int /\ Target(t) \in Int
      /\ Day \in Nat \ {0} /\ DayOf(c) \in Int
  BY <1>1, WallType, TargetIs, ChangeType
<1> HIDE DEF c
<1>3. Wall(c) <= Wall(u)
  <2>1. Jump(c, u) = 0
    BY <1>1 DEF Jump, Crossed, c
  <2>2. Wall(u) = Wall(c) + (u - c) + Jump(c, u)
    BY <1>1, WallMoves
  <2> QED BY <1>1, <1>2, <2>1, <2>2
<1>4. Target(t) <= Wall(t) + Day
  BY TargetIs
<1>5. /\ Midnight(d) \in Int /\ Midnight(d - 1) = Midnight(d) - Day
      /\ Midnight(d - 2) = Midnight(d) - 2 * Day /\ Midnight(d + 2) = Midnight(d) + 2 * Day
      /\ d - 1 \in Int /\ d + 2 \in Int
  <2>1. Midnight(d) \in Int
    BY Midnights
  <2> QED BY <1>2, <2>1 DEF Midnight
<1>6. DayOf(c) < d + 2
  <2>1. ~(Midnight(d + 2) <= Wall(c))
    BY <1>2, <1>3, <1>5
  <2> QED BY <1>1, <1>2, <1>5, <2>1, DayFrom
<1>7. d - 1 <= DayOf(c)
  <2>1. Wall(c) >= Wall(t) + 1 + Jump(t, c) /\ Jump(t, c) = change.by
    <3>1. Jump(t, c) = change.by
      <4>1. t < c /\ c <= c
        BY <1>1
      <4> QED BY <4>1 DEF Jump, Crossed, c
    <3>2. Jump(t, c) \in Int
      BY <3>1, ChangeType
    <3>3. Wall(c) = Wall(t) + (c - t) + Jump(t, c)
      BY <1>1, WallMoves
    <3> QED BY <1>1, <1>2, <3>1, <3>2, <3>3
  <2>2. Jump(t, u) = change.by /\ change.by \in Int
    BY ChangeType DEF Jump
  <2>3. Midnight(d - 1) <= Wall(c)
    BY <1>2, <1>4, <1>5, <2>1, <2>2
  <2> QED BY <1>1, <1>5, <2>3, DayFrom
<1> QED BY <1>2, <1>6, <1>7 DEF c

(* When a day is over for a moment t: its midnight is past.                 *)
LEMMA OnDay ==
  ASSUME TypeOK, NEW t \in Nat, NEW d \in Int
  PROVE  DayOf(t) = d <=> Midnight(d) <= Wall(t) /\ Wall(t) < Midnight(d) + Day
<1>1. DayOf(t) \in Int /\ Wall(t) \in Int /\ Day \in Nat
  BY WallType, ChangeType
<1>2. Midnight(d) \in Int /\ Midnight(d + 1) = Midnight(d) + Day /\ d + 1 \in Int
  BY Midnights
<1>3. (d <= DayOf(t) <=> Midnight(d) <= Wall(t)) /\ (d + 1 <= DayOf(t) <=> Midnight(d + 1) <= Wall(t))
  BY <1>2, DayFrom
<1> HIDE DEF DayOf, Wall
<1> QED BY <1>1, <1>2, <1>3

(* A summary that no change was waited across is due at SendAt.             *)
LEMMA SentAtTheHour ==
  ASSUME TypeOK, NEW t \in Nat, NEW d \in Int, DayOf(After[t]) = d,
         ~Crossed(t, After[t]) \/ change.by = 0
  PROVE  Wall(After[t]) = Midnight(d) + SendAt
<1>1. After[t] \in Nat /\ Wall(After[t]) = Target(t) + Jump(t, After[t])
  BY AfterIs
<1>2. Jump(t, After[t]) = 0 /\ Target(t) \in Int
  BY TargetIs DEF Jump
<1>3. Wall(After[t]) = Target(t)
  BY <1>1, <1>2
<1>4. Midnight(d) <= Target(t) /\ Target(t) < Midnight(d) + Day
  BY <1>1, <1>3, OnDay
<1> QED BY <1>3, <1>4, TargetIsFirst

LEMMA SentOnQuietDay ==
  ASSUME TypeOK, NEW t \in Nat, NEW d \in Int, DayOf(After[t]) = d,
         ~(change.by # 0 /\ d - DayOf(change.at) \in -1..1)
  PROVE  Wall(After[t]) = Midnight(d) + SendAt
<1>1. CASE ~Crossed(t, After[t]) \/ change.by = 0
  BY <1>1, SentAtTheHour
<1>2. CASE Crossed(t, After[t])
  <2>1. /\ After[t] \in Nat /\ t < After[t]
        /\ Wall(After[t]) = Target(t) + Jump(t, After[t])
    BY AfterIs
  <2>2. Midnight(d) <= Wall(After[t]) /\ Wall(After[t]) < Midnight(d) + 2 * Day
    <3>1. Midnight(d) <= Wall(After[t]) /\ Wall(After[t]) < Midnight(d) + Day
      BY <2>1, OnDay
    <3>2. Midnight(d) \in Int /\ Wall(After[t]) \in Int /\ Day \in Nat
      BY <2>1, Midnights, WallType, ChangeType
    <3> QED BY <3>1, <3>2
  <2>3. d - DayOf(change.at) \in -1..1
    BY <1>2, <2>1, <2>2, CrossedNear
  <2>4. change.by = 0
    BY <2>3
  <2> QED BY <2>4, SentAtTheHour
<1> QED BY <1>1, <1>2

(* The clock shows a moment twice only when it was put back in between: an  *)
(* hour lies between the two.                                               *)
LEMMA ShownTwice ==
  ASSUME TypeOK, NEW t \in Nat, NEW u \in Nat, t < u, Wall(t) = Wall(u)
  PROVE  Crossed(t, u) /\ u = t + Hour /\ change.by = -Hour
<1>1. t <= u /\ Hour \in Nat \ {0}
  BY ChangeType
<1>2. /\ Wall(t) \in Int /\ Jump(t, u) \in {-Hour, 0, Hour}
      /\ Wall(u) = Wall(t) + (u - t) + Jump(t, u)
  BY <1>1, WallMoves, WallType
<1>3. u = t + Hour /\ Jump(t, u) = -Hour
  <2> HIDE DEF Jump, Wall
  <2> QED BY <1>1, <1>2
<1>4. Jump(t, u) # 0
  BY <1>1, <1>3
<1>5. Crossed(t, u) /\ change.by = -Hour
  BY <1>3, <1>4 DEF Jump
<1> QED BY <1>3, <1>5

-----------------------------------------------------------------------------
(* The chain of rounds: from[i] is when the i-th round ended and the wait   *)
(* for the next was computed (from[0], the start), or this moment while the *)
(* i-th goes on.                                                            *)

Chain(from) ==
    LET n == Len(rounds)
    IN  /\ from \in [0..n -> Nat] /\ from[0] = 0
        /\ \A i \in 1..n : /\ rounds[i] = After[from[i - 1]]
                           /\ rounds[i] <= from[i] /\ from[i] <= rounds[i] + MaxSend
        /\ \A i \in 0..n, j \in 1..n : i < j => from[i] < rounds[j]
        /\ running =>
             /\ summaryAt \in Nat /\ from[n] <= now /\ now <= summaryAt
             /\ doing = "sleep" => summaryAt = After[from[n]]
             /\ doing # "sleep" => from[n] = now /\ summaryAt <= rounds[n] + MaxSend

ChainInv == \E from : Chain(from)

LEMMA InitChain == Init => ChainInv
<1> SUFFICES ASSUME Init PROVE ChainInv
  OBVIOUS
<1> DEFINE start == [i \in 0..0 |-> 0]
<1>1. TypeOK /\ Len(rounds) = 0 /\ now = 0 /\ doing = "sleep"
  BY InitType DEF Init
<1>2. summaryAt = After[0] /\ summaryAt \in Nat /\ 0 <= summaryAt
  <2>1. SecondsUntilNextRun(0) \in Nat
    BY <1>1, WaitIsADay
  <2>2. After[0] = 0 + SecondsUntilNextRun(0)
    BY DEF After
  <2>3. summaryAt = SecondsUntilNextRun(0)
    BY DEF Init
  <2> HIDE DEF SecondsUntilNextRun
  <2> QED BY <2>1, <2>2, <2>3
<1>3. start \in [0..0 -> Nat] /\ start[0] = 0 /\ 1..0 = {} /\ 0 <= 0
  OBVIOUS
<1> HIDE DEF start
<1>4. Chain(start)
  BY <1>1, <1>2, <1>3 DEF Chain
<1> QED BY <1>4 DEF ChainInv

LEMMA AfterStays ==
  ASSUME [Next]_vars PROVE After' = After
<1>1. UNCHANGED <<wallAtStart, change>>
  BY OtherSteps
<1> QED BY <1>1 DEF After, SecondsUntilNextRun, DayOf, Wall

LEMMA WakeChain ==
  ASSUME TypeOK, TypeOK', NEW from, Chain(from), [Next]_vars, Wake, running
  PROVE  ChainInv'
<1> DEFINE n == Len(rounds)
<1>0. PICK next : next = [i \in 0..n + 1 |-> IF i = n + 1 THEN now ELSE from[i]]
  OBVIOUS
<1>1. /\ now = summaryAt /\ doing = "sleep" /\ UNCHANGED <<now, running>>
      /\ rounds' = Append(rounds, now) /\ doing' = "gather" /\ now \in Nat /\ MaxSend \in Nat
  BY ScheduleAssumption DEF Wake, clock, TypeOK
<1>2. /\ n \in Nat /\ Len(rounds') = n + 1 /\ rounds'[n + 1] = now
      /\ \A i \in 1..n : rounds'[i] = rounds[i] /\ rounds[i] \in Nat
  <2>1. rounds \in Seq(Nat) /\ now \in Nat
    BY DEF TypeOK
  <2> QED BY <1>1, <2>1, AppendProperties
<1>3. /\ from \in [0..n -> Nat] /\ from[0] = 0
      /\ \A i \in 1..n : /\ rounds[i] = After[from[i - 1]]
                         /\ rounds[i] <= from[i] /\ from[i] <= rounds[i] + MaxSend
      /\ \A i \in 0..n, j \in 1..n : i < j => from[i] < rounds[j]
      /\ now = After[from[n]] /\ from[n] <= now
  BY <1>1 DEF Chain
<1>4. summaryAt' \in Nat /\ now <= summaryAt' /\ summaryAt' <= now + MaxSend
  <2>1. summaryAt' \in now..(now + MaxSend)
    BY DEF Wake
  <2> QED BY <1>1, <2>1
<1>5. After' = After
  BY AfterStays
<1> HIDE DEF n
<1>6. /\ next \in [0..n + 1 -> Nat] /\ next[0] = 0 /\ next[n + 1] = now
      /\ \A i \in 0..n : next[i] = from[i]
  <2>1. \A i \in 0..n + 1 : i = n + 1 \/ i \in 0..n
    BY <1>2
  <2>2. next \in [0..n + 1 -> Nat]
    BY <1>0, <1>1, <1>3, <2>1
  <2>3. \A i \in 0..n : i \in 0..n + 1 /\ i # n + 1
    BY <1>2
  <2>4. n + 1 \in 0..n + 1 /\ 0 \in 0..n
    BY <1>2
  <2> QED BY <1>0, <1>3, <2>2, <2>3, <2>4
<1>7. \A i \in 1..n + 1 : /\ rounds'[i] = After[next[i - 1]]
                          /\ rounds'[i] <= next[i] /\ next[i] <= rounds'[i] + MaxSend
  <2> SUFFICES ASSUME NEW i \in 1..n + 1
               PROVE  /\ rounds'[i] = After[next[i - 1]]
                      /\ rounds'[i] <= next[i] /\ next[i] <= rounds'[i] + MaxSend
    OBVIOUS
  <2>1. CASE i \in 1..n
    <3>1. i \in 0..n /\ i - 1 \in 0..n
      BY <1>2, <2>1
    <3> QED BY <1>2, <1>3, <1>6, <2>1, <3>1
  <2>2. CASE i = n + 1
    <3>1. i - 1 = n /\ n \in 0..n
      BY <1>2, <2>2
    <3>2. now <= now /\ now <= now + MaxSend
      BY <1>1
    <3> QED BY <1>2, <1>3, <1>6, <2>2, <3>1, <3>2
  <2> QED BY <1>2, <2>1, <2>2
<1>8. \A i \in 0..n + 1, j \in 1..n + 1 : i < j => next[i] < rounds'[j]
  <2> SUFFICES ASSUME NEW i \in 0..n + 1, NEW j \in 1..n + 1, i < j
               PROVE  next[i] < rounds'[j]
    OBVIOUS
  <2>1. i \in 0..n /\ next[i] = from[i]
    BY <1>2, <1>6
  <2>2. CASE j \in 1..n
    BY <1>2, <1>3, <2>1, <2>2
  <2>3. CASE j = n + 1
    <3>1. from[n] < now
      <4>1. from[n] \in Nat
        BY <1>2, <1>3
      <4> QED BY <1>3, <4>1, AfterIs
    <3>2. CASE i = n
      BY <1>2, <2>1, <2>3, <3>1, <3>2
    <3>3. CASE i # n
      <4>1. i < n /\ n \in 1..n /\ n \in 0..n
        BY <1>2, <2>1, <3>3
      <4>2. from[i] < rounds[n] /\ rounds[n] <= from[n]
        BY <1>3, <2>1, <4>1
      <4>3. from[i] \in Nat /\ rounds[n] \in Nat /\ from[n] \in Nat
        BY <1>2, <1>3, <2>1, <4>1
      <4>4. from[i] < now
        BY <1>1, <3>1, <4>2, <4>3
      <4> QED BY <1>2, <2>1, <2>3, <4>4
    <3> QED BY <3>2, <3>3
  <2> QED BY <1>2, <2>2, <2>3
<1>9. Chain(next)'
  <2>1. now <= now
    BY <1>1
  <2>2. doing' # "sleep" /\ next[n + 1] = now' /\ summaryAt' <= rounds'[n + 1] + MaxSend
    BY <1>1, <1>2, <1>4, <1>6
  <2> QED BY <1>1, <1>2, <1>4, <1>5, <1>6, <1>7, <1>8, <2>1, <2>2 DEF Chain
<1> QED BY <1>9 DEF ChainInv

(* While a round goes on, its end has not come before now.                  *)
LEMMA TickChain ==
  ASSUME TypeOK, TypeOK', NEW from, Chain(from), [Next]_vars, Tick PROVE ChainInv'
<1> DEFINE n == Len(rounds)
<1>0. PICK next : next = [from EXCEPT ![n] = now + 1]
  OBVIOUS
<1>1. /\ now' = now + 1 /\ now # summaryAt /\ UNCHANGED <<running, doing, summaryAt, rounds>>
      /\ now \in Nat /\ After' = After /\ MaxSend \in Nat
  BY AfterStays, ScheduleAssumption DEF Tick, AllAsleep, summaryVars, TypeOK
<1>2. n \in Nat /\ \A i \in 1..n : rounds[i] \in Nat
  BY DEF TypeOK
<1>3. /\ from \in [0..n -> Nat] /\ from[0] = 0
      /\ \A i \in 1..n : /\ rounds[i] = After[from[i - 1]]
                         /\ rounds[i] <= from[i] /\ from[i] <= rounds[i] + MaxSend
      /\ \A i \in 0..n, j \in 1..n : i < j => from[i] < rounds[j]
  BY DEF Chain
<1>4. running => /\ summaryAt \in Nat /\ from[n] <= now /\ now <= summaryAt
                 /\ doing = "sleep" => summaryAt = After[from[n]]
                 /\ doing # "sleep" => from[n] = now /\ summaryAt <= rounds[n] + MaxSend
  BY DEF Chain
<1>5. CASE ~running \/ doing = "sleep"
  <2>1. from[n] \in Nat
    BY <1>2, <1>3
  <2>2. running => from[n] <= now + 1 /\ now + 1 <= summaryAt
    BY <1>1, <1>4, <2>1
  <2>3. Chain(from)'
    BY <1>1, <1>3, <1>4, <1>5, <2>2 DEF Chain
  <2> QED BY <2>3 DEF ChainInv
<1>6. CASE running /\ doing # "sleep"
  <2>1. n \in 1..n /\ n \in 0..n
    <3>1. rounds # << >> /\ rounds \in Seq(Nat)
      BY <1>6 DEF TypeOK
    <3> QED BY <1>2, <3>1, LastRound
  <2>2. now + 1 <= summaryAt /\ rounds[n] \in Nat /\ rounds[n] <= now + 1
        /\ now + 1 <= rounds[n] + MaxSend
    <3>1. /\ summaryAt \in Nat /\ now <= summaryAt /\ summaryAt <= rounds[n] + MaxSend
          /\ from[n] = now /\ rounds[n] <= from[n] /\ rounds[n] \in Nat
      BY <1>2, <1>3, <1>4, <1>6, <2>1
    <3>2. now + 1 <= summaryAt
      BY <1>1, <3>1
    <3> QED BY <1>1, <3>1, <3>2
  <2> HIDE DEF n
  <2>3. /\ next \in [0..n -> Nat] /\ next[n] = now + 1
        /\ \A i \in 0..n : i # n => next[i] = from[i]
    BY <1>0, <1>1, <1>3, <2>1
  <2>4. next[0] = 0
    <3>1. 0 \in 0..n /\ 0 # n
      BY <1>2, <2>1
    <3> QED BY <1>3, <2>3, <3>1
  <2>5. ASSUME NEW i \in 1..n
        PROVE  /\ rounds[i] = After[next[i - 1]]
               /\ rounds[i] <= next[i] /\ next[i] <= rounds[i] + MaxSend
    <3>1. i \in 0..n /\ i - 1 \in 0..n /\ i - 1 # n
      BY <1>2
    <3> QED BY <1>3, <2>2, <2>3, <3>1
  <2>6. ASSUME NEW i \in 0..n, NEW j \in 1..n, i < j PROVE next[i] < rounds[j]
    <3>1. i # n
      BY <1>2, <2>6
    <3> QED BY <1>3, <2>3, <2>6, <3>1
  <2>7. now + 1 <= now + 1
    BY <1>1
  <2>8. Chain(next)'
    BY <1>1, <1>4, <1>6, <2>2, <2>3, <2>4, <2>5, <2>6, <2>7 DEF Chain, n
  <2> QED BY <2>8 DEF ChainInv
<1> QED BY <1>5, <1>6

LEMMA NextChain ==
  ASSUME TypeOK, TypeOK', ChainInv, [Next]_vars PROVE ChainInv'
<1>1. PICK from : Chain(from)
  BY DEF ChainInv
<1>2. CASE Wake /\ running
  BY <1>1, <1>2, WakeChain
<1>3. CASE Tick
  BY <1>1, <1>3, TickChain
<1>4. now \in Nat /\ MaxSend \in Nat /\ After' = After
  BY AfterStays, ScheduleAssumption DEF TypeOK
<1>5. CASE \E ok \in BOOLEAN : Gather(ok)
  <2>1. /\ doing = "gather" /\ doing' = "send" /\ UNCHANGED <<now, running, rounds>>
        /\ summaryAt' \in now..(Last(rounds) + MaxSend)
    BY <1>5 DEF Gather, clock
  <2>2. Last(rounds) = rounds[Len(rounds)] /\ Last(rounds) \in Nat
    BY <2>1, LastRound DEF TypeOK
  <2>3. summaryAt' \in Nat /\ now <= summaryAt' /\ summaryAt' <= rounds[Len(rounds)] + MaxSend
    BY <1>4, <2>1, <2>2
  <2>4. Chain(from)'
    BY <1>1, <1>4, <2>1, <2>3 DEF Chain
  <2> QED BY <2>4 DEF ChainInv
<1>6. CASE RoundEnds /\ running
  <2>1. /\ doing = "send" /\ doing' = "sleep" /\ UNCHANGED <<now, running, rounds>>
        /\ summaryAt' = now + SecondsUntilNextRun(now)
    BY <1>6 DEF RoundEnds, clock
  <2>2. SecondsUntilNextRun(now) \in Nat
    BY <1>4, WaitIsADay
  <2>3. After[now] = now + SecondsUntilNextRun(now)
    BY <1>4 DEF After
  <2>4. from[Len(rounds)] = now
    BY <1>1, <1>6, <2>1 DEF Chain
  <2> HIDE DEF SecondsUntilNextRun
  <2>5. summaryAt' \in Nat /\ now <= summaryAt' /\ summaryAt' = After[from[Len(rounds)]]
    BY <1>4, <2>1, <2>2, <2>3, <2>4
  <2>6. Chain(from)'
    BY <1>1, <1>4, <1>6, <2>1, <2>5 DEF Chain
  <2> QED BY <2>6 DEF ChainInv
<1>7. CASE ~running' /\ UNCHANGED rounds
  <2>1. Chain(from)'
    BY <1>1, <1>4, <1>7 DEF Chain
  <2> QED BY <2>1 DEF ChainInv
<1>8. CASE UNCHANGED <<now, running, doing, summaryAt, rounds>>
  <2>1. Chain(from)'
    BY <1>1, <1>4, <1>8 DEF Chain
  <2> QED BY <2>1 DEF ChainInv
<1>9. CASE Wake /\ ~running
  BY <1>7, <1>9 DEF Wake
<1>10. CASE RoundEnds /\ ~running
  BY <1>7, <1>10 DEF RoundEnds
<1>11. CASE Stop \/ CancelTasks
  BY <1>7, <1>11 DEF Stop, CancelTasks, summaryVars
<1>12. CASE (\E ok \in BOOLEAN : Commit(ok)) \/ \E failing \in SUBSET Coins : TakeSnapshots(failing)
  BY <1>8, <1>12 DEF Commit, TakeSnapshots, clock, summaryVars
<1>13. CASE (\E c \in Coins : MarketEvent(c) \/ Enter(c)) \/ Leave \/ PostTrade \/ UNCHANGED vars
  BY <1>8, <1>13 DEF MarketEvent, Enter, Leave, PostTrade, clock, summaryVars, vars
<1>14. Next => \/ Tick \/ Wake \/ RoundEnds \/ (\E ok \in BOOLEAN : Gather(ok))
               \/ (\E ok \in BOOLEAN : Commit(ok))
               \/ (\E failing \in SUBSET Coins : TakeSnapshots(failing))
               \/ (\E c \in Coins : MarketEvent(c) \/ Enter(c)) \/ Leave \/ PostTrade
               \/ Stop \/ CancelTasks
  BY DEF Next
<1> QED BY <1>2, <1>3, <1>5, <1>6, <1>9, <1>10, <1>11, <1>12, <1>13, <1>14

LEMMA ChainAlways == Spec => [](TypeOK /\ ChainInv)
<1>1. TypeOK /\ ChainInv /\ [Next]_vars => (TypeOK /\ ChainInv)'
  BY NextType, NextChain
<1> QED BY <1>1, InitType, InitChain, PTL DEF Spec

(* What the chain says of the order of the moments.                         *)
LEMMA ChainOrder ==
  ASSUME TypeOK, NEW from, Chain(from)
  PROVE  /\ Len(rounds) \in Nat /\ DOMAIN rounds = 1..Len(rounds)
         /\ from \in [0..Len(rounds) -> Nat] /\ from[0] = 0
         /\ \A i \in 1..Len(rounds) :
              /\ rounds[i] \in Nat /\ from[i - 1] \in Nat /\ from[i] \in Nat
              /\ rounds[i] = After[from[i - 1]] /\ from[i - 1] < rounds[i]
              /\ rounds[i] <= from[i] /\ from[i] <= rounds[i] + MaxSend
         /\ \A i, j \in 1..Len(rounds) : i < j => rounds[i] <= from[j - 1] /\ rounds[i] < rounds[j]
<1> DEFINE n == Len(rounds)
<1>1. n \in Nat /\ DOMAIN rounds = 1..n /\ \A i \in 1..n : rounds[i] \in Nat
  BY DEF TypeOK
<1>2. /\ from \in [0..n -> Nat] /\ from[0] = 0
      /\ \A i \in 1..n : /\ rounds[i] = After[from[i - 1]]
                         /\ rounds[i] <= from[i] /\ from[i] <= rounds[i] + MaxSend
      /\ \A i \in 0..n, j \in 1..n : i < j => from[i] < rounds[j]
  BY DEF Chain
<1> HIDE DEF n
<1>3. ASSUME NEW i \in 1..n
      PROVE  /\ rounds[i] \in Nat /\ from[i - 1] \in Nat /\ from[i] \in Nat
             /\ rounds[i] = After[from[i - 1]] /\ from[i - 1] < rounds[i]
             /\ rounds[i] <= from[i] /\ from[i] <= rounds[i] + MaxSend
  <2>1. i - 1 \in 0..n /\ i \in 0..n /\ i - 1 < i
    BY <1>1
  <2> QED BY <1>1, <1>2, <2>1
<1>4. ASSUME NEW i \in 1..n, NEW j \in 1..n, i < j
      PROVE  rounds[i] <= from[j - 1] /\ rounds[i] < rounds[j]
  <2>1. j - 1 \in 1..n /\ (i = j - 1 \/ i < j - 1) /\ i \in 0..n
    BY <1>1, <1>4
  <2> DEFINE k == j - 1
  <2>2. k \in 1..n /\ (i = k \/ i < k)
    BY <2>1
  <2>3. from[k] < rounds[j]
    BY <1>3
  <2> HIDE DEF k
  <2>4. rounds[i] <= from[k]
    <3>1. CASE i = k
      BY <1>3, <3>1
    <3>2. CASE i < k
      <4>1. from[i] < rounds[k]
        BY <1>2, <2>1, <2>2, <3>2
      <4>2. rounds[i] <= from[i] /\ rounds[k] <= from[k]
        BY <1>3, <2>2
      <4>3. rounds[i] \in Nat /\ from[i] \in Nat /\ rounds[k] \in Nat /\ from[k] \in Nat
        BY <1>3, <2>2
      <4> QED BY <4>1, <4>2, <4>3
    <3> QED BY <2>2, <3>1, <3>2
  <2>5. rounds[i] \in Nat /\ from[k] \in Nat /\ rounds[j] \in Nat
    BY <1>3, <2>2
  <2>6. rounds[i] < rounds[j]
    BY <2>3, <2>4, <2>5
  <2> QED BY <2>4, <2>6 DEF k
<1> QED BY <1>1, <1>2, <1>3, <1>4 DEF n

-----------------------------------------------------------------------------
(* What the summaries tell.                                                 *)

(* A round is due when the clock shows SendAt; or it was put forward or     *)
(* back in the sleep before, and shows an hour more or less.                *)
AtTheHour(t) ==
    \E q \in Int : \/ Wall(t) = Midnight(q) + SendAt
                   \/ change.at <= t /\ Wall(t) = Midnight(q) + SendAt + change.by

LEMMA DueAtTheHour ==
  ASSUME TypeOK, NEW e \in Nat PROVE AtTheHour(After[e])
<1> DEFINE u == After[e]
<1>1. u \in Nat /\ Wall(u) = Target(e) + Jump(e, u) /\ Target(e) \in Int
  BY AfterIs, TargetIs
<1>2. PICK q \in Int : Target(e) = Midnight(q) + SendAt
  BY TargetIs
<1> HIDE DEF u
<1>3. CASE Crossed(e, u)
  <2>1. change.at <= u /\ Jump(e, u) = change.by
    BY <1>3 DEF Jump, Crossed
  <2> QED BY <1>1, <1>2, <2>1 DEF AtTheHour, u
<1>4. CASE ~Crossed(e, u)
  <2>1. Wall(u) = Target(e)
    BY <1>1, <1>4 DEF Jump
  <2> QED BY <1>2, <2>1 DEF AtTheHour, u
<1> QED BY <1>3, <1>4

(* Two rounds are never more than a day of elapsed time apart: a wait that  *)
(* begins within the hour after t ends by the same moment a day later.      *)
LEMMA WithinADay ==
  ASSUME TypeOK, NEW t \in Nat, NEW e \in Nat, t <= e, e <= t + MaxSend, AtTheHour(t)
  PROVE  After[e] <= t + Day
<1>1. /\ Wall(t) \in Int /\ Wall(e) \in Int /\ Target(e) \in Int
      /\ Wall(e) = Wall(t) + (e - t) + Jump(t, e)
      /\ Day \in Nat \ {0} /\ Hour \in Nat \ {0} /\ MaxSend \in Nat /\ MaxSend < Hour
      /\ Hour + MaxSend < Day /\ SendAt \in 0..(Day - 1)
      /\ change.by \in {-Hour, 0, Hour} /\ change.at \in Nat
  BY WallType, TargetIs, WallMoves, ChangeType
<1>2. After[e] = e + (Target(e) - Wall(e))
  BY TargetIs DEF After
<1>3. PICK q \in Int : \/ Wall(t) = Midnight(q) + SendAt
                       \/ change.at <= t /\ Wall(t) = Midnight(q) + SendAt + change.by
  BY DEF AtTheHour
<1> DEFINE y == Midnight(q) + SendAt
<1>4. y \in Int /\ y + Day = Midnight(q + 1) + SendAt /\ q + 1 \in Int
  <2>1. Midnight(q) \in Int /\ Midnight(q + 1) = Midnight(q) + Day
    BY Midnights
  <2> QED BY <1>1, <2>1
<1>5. /\ Wall(e) < y => Target(e) <= y
      /\ Wall(e) < y + Day => Target(e) <= y + Day
  BY <1>4, TargetIsFirst
<1>6. Jump(t, e) \in {change.by, 0} /\ (change.at <= t => Jump(t, e) = 0)
  BY <1>1 DEF Jump, Crossed
<1>7. Wall(t) = y \/ (change.at <= t /\ Wall(t) = y + change.by)
  <2>1. CASE Wall(t) = Midnight(q) + SendAt
    BY <2>1
  <2>2. CASE change.at <= t /\ Wall(t) = Midnight(q) + SendAt + change.by
    BY <2>2
  <2> QED BY <1>3, <2>1, <2>2
<1> HIDE DEF y
<1>8. Target(e) <= Wall(t) + Jump(t, e) + Day
  <2>1. CASE Wall(t) = y /\ Jump(t, e) \in {0, Hour}
    <3>1. Wall(e) < y + Day
      BY <1>1, <1>4, <2>1
    <3> QED BY <1>1, <1>4, <1>5, <2>1, <3>1
  <2>2. CASE Wall(t) = y /\ Jump(t, e) = -Hour
    <3>1. Wall(e) < y
      BY <1>1, <1>4, <2>2
    <3> QED BY <1>1, <1>4, <1>5, <2>2, <3>1
  <2>3. CASE Wall(t) = y + change.by /\ Jump(t, e) = 0 /\ change.by \in {0, Hour}
    <3>1. Wall(e) < y + Day
      BY <1>1, <1>4, <2>3
    <3> QED BY <1>1, <1>4, <1>5, <2>3, <3>1
  <2>4. CASE Wall(t) = y - Hour /\ Jump(t, e) = 0
    <3>1. Wall(e) < y
      BY <1>1, <1>4, <2>4
    <3> QED BY <1>1, <1>4, <1>5, <2>4, <3>1
  <2> QED BY <1>1, <1>4, <1>6, <1>7, <2>1, <2>2, <2>3, <2>4
<1>9. Jump(t, e) \in Int
  BY <1>1, <1>6
<1> HIDE DEF Jump, Wall, Target
<1> QED BY <1>1, <1>2, <1>8, <1>9

(* The i-th round was due a day at the latest after the one before.         *)
LEMMA RoundsADayApart ==
  ASSUME TypeOK, ChainInv
  PROVE  /\ \A i \in 1..Len(rounds) : i > 1 => rounds[i] <= rounds[i - 1] + Day
         /\ Len(rounds) >= 1 => rounds[1] <= Day
<1>1. PICK from : Chain(from)
  BY DEF ChainInv
<1> DEFINE n == Len(rounds)
<1>2. /\ n \in Nat /\ from[0] = 0
      /\ \A i \in 1..n :
            /\ rounds[i] \in Nat /\ from[i - 1] \in Nat /\ from[i] \in Nat
            /\ rounds[i] = After[from[i - 1]] /\ from[i - 1] < rounds[i]
            /\ rounds[i] <= from[i] /\ from[i] <= rounds[i] + MaxSend
  BY <1>1, ChainOrder
<1> HIDE DEF n
<1>3. ASSUME NEW i \in 1..n, i > 1 PROVE rounds[i] <= rounds[i - 1] + Day
  <2> DEFINE k == i - 1
  <2>1. k \in 1..n
    BY <1>2, <1>3
  <2>2. rounds[i] = After[from[k]]
    BY <1>2
  <2> HIDE DEF k
  <2>3. /\ rounds[k] \in Nat /\ from[k] \in Nat /\ rounds[k] <= from[k]
        /\ from[k] <= rounds[k] + MaxSend
    BY <1>2, <2>1
  <2>4. AtTheHour(rounds[k])
    <3>1. rounds[k] = After[from[k - 1]] /\ from[k - 1] \in Nat
      BY <1>2, <2>1
    <3> QED BY <3>1, DueAtTheHour
  <2>5. After[from[k]] <= rounds[k] + Day
    BY <2>3, <2>4, WithinADay
  <2> QED BY <2>2, <2>5 DEF k
<1>4. ASSUME n >= 1 PROVE rounds[1] <= Day
  <2>1. 1 \in 1..n /\ 1 - 1 = 0
    BY <1>2, <1>4
  <2>2. rounds[1] = After[0]
    BY <1>2, <2>1
  <2>3. After[0] = 0 + SecondsUntilNextRun(0)
    BY DEF After
  <2>4. SecondsUntilNextRun(0) \in 1..Day /\ Day \in Nat
    BY WaitIsADay, ChangeType
  <2> HIDE DEF SecondsUntilNextRun
  <2> QED BY <2>2, <2>3, <2>4
<1> QED BY <1>3, <1>4 DEF n

(* Each round has had its query, but the one that waits for it; and a trade *)
(* that was open at the last query is left after it.  A stored one changes  *)
(* no more.                                                                 *)
QueryInv ==
    LET n == Len(queries)
    IN  /\ n = Len(rounds) - (IF doing = "gather" THEN 1 ELSE 0)
        /\ \A i \in 1..n : /\ queries[i].due = rounds[i]
                           /\ queries[i].trade = "stored" => Progress = "stored"
        /\ n > 0 => /\ queries[n].at <= now
                    /\ queries[n].trade = "open" /\ Progress # "open" => trade.exit >= queries[n].at

LEMMA InitQueries == Init => QueryInv
<1> SUFFICES ASSUME Init PROVE QueryInv
  OBVIOUS
<1>1. Len(queries) = 0 /\ Len(rounds) = 0 /\ doing = "sleep" /\ ~(0 > 0) /\ 1..0 = {}
  BY DEF Init
<1> QED BY <1>1 DEF QueryInv

(* What the query of a round appends.                                       *)
LEMMA GatherAppends ==
  ASSUME TypeOK, QueryInv, NEW ok \in BOOLEAN, Gather(ok)
  PROVE  LET q == [due |-> Last(rounds), at |-> now, ok |-> ok, tells |-> ok /\ InWindow,
                   trade |-> Progress]
             n == Len(queries)
         IN /\ n \in Nat /\ Len(rounds) = n + 1
            /\ DOMAIN queries = 1..n /\ DOMAIN queries' = 1..n + 1 /\ Len(queries') = n + 1
            /\ queries'[n + 1] = q /\ q.due = rounds[n + 1]
            /\ \A i \in 1..n : queries'[i] = queries[i]
<1> DEFINE q == [due |-> Last(rounds), at |-> now, ok |-> ok, tells |-> ok /\ InWindow,
                 trade |-> Progress]
           n == Len(queries)
<1>1. queries' = Append(queries, q) /\ queries \in Seq(Queries) /\ doing = "gather"
  BY DEF Gather, TypeOK
<1>2. Len(rounds) \in Nat /\ Last(rounds) = rounds[Len(rounds)]
  BY <1>1, LastRound DEF TypeOK
<1>3. n \in Nat /\ DOMAIN queries = 1..n
  BY <1>1
<1>4. n = Len(rounds) - 1
  BY <1>1 DEF QueryInv
<1>5. Len(rounds) = n + 1
  BY <1>2, <1>3, <1>4
<1>6. q.due = Last(rounds)
  OBVIOUS
<1> HIDE DEF q
<1>7. /\ Len(queries') = n + 1 /\ queries'[n + 1] = q /\ DOMAIN queries' = 1..n + 1
      /\ \A i \in 1..n : queries'[i] = queries[i]
  BY <1>1
<1> QED BY <1>2, <1>3, <1>5, <1>6, <1>7 DEF q

LEMMA GatherQueries ==
  ASSUME TypeOK, QueryInv, NEW ok \in BOOLEAN, Gather(ok) PROVE QueryInv'
<1> DEFINE k == Len(rounds)
           q == [due |-> Last(rounds), at |-> now, ok |-> ok, tells |-> ok /\ InWindow,
                 trade |-> Progress]
<1>1. /\ Len(queries) \in Nat /\ k = Len(queries) + 1 /\ Len(queries') = Len(queries) + 1
      /\ queries'[Len(queries) + 1] = q /\ q.due = rounds[Len(queries) + 1]
      /\ \A i \in 1..Len(queries) : queries'[i] = queries[i]
  BY GatherAppends
<1>2. q.at = now /\ q.trade = Progress
  OBVIOUS
<1> HIDE DEF q, k
<1>3. /\ k \in Nat /\ Len(queries') = k /\ queries'[k] = q /\ q.due = rounds[k]
      /\ \A i \in 1..k : i = k \/ i \in 1..Len(queries)
  BY <1>1
<1>4. doing' = "send" /\ UNCHANGED <<now, rounds, trade>> /\ Progress' = Progress
  BY DEF Gather, clock, Progress
<1>5. \A i \in 1..k : /\ queries'[i].due = rounds[i]
                      /\ queries'[i].trade = "stored" => Progress = "stored"
  BY <1>1, <1>2, <1>3 DEF QueryInv
<1>6. now <= now /\ k = k - 0
  BY <1>3 DEF TypeOK
<1> QED BY <1>2, <1>3, <1>4, <1>5, <1>6 DEF QueryInv, k

LEMMA NextQueries ==
  ASSUME TypeOK, QueryInv, [Next]_vars PROVE QueryInv'
<1> DEFINE n == Len(queries)
<1>0. /\ now \in Nat /\ n \in Nat /\ Len(rounds) \in Nat /\ queries \in Seq(Queries)
      /\ n > 0 => queries[n].at \in Nat
  <2>1. queries \in Seq(Queries) /\ rounds \in Seq(Nat) /\ now \in Nat
    BY DEF TypeOK
  <2>2. n \in Nat /\ (n > 0 => queries[n] \in Queries)
    BY <2>1
  <2> QED BY <2>1, <2>2 DEF Queries
<1>1. CASE Tick
  <2>1. now' = now + 1 /\ UNCHANGED <<doing, rounds, queries, trade>> /\ Progress' = Progress
    BY <1>1 DEF Tick, summaryVars, Progress
  <2>2. n > 0 => queries[n].at <= now + 1
    BY <1>0 DEF QueryInv
  <2> QED BY <2>1, <2>2 DEF QueryInv
<1>2. CASE Wake /\ running
  <2>1. /\ doing = "sleep" /\ doing' = "gather" /\ rounds' = Append(rounds, now)
        /\ UNCHANGED <<now, queries, trade>> /\ Progress' = Progress
    BY <1>2 DEF Wake, clock, Progress
  <2>2. /\ Len(rounds') = Len(rounds) + 1
        /\ \A i \in 1..Len(rounds) : rounds'[i] = rounds[i]
    <3>1. rounds \in Seq(Nat) /\ now \in Nat
      BY DEF TypeOK
    <3> QED BY <2>1, <3>1, AppendProperties
  <2>3. n = Len(rounds) /\ n = (Len(rounds) + 1) - 1
    BY <1>0, <2>1 DEF QueryInv
  <2> QED BY <2>1, <2>2, <2>3 DEF QueryInv
<1>3. CASE \E ok \in BOOLEAN : Gather(ok)
  BY <1>3, GatherQueries
<1>4. CASE RoundEnds \/ (Wake /\ ~running) \/ Stop \/ CancelTasks
  <2>1. /\ UNCHANGED <<now, rounds, queries, trade>> /\ Progress' = Progress
        /\ doing' = "gather" <=> doing = "gather"
    BY <1>4 DEF RoundEnds, Wake, Stop, CancelTasks, clock, summaryVars, Progress
  <2> QED BY <2>1 DEF QueryInv
<1>5. CASE Leave
  <2>1. UNCHANGED <<now, doing, rounds, queries>> /\ trade' = [trade EXCEPT !.exit = now]
    BY <1>5 DEF Leave, clock, summaryVars
  <2>2. trade \in Trades
    BY <1>5 DEF Leave, TypeOK
  <2>3. trade'.exit = now
    BY <2>1, <2>2 DEF Trades
  <2>4. Progress = "open"
    BY <1>5 DEF Leave, Progress
  <2>5. n > 0 => queries[n].at <= now
    BY DEF QueryInv
  <2> QED BY <2>1, <2>3, <2>4, <2>5 DEF QueryInv
<1>6. CASE PostTrade
  <2>1. /\ UNCHANGED <<now, doing, rounds, queries>>
        /\ trade' = [trade EXCEPT !.stored = TRUE] /\ Progress = "left"
    BY <1>6 DEF PostTrade, clock, summaryVars
  <2>2. trade \in Trades
    BY <2>1 DEF Progress, TypeOK
  <2>3. trade'.exit = trade.exit
    BY <2>1, <2>2 DEF Trades
  <2>4. Progress # "open"
    BY <2>1
  <2> QED BY <2>1, <2>3, <2>4 DEF QueryInv
<1>7. CASE \E c \in Coins : Enter(c)
  <2>1. PICK c \in Coins : Enter(c)
    BY <1>7
  <2>2. UNCHANGED <<now, doing, rounds, queries>> /\ trade'.exit = None
    BY <2>1 DEF Enter, clock, summaryVars
  <2>3. Progress' = "open" /\ Progress = "open"
    BY <2>1, <2>2 DEF Progress, Enter
  <2> QED BY <2>2, <2>3 DEF QueryInv
<1>8. CASE \/ \E ok \in BOOLEAN : Commit(ok)
           \/ \E failing \in SUBSET Coins : TakeSnapshots(failing)
           \/ \E c \in Coins : MarketEvent(c)
           \/ UNCHANGED vars
  <2>1. UNCHANGED <<now, doing, rounds, queries, trade>> /\ Progress' = Progress
    BY <1>8 DEF Commit, TakeSnapshots, MarketEvent, vars, clock, summaryVars, Progress
  <2> QED BY <2>1 DEF QueryInv
<1> QED BY <1>1, <1>2, <1>3, <1>4, <1>5, <1>6, <1>7, <1>8 DEF Next

LEMMA StoredStays ==
  ASSUME [Next]_vars, Progress = "stored" PROVE UNCHANGED trade
<1>1. ~Leave /\ ~PostTrade /\ \A c \in Coins : ~Enter(c)
  BY DEF Leave, PostTrade, Enter, Progress
<1>2. \/ Tick \/ Wake \/ RoundEnds
      \/ (\E ok \in BOOLEAN : Gather(ok)) \/ (\E ok \in BOOLEAN : Commit(ok))
      \/ (\E failing \in SUBSET Coins : TakeSnapshots(failing))
      \/ (\E c \in Coins : MarketEvent(c)) \/ Stop \/ CancelTasks \/ UNCHANGED vars
  BY <1>1 DEF Next
<1> QED BY <1>2 DEF Tick, Wake, RoundEnds, Gather, Commit, TakeSnapshots, MarketEvent, Stop,
                    CancelTasks, vars

LEMMA MissedStep ==
  ASSUME TypeOK, ChainInv, QueryInv, MissedOnlyBetweenWindows, [Next]_vars
  PROVE  MissedOnlyBetweenWindows'
<1>1. ASSUME NEW ok \in BOOLEAN, Gather(ok) PROVE MissedOnlyBetweenWindows'
  <2> DEFINE q == [due |-> Last(rounds), at |-> now, ok |-> ok, tells |-> ok /\ InWindow,
                   trade |-> Progress]
             n == Len(queries)
             first == [due |-> 0, at |-> 0, trade |-> "open"]
             before == IF n = 0 THEN first ELSE queries[n]
  <2>1. /\ n \in Nat /\ Len(rounds) = n + 1 /\ DOMAIN queries = 1..n /\ DOMAIN queries' = 1..n + 1
        /\ queries'[n + 1] = q /\ q.due = rounds[n + 1]
        /\ \A i \in 1..n : queries'[i] = queries[i]
    BY <1>1, GatherAppends
  <2>2. q.at = now /\ q.trade = Progress /\ q.ok = ok /\ q.tells = (ok /\ InWindow)
    OBVIOUS
  <2>3. UNCHANGED trade
    BY <1>1 DEF Gather
  <2>4. first.due = 0 /\ first.at = 0
    OBVIOUS
  <2> HIDE DEF q, n, first
  <2>5. /\ before.due \in Nat /\ before.at \in Nat /\ before.at <= now /\ q.due \in Nat
        /\ q.due <= before.due + Day
        /\ before.trade = "open" /\ Progress = "stored" => trade.exit >= before.at
    <3>1. q.due \in Nat /\ now \in Nat /\ Day \in Nat
      <4>1. n + 1 \in 1..Len(rounds)
        BY <2>1
      <4> QED BY <2>1, <4>1, ScheduleAssumption DEF TypeOK
    <3>2. CASE n = 0
      <4>1. before = first
        BY <3>2
      <4>2. rounds[1] <= Day
        BY <2>1, <3>2, RoundsADayApart
      <4>3. Progress = "stored" => trade.exit >= 0
        <5>1. Progress = "stored" => trade \in Trades /\ trade.exit # None
          BY DEF Progress, TypeOK
        <5> QED BY <5>1 DEF Trades
      <4> QED BY <2>1, <2>4, <3>1, <3>2, <4>1, <4>2, <4>3
    <3>3. CASE n # 0
      <4>1. before = queries[n] /\ n \in 1..n /\ n > 0
        BY <2>1, <3>3
      <4>2. queries[n] \in Queries
        BY <2>1, <4>1 DEF TypeOK
      <4>3. /\ queries[n].due = rounds[n] /\ queries[n].at <= now
            /\ queries[n].trade = "open" /\ Progress # "open" => trade.exit >= queries[n].at
        BY <4>1 DEF QueryInv, n
      <4>4. rounds[n + 1] <= rounds[n] + Day
        <5>1. n + 1 \in 1..Len(rounds) /\ n + 1 > 1 /\ (n + 1) - 1 = n
          BY <2>1, <4>1
        <5> QED BY <5>1, RoundsADayApart
      <4> QED BY <2>1, <3>1, <4>1, <4>2, <4>3, <4>4 DEF Queries
    <3> QED BY <3>2, <3>3
  <2>6. ASSUME ok, Progress = "stored", before.trade = "open", ~InWindow
        PROVE  trade.exit < before.at + ((now - q.due) - (before.at - before.due))
    <3>1. now \in Nat /\ Day \in Nat
      BY ScheduleAssumption DEF TypeOK
    <3>2. trade.exit \in Nat
      <4>1. trade \in Trades /\ trade.exit # None
        BY <2>6 DEF Progress, TypeOK
      <4> QED BY <4>1 DEF Trades
    <3>3. ~(trade.exit >= now - Day)
      BY <2>6 DEF InWindow
    <3> HIDE DEF before
    <3> QED BY <2>5, <3>1, <3>2, <3>3
  <2>7. ASSUME NEW i \in 1..n + 1
        PROVE  LET r == queries'[i]
                   b == IF i = 1 THEN [due |-> 0, at |-> 0, trade |-> "open"] ELSE queries'[i - 1]
                   later == (r.at - r.due) - (b.at - b.due)
               IN  r.ok /\ r.trade = "stored" /\ b.trade = "open" /\ ~r.tells
                   => trade'.exit < b.at + later
    <3>1. CASE i \in 1..n
      <4>1. queries'[i] = queries[i] /\ (i # 1 => queries'[i - 1] = queries[i - 1])
        <5>1. i # 1 => i - 1 \in 1..n
          BY <2>1, <3>1
        <5> QED BY <2>1, <3>1, <5>1
      <4> QED BY <2>1, <2>3, <3>1, <4>1 DEF MissedOnlyBetweenWindows
    <3>2. CASE i = n + 1
      <4>1. before = IF i = 1 THEN [due |-> 0, at |-> 0, trade |-> "open"] ELSE queries'[i - 1]
        <5>1. (i = 1 <=> n = 0) /\ i - 1 = n /\ (n # 0 => n \in 1..n)
          BY <2>1, <3>2
        <5> QED BY <2>1, <5>1 DEF first
      <4> HIDE DEF before
      <4> QED BY <2>1, <2>2, <2>3, <2>6, <3>2, <4>1
    <3> QED BY <2>1, <3>1, <3>2
  <2> QED BY <2>1, <2>7 DEF MissedOnlyBetweenWindows
<1>2. CASE UNCHANGED queries
  <2>1. DOMAIN queries = 1..Len(queries)
    BY DEF TypeOK
  <2>2. \A i \in DOMAIN queries : queries[i].trade = "stored" => UNCHANGED trade
    <3>1. Progress = "stored" => UNCHANGED trade
      BY StoredStays
    <3> QED BY <2>1, <3>1 DEF QueryInv
  <2> QED BY <1>2, <2>2 DEF MissedOnlyBetweenWindows
<1> QED BY <1>1, <1>2, OtherSteps


(* A trade posted in time that no summary tells of, though no query failed, *)
(* was left in the moments by which the user's query came later after its   *)
(* hour than the one before (the recipients looked up and the messages sent *)
(* first, _send_summary): each query reads the 24 hours before it           *)
(* (_gather_data), and the hours that start computes with                   *)
(* _seconds_until_next_run are never more than a day of elapsed time apart, *)
(* whatever change of the clock falls into a wait or a round.               *)
THEOREM MissedTradesAreBetween == Spec => []MissedOnlyBetweenWindows
<1> DEFINE Inv == QueryInv /\ MissedOnlyBetweenWindows
<1>1. Init => Inv
  <2>1. Init => MissedOnlyBetweenWindows
    <3>1. Init => DOMAIN queries = {}
      BY DEF Init
    <3> QED BY <3>1 DEF MissedOnlyBetweenWindows
  <2> QED BY <2>1, InitQueries
<1>2. TypeOK /\ ChainInv /\ Inv /\ [Next]_vars => Inv'
  BY NextQueries, MissedStep
<1>3. Inv => MissedOnlyBetweenWindows
  OBVIOUS
<1> HIDE DEF Inv
<1> QED BY <1>1, <1>2, <1>3, ChainAlways, PTL DEF Spec

-----------------------------------------------------------------------------
(* The rounds of a day.                                                     *)

LEMMA TwoAtMost == ASSUME NEW a, NEW b, NEW T \in SUBSET {a, b}
                   PROVE  IsFiniteSet(T) /\ Cardinality(T) \in Nat /\ Cardinality(T) <= 2
<1>1. IsFiniteSet({a}) /\ Cardinality({a}) = 1
  BY FS_Singleton
<1>2. IsFiniteSet({a} \cup {b}) /\ Cardinality({a} \cup {b}) \in {1, 2}
  BY <1>1, FS_AddElement
<1>3. {a} \cup {b} = {a, b}
  OBVIOUS
<1>4. IsFiniteSet({a, b}) /\ Cardinality({a, b}) <= 2 /\ Cardinality({a, b}) \in Nat
  BY <1>2, <1>3
<1>5. IsFiniteSet(T) /\ Cardinality(T) <= Cardinality({a, b}) /\ Cardinality(T) \in Nat
  BY <1>4, FS_Subset, FS_CardinalityType
<1> QED BY <1>4, <1>5

(* The rounds that were due on day d.                                       *)
On(d) == {i \in 1..Len(rounds) : DayOf(rounds[i]) = d}
TimesOn(d) == {rounds[i] : i \in On(d)}

(* How a round lies to the change of the clock.                             *)
Kind(from, i) ==
    IF Crossed(from[i - 1], rounds[i]) THEN "across"
    ELSE IF rounds[i] < change.at THEN "before" ELSE "since"

LEMMA OnDayAre ==
  ASSUME TypeOK, NEW from, Chain(from), NEW d \in Int, NEW i \in On(d)
  PROVE  /\ i \in 1..Len(rounds) /\ from[i - 1] \in Nat /\ rounds[i] \in Nat
         /\ rounds[i] = After[from[i - 1]] /\ DayOf(After[from[i - 1]]) = d
         /\ Kind(from, i) # "across" => Wall(rounds[i]) = Midnight(d) + SendAt
         /\ Kind(from, i) = "across" => from[i - 1] < change.at /\ change.at <= rounds[i]
         /\ Kind(from, i) = "before" => rounds[i] < change.at
         /\ Kind(from, i) = "since" => change.at <= from[i - 1] /\ change.at <= rounds[i]
<1>1. i \in 1..Len(rounds) /\ DayOf(rounds[i]) = d
  BY DEF On
<1>2. /\ from[i - 1] \in Nat /\ rounds[i] \in Nat /\ rounds[i] = After[from[i - 1]]
      /\ from[i - 1] < rounds[i] /\ change.at \in Nat
  BY <1>1, ChainOrder, ChangeType
<1>3. ~Crossed(from[i - 1], rounds[i]) => Wall(rounds[i]) = Midnight(d) + SendAt
  BY <1>1, <1>2, SentAtTheHour
<1>4. Kind(from, i) # "across" => ~Crossed(from[i - 1], rounds[i])
  BY DEF Kind
<1>5. Kind(from, i) = "across" => Crossed(from[i - 1], rounds[i])
  BY DEF Kind
<1>6. Kind(from, i) = "before" => rounds[i] < change.at
  BY DEF Kind
<1>7. Kind(from, i) = "since" => ~(rounds[i] < change.at) /\ ~Crossed(from[i - 1], rounds[i])
  BY DEF Kind
<1> QED BY <1>1, <1>2, <1>3, <1>4, <1>5, <1>6, <1>7 DEF Crossed

(* The rounds of a day are of different kinds ...                           *)
LEMMA OneOfAKind ==
  ASSUME TypeOK, NEW from, Chain(from), NEW d \in Int, NEW i \in On(d), NEW j \in On(d),
         Kind(from, i) = Kind(from, j)
  PROVE  i = j
<1>1. ASSUME NEW k \in On(d), NEW l \in On(d), k < l, Kind(from, k) = Kind(from, l) PROVE FALSE
  <2>1. /\ k \in 1..Len(rounds) /\ l \in 1..Len(rounds)
        /\ from[k - 1] \in Nat /\ rounds[k] \in Nat /\ from[l - 1] \in Nat /\ rounds[l] \in Nat
        /\ change.at \in Nat
    BY <1>1, OnDayAre, ChangeType
  <2>2. rounds[k] <= from[l - 1] /\ rounds[k] < rounds[l]
    BY <1>1, <2>1, ChainOrder
  <2>3. CASE Kind(from, k) = "across"
    <3>1. change.at <= rounds[k] /\ from[l - 1] < change.at
      BY <1>1, <2>3, OnDayAre
    <3> QED BY <2>1, <2>2, <3>1
  <2>4. CASE Kind(from, k) # "across"
    <3>1. Wall(rounds[k]) = Wall(rounds[l])
      BY <1>1, <2>4, OnDayAre
    <3>2. rounds[k] < change.at /\ change.at <= rounds[l]
      BY <2>1, <2>2, <3>1, ShownTwice DEF Crossed
    <3>3. Kind(from, k) # "since" /\ Kind(from, l) # "before"
      <4>1. Kind(from, k) = "since" => change.at <= rounds[k]
        BY OnDayAre
      <4>2. Kind(from, l) = "before" => rounds[l] < change.at
        BY OnDayAre
      <4> QED BY <2>1, <3>2, <4>1, <4>2
    <3>4. Kind(from, k) \in {"across", "before", "since"}
      BY DEF Kind
    <3> QED BY <1>1, <2>4, <3>3, <3>4
  <2> QED BY <2>3, <2>4
<1>2. i \in Int /\ j \in Int
  BY OnDayAre
<1> QED BY <1>1, <1>2

(* ... and of two kinds at most: between two rounds at the same hour by the *)
(* clock there is no third, a day would have to pass.                       *)
LEMMA NotAllKinds ==
  ASSUME TypeOK, NEW from, Chain(from), NEW d \in Int, NEW b \in On(d), NEW a \in On(d),
         NEW s \in On(d),
         Kind(from, b) = "before", Kind(from, a) = "across", Kind(from, s) = "since"
  PROVE  FALSE
<1> DEFINE x == Midnight(d) + SendAt
           t == from[a - 1]
           e == from[s - 1]
<1>1. /\ b \in 1..Len(rounds) /\ a \in 1..Len(rounds) /\ s \in 1..Len(rounds)
      /\ rounds[b] \in Nat /\ rounds[a] \in Nat /\ rounds[s] \in Nat
      /\ t \in Nat /\ e \in Nat
      /\ rounds[b] < change.at /\ t < change.at /\ change.at <= rounds[a]
      /\ change.at <= e /\ rounds[a] = After[t]
      /\ Wall(rounds[b]) = x /\ Wall(rounds[s]) = x
  BY OnDayAre
<1>2. /\ change.at \in Nat /\ Day \in Nat \ {0} /\ Hour \in Nat \ {0} /\ Hour < Day
      /\ x \in Int /\ SendAt \in 0..(Day - 1) /\ Midnight(d) \in Int
  <2>1. /\ change.at \in Nat /\ Day \in Nat \ {0} /\ Hour \in Nat \ {0} /\ MaxSend \in Nat
        /\ Hour + MaxSend < Day /\ SendAt \in 0..(Day - 1)
    BY ChangeType
  <2>2. Midnight(d) \in Int
    BY Midnights
  <2> QED BY <2>1, <2>2
<1>3. /\ a < b => rounds[a] < rounds[b]
      /\ b < a => rounds[b] <= t
      /\ s < a => rounds[s] <= t
      /\ a < s => rounds[a] < rounds[s]
  BY <1>1, ChainOrder
<1>4. e < rounds[s]
  BY <1>1, ChainOrder
<1> HIDE DEF t, e, x
<1>5. rounds[b] <= t
  <2>1. b # a
    BY <1>1, <1>2
  <2>2. ~(a < b)
    BY <1>1, <1>2, <1>3
  <2> QED BY <1>1, <1>3, <2>1, <2>2
<1>6. rounds[a] < rounds[s]
  <2>1. a # s
    <3>1. "across" # "since"
      OBVIOUS
    <3> QED BY <3>1
  <2>2. ~(s < a)
    BY <1>1, <1>2, <1>3, <1>4
  <2> QED BY <1>1, <1>3, <2>1, <2>2
<1>7. rounds[s] = rounds[b] + Hour
  <2>1. rounds[b] < rounds[s]
    BY <1>1, <1>2, <1>4
  <2> QED BY <1>1, <2>1, ShownTwice
<1>8. Wall(t) = x + (t - rounds[b]) /\ Wall(t) \in Int
  <2>1. Jump(rounds[b], t) = 0
    BY <1>1, <1>2 DEF Jump, Crossed
  <2>2. Wall(t) = Wall(rounds[b]) + (t - rounds[b]) + Jump(rounds[b], t)
    BY <1>1, <1>5, WallMoves
  <2>3. Wall(t) \in Int
    BY <1>1, WallType
  <2> QED BY <1>1, <1>2, <2>1, <2>2, <2>3
<1>9. Target(t) \in Int /\ Target(t) >= x + Day
  <2>1. PICK q \in Int : Target(t) = Midnight(q) + SendAt
    BY <1>1, TargetIs
  <2>2. Target(t) \in Int /\ Wall(t) < Target(t) /\ Midnight(q) \in Int
    BY <1>1, TargetIs, Midnights
  <2>3. x < Midnight(q) + SendAt
    BY <1>1, <1>2, <1>5, <1>8, <2>1, <2>2
  <2>4. d < q
    <3>1. q < d => Midnight(q) + Day <= Midnight(d)
      BY Midnights
    <3> QED BY <1>2, <2>2, <2>3, <3>1 DEF x
  <2>5. Midnight(d) + Day <= Midnight(q)
    BY <2>4, Midnights
  <2> QED BY <1>2, <2>1, <2>2, <2>5 DEF x
<1>10. rounds[a] = t + (Target(t) - Wall(t))
  BY <1>1, TargetIs DEF After
<1>11. rounds[a] >= rounds[b] + Day
  <2> DEFINE r == rounds[b]
             z == Target(t)
             w == Wall(t)
  <2>1. /\ r \in Nat /\ t \in Nat /\ x \in Int /\ Day \in Nat /\ z \in Int /\ z >= x + Day
        /\ w = x + (t - r) /\ w \in Int /\ rounds[a] = t + (z - w)
    BY <1>1, <1>2, <1>8, <1>9, <1>10
  <2> HIDE DEF r, z, w
  <2>2. rounds[a] >= r + Day
    BY <2>1
  <2> QED BY <2>2 DEF r
<1>12. /\ rounds[b] \in Nat /\ rounds[a] \in Nat /\ rounds[s] \in Nat
       /\ Hour < Day /\ Day \in Nat /\ Hour \in Nat
  BY <1>1, <1>2
<1> QED BY <1>6, <1>7, <1>11, <1>12

LEMMA TwoADay ==
  ASSUME TypeOK, ChainInv, NEW d \in Int
  PROVE  Cardinality(TimesOn(d)) <= 2
<1>1. PICK from : Chain(from)
  BY DEF ChainInv
<1> DEFINE Of(kind) == CHOOSE i \in On(d) : Kind(from, i) = kind
           T == TimesOn(d)
<1>2. ASSUME NEW i \in On(d) PROVE i = Of(Kind(from, i))
  <2>1. Of(Kind(from, i)) \in On(d) /\ Kind(from, Of(Kind(from, i))) = Kind(from, i)
    OBVIOUS
  <2> HIDE DEF Of
  <2> QED BY <1>1, <2>1, OneOfAKind
<1> HIDE DEF Of
<1>3. \A i \in On(d) : Kind(from, i) \in {"across", "before", "since"}
  BY DEF Kind
<1>4. ASSUME NEW none \in {"across", "before", "since"}, \A i \in On(d) : Kind(from, i) # none
      PROVE  Cardinality(T) <= 2
  <2>1. PICK one, other : {"across", "before", "since"} = {none, one, other}
    <3>1. CASE none = "across"
      BY <3>1
    <3>2. CASE none = "before"
      BY <3>2
    <3>3. CASE none = "since"
      BY <3>3
    <3> QED BY <3>1, <3>2, <3>3
  <2>2. \A i \in On(d) : i = Of(one) \/ i = Of(other)
    <3> SUFFICES ASSUME NEW i \in On(d) PROVE i = Of(one) \/ i = Of(other)
      OBVIOUS
    <3>1. Kind(from, i) = one \/ Kind(from, i) = other
      BY <1>3, <1>4, <2>1
    <3> QED BY <1>2, <3>1
  <2>3. T \in SUBSET {rounds[Of(one)], rounds[Of(other)]}
    BY <2>2 DEF TimesOn
  <2> HIDE DEF T
  <2> QED BY <2>3, TwoAtMost
<1>5. \E none \in {"across", "before", "since"} : \A i \in On(d) : Kind(from, i) # none
  BY <1>1, NotAllKinds
<1> QED BY <1>4, <1>5

Quiet(d) == ~(change.by # 0 /\ d - DayOf(change.at) \in -1..1)

(* On a quiet day there is no second one ...                                *)
LEMMA OneAtMost ==
  ASSUME TypeOK, NEW from, Chain(from), NEW d \in Int, Quiet(d), NEW i \in On(d), NEW j \in On(d)
  PROVE  rounds[i] = rounds[j] /\ Wall(rounds[i]) = Midnight(d) + SendAt
<1>1. /\ rounds[i] \in Nat /\ rounds[j] \in Nat
      /\ DayOf(rounds[i]) = d /\ DayOf(rounds[j]) = d
      /\ Wall(rounds[i]) = Midnight(d) + SendAt /\ Wall(rounds[j]) = Midnight(d) + SendAt
  BY OnDayAre, SentOnQuietDay DEF Quiet
<1>2. ASSUME NEW t \in Nat, NEW u \in Nat, t < u, Wall(t) = Midnight(d) + SendAt,
             Wall(u) = Midnight(d) + SendAt
      PROVE  FALSE
  <2> DEFINE c == change.at
             x == Midnight(d) + SendAt
             w == Wall(c)
  <2>1. /\ c \in Nat /\ Hour \in Nat \ {0} /\ Day \in Nat \ {0} /\ Hour < Day
        /\ SendAt \in 0..(Day - 1) /\ Midnight(d) \in Int
    <3>1. Midnight(d) \in Int
      BY Midnights
    <3>2. Hour + MaxSend < Day /\ MaxSend \in Nat /\ Hour \in Nat \ {0} /\ Day \in Nat \ {0}
      BY ChangeType
    <3>3. Hour < Day
      BY <3>2
    <3> QED BY <3>1, <3>2, <3>3, ChangeType
  <2>2. t < c /\ c <= u /\ u = t + Hour /\ change.by = -Hour
    <3>1. Wall(t) = Wall(u)
      BY <1>2
    <3> QED BY <1>2, <3>1, ShownTwice DEF Crossed
  <2>3. Wall(c) = x + (c - t) - Hour
    <3>1. Jump(t, c) = -Hour
      <4>1. c <= c
        BY <2>1
      <4> QED BY <2>2, <4>1 DEF Jump, Crossed
    <3>2. t <= c
      BY <1>2, <2>1, <2>2
    <3>3. Wall(c) = Wall(t) + (c - t) + Jump(t, c)
      BY <2>1, <3>2, WallMoves
    <3>4. x \in Int /\ Wall(t) = x
      BY <1>2, <2>1
    <3> HIDE DEF c, x
    <3> QED BY <1>2, <2>1, <3>1, <3>3, <3>4
  <2>4. w \in Int /\ DayOf(c) \in Int
    BY <2>1, WallType
  <2>5. x \in Int /\ Midnight(d) <= x /\ x < Midnight(d) + Day
    BY <2>1
  <2> HIDE DEF c, x
  <2>6. w = x + (c - t) - Hour
    BY <2>3
  <2> HIDE DEF w
  <2>7. w <= x /\ x - Hour < w
    BY <1>2, <2>1, <2>2, <2>4, <2>5, <2>6
  <2>8. Midnight(d - 1) = Midnight(d) - Day /\ Midnight(d + 1) = Midnight(d) + Day
    BY <2>1 DEF Midnight
  <2>9. Midnight(d - 1) <= w /\ ~(Midnight(d + 1) <= w)
    BY <2>1, <2>4, <2>5, <2>7, <2>8
  <2>10. d - 1 <= DayOf(c) /\ ~(d + 1 <= DayOf(c))
    <3>1. d - 1 \in Int /\ d + 1 \in Int
      OBVIOUS
    <3> QED BY <2>1, <2>9, <3>1, DayFrom DEF w
  <2>11. d - DayOf(c) \in -1..1
    <3> HIDE DEF DayOf
    <3> QED BY <2>4, <2>10
  <2>12. change.by # 0
    BY <2>1, <2>2
  <2> QED BY <2>11, <2>12 DEF Quiet, c
<1> QED BY <1>1, <1>2

(* ... and not none, once it is over.                                       *)
LEMMA TargetOr ==
  ASSUME TypeOK, NEW t \in Nat, NEW d \in Int, Target(t) <= Midnight(d) + SendAt
  PROVE  Target(t) = Midnight(d) + SendAt \/ Target(t) <= Midnight(d) + SendAt - Day
<1>1. PICK q \in Int : Target(t) = Midnight(q) + SendAt
  BY TargetIs
<1>2. Midnight(q) \in Int /\ Midnight(d) \in Int /\ Day \in Nat \ {0} /\ SendAt \in Nat
  <2>1. SendAt \in 0..(Day - 1) /\ Day \in Nat \ {0}
    BY ChangeType
  <2> QED BY <2>1, Midnights
<1>3. CASE q < d
  <2>1. Midnight(q) + Day <= Midnight(d)
    BY <1>3, Midnights
  <2> QED BY <1>1, <1>2, <2>1
<1>4. CASE q > d
  <2>1. Midnight(d) + Day <= Midnight(q)
    BY <1>4, Midnights
  <2> QED BY <1>1, <1>2, <2>1
<1>5. CASE q = d
  BY <1>1, <1>5
<1> QED BY <1>3, <1>4, <1>5

(* If the clock is past the hour of d when a round ends, and was not when   *)
(* the wait for it began, then it was past it already when it was due.      *)
LEMMA DueByTheEnd ==
  ASSUME TypeOK, NEW d \in Int, NEW t \in Nat, NEW f \in Nat, Wall(t) < Midnight(d) + SendAt,
         After[t] <= f, f <= After[t] + MaxSend, Midnight(d) + SendAt <= Wall(f)
  PROVE  Midnight(d) + SendAt <= Wall(After[t])
<1> DEFINE x == Midnight(d) + SendAt
           u == After[t]
           z == Target(t)
           j == Jump(t, u)
           k == Jump(t, f)
<1>1. /\ Day \in Nat \ {0} /\ Hour \in Nat \ {0} /\ MaxSend \in Nat /\ MaxSend < Hour
      /\ Hour + MaxSend < Day /\ x \in Int
  <2>1. Midnight(d) \in Int /\ SendAt \in 0..(Day - 1)
    BY Midnights, ChangeType
  <2> QED BY <2>1, ChangeType
<1>2. u \in Nat /\ t < u /\ Wall(u) = z + j /\ z \in Int /\ z <= x
  BY AfterIs, TargetIs, TargetIsFirst
<1>3. z = x \/ z <= x - Day
  <2>1. Target(t) <= Midnight(d) + SendAt
    BY <1>2
  <2> HIDE DEF x, z
  <2>2. Target(t) = Midnight(d) + SendAt \/ Target(t) <= Midnight(d) + SendAt - Day
    BY <2>1, TargetOr
  <2>3. Midnight(d) \in Int /\ SendAt \in Int /\ Day \in Int
    BY ChangeType, Midnights
  <2>4. Midnight(d) + SendAt - Day = x - Day
    BY <2>3 DEF x
  <2> QED BY <2>2, <2>4 DEF x, z
<1>4. j \in {-Hour, 0, Hour} /\ k \in {-Hour, 0, Hour} /\ Wall(f) = Wall(t) + (f - t) + k
      /\ Wall(t) \in Int /\ Wall(f) \in Int
  <2>1. t <= u /\ t <= f
    BY <1>2
  <2> QED BY <1>2, <2>1, WallMoves, WallType
<1>5. u = t + (z - Wall(t))
  BY TargetIs DEF After
<1>6. j # 0 => k = j
  BY <1>2, ChangeType DEF Jump, Crossed
<1>7. x <= Wall(f) /\ u <= f /\ f <= u + MaxSend
  OBVIOUS
<1> HIDE DEF x, u, z, j, k
<1>8. Wall(f) = z + (f - u) + k
  <2> DEFINE w == Wall(t)
             v == Wall(f)
  <2>1. w \in Int /\ v = w + (f - t) + k /\ u = t + (z - w) /\ k \in Int
    BY <1>1, <1>4, <1>5
  <2> HIDE DEF w, v
  <2>2. v = z + (f - u) + k
    BY <1>2, <2>1
  <2> QED BY <2>2 DEF v
<1>9. z = x
  BY <1>1, <1>2, <1>3, <1>4, <1>7, <1>8
<1>10. k # -Hour
  BY <1>1, <1>2, <1>4, <1>7, <1>8, <1>9
<1>11. j \in {0, Hour}
  BY <1>1, <1>4, <1>6, <1>10
<1> QED BY <1>1, <1>2, <1>9, <1>11 DEF x, u

LEMMA OneAtLeast ==
  ASSUME TypeOK, ChainInv, running, NEW d \in Nat, d < DayOf(now), Quiet(d),
         d > 0 \/ wallAtStart < SendAt
  PROVE  On(d) # {}
<1>0. PICK from : Chain(from)
  BY DEF ChainInv
<1> DEFINE n == Len(rounds)
           x == Midnight(d) + SendAt
           W == {i \in 0..n : Wall(from[i]) < x}
           m == Max(W)
<1>1. /\ n \in Nat /\ from \in [0..n -> Nat] /\ from[0] = 0 /\ now \in Nat
      /\ Day \in Nat \ {0} /\ SendAt \in 0..(Day - 1) /\ wallAtStart \in 0..(Day - 1)
      /\ change.at \in Nat \ {0} /\ Hour \in Nat \ {0} /\ Hour < Day
  <2>1. n \in Nat /\ from \in [0..n -> Nat] /\ from[0] = 0
    BY <1>0, ChainOrder
  <2>2. Hour + MaxSend < Day /\ MaxSend \in Nat /\ Hour \in Nat \ {0} /\ Day \in Nat \ {0}
    BY ChangeType
  <2>3. Hour < Day
    BY <2>2
  <2> QED BY <2>1, <2>2, <2>3, ChangeType DEF TypeOK
<1>2. /\ Midnight(d) \in Int /\ x \in Int /\ Midnight(d) <= x /\ x < Midnight(d) + Day
  <2>1. Midnight(d) \in Int
    BY Midnights
  <2> QED BY <1>1, <2>1
<1>3. \A i \in 1..n : /\ rounds[i] = After[from[i - 1]] /\ rounds[i] \in Nat
                      /\ rounds[i] <= from[i] /\ from[i] <= rounds[i] + MaxSend
  BY <1>0, ChainOrder
<1>4. /\ summaryAt \in Nat /\ from[n] <= now /\ now <= summaryAt
      /\ doing = "sleep" => summaryAt = After[from[n]]
      /\ doing # "sleep" => from[n] = now
  BY <1>0 DEF Chain
<1>5. On(d) = {i \in 1..n : DayOf(rounds[i]) = d}
  BY DEF On
<1> HIDE DEF n, x
<1>6. m \in W /\ \A i \in W : i <= m
  <2>1. 0 \in W
    <3>1. Wall(0) = wallAtStart
      BY <1>1 DEF Wall
    <3>2. wallAtStart < x
      <4>1. CASE d = 0
        BY <1>1, <1>2, <4>1 DEF x, Midnight
      <4>2. CASE d > 0
        <5>1. Midnight(0) + Day <= Midnight(d) /\ Midnight(0) = 0
          <6>1. Midnight(0) = 0
            BY <1>1 DEF Midnight
          <6> QED BY <4>2, <6>1, Midnights
        <5> QED BY <1>1, <1>2, <5>1
      <4> QED BY <4>1, <4>2
    <3> QED BY <1>1, <3>1, <3>2
  <2>2. W \in SUBSET Nat /\ \A i \in W : i <= n
    BY <1>1
  <2> HIDE DEF W
  <2> QED BY <1>1, <2>1, <2>2, LargestOf
<1> HIDE DEF m
<1> DEFINE t == from[m]
           u == After[t]
<1>7. m \in 0..n /\ t \in Nat /\ Wall(t) < x
  BY <1>1, <1>6
<1> HIDE DEF t
<1>8. /\ u \in Nat /\ t < u /\ Wall(u) = Target(t) + Jump(t, u) /\ Target(t) \in Int
      /\ Target(t) <= x /\ Wall(u) \in Int /\ Jump(t, u) \in {-Hour, 0, Hour}
  <2>1. u \in Nat /\ t < u /\ Wall(u) = Target(t) + Jump(t, u)
    BY <1>7, AfterIs
  <2>2. Target(t) \in Int /\ Target(t) <= x
    BY <1>7, TargetIs, TargetIsFirst DEF x
  <2>3. Jump(t, u) \in {-Hour, 0, Hour}
    BY ChangeType DEF Jump
  <2> QED BY <2>1, <2>2, <2>3, WallType
<1> HIDE DEF u
<1>9. ASSUME x <= Wall(u) PROVE Wall(u) = x
  <2>1. CASE Jump(t, u) = 0
    BY <1>2, <1>8, <1>9, <2>1
  <2>2. CASE Jump(t, u) # 0
    <3>1. Crossed(t, u) /\ change.by # 0
      BY <2>2 DEF Jump
    <3>2. Midnight(d) <= Wall(u) /\ Wall(u) < Midnight(d) + 2 * Day
      BY <1>1, <1>2, <1>8, <1>9
    <3>3. d - DayOf(change.at) \in -1..1
      BY <1>7, <1>8, <3>1, <3>2, CrossedNear
    <3> QED BY <3>1, <3>3 DEF Quiet
  <2> QED BY <2>1, <2>2
<1>10. CASE m = n
  <2>1. Midnight(d) + Day <= Wall(now) /\ Wall(now) \in Int
    <3>1. DayOf(now) \in Int /\ d + 1 \in Int /\ Wall(now) \in Int
      BY <1>1, WallType
    <3>2. d + 1 <= DayOf(now)
      <4> HIDE DEF DayOf
      <4> QED BY <3>1
    <3>3. Midnight(d + 1) = Midnight(d) + Day
      BY Midnights
    <3>4. Midnight(d + 1) <= Wall(now)
      BY <1>1, <3>1, <3>2, DayFrom
    <3> QED BY <3>1, <3>3, <3>4
  <2>2. x < Wall(now)
    BY <1>1, <1>2, <2>1
  <2>3. CASE doing # "sleep"
    <3>1. t = now
      BY <1>4, <1>10, <2>3 DEF t
    <3> QED BY <1>2, <1>7, <2>1, <2>2, <3>1
  <2>4. CASE doing = "sleep"
    <3>1. u = summaryAt /\ now <= u /\ t <= now
      BY <1>4, <1>10, <2>4 DEF u, t
    <3>2. Wall(now) = Wall(t) + (now - t) + Jump(t, now) /\ Jump(t, now) \in {-Hour, 0, Hour}
      BY <1>1, <1>7, <3>1, WallMoves
    <3>3. Wall(t) \in Int /\ u = t + (Target(t) - Wall(t))
      BY <1>7, WallType, TargetIs DEF After, u
    <3> DEFINE w == Wall(t)
               v == Wall(now)
               y == Wall(u)
               z == Target(t)
               j == Jump(t, now)
               k == Jump(t, u)
    <3>4. /\ v = w + (now - t) + j /\ j \in {-Hour, 0, Hour} /\ w \in Int /\ u = t + (z - w)
          /\ y = z + k /\ k \in {-Hour, 0, Hour} /\ v \in Int /\ z \in Int /\ z <= x /\ y \in Int
          /\ x < v
      BY <1>8, <2>1, <2>2, <3>2, <3>3
    <3>5. j # 0 => k = j
      BY <1>1, <1>7, <1>8, <3>1, ChangeType DEF Jump, Crossed
    <3>6. x <= y => y = x
      BY <1>9
    <3> HIDE DEF w, v, y, z, j, k
    <3>7. v <= z + j
      BY <1>1, <1>7, <1>8, <3>1, <3>4
    <3>8. j = Hour
      BY <1>1, <1>2, <3>4, <3>7
    <3>9. k = Hour
      BY <1>1, <3>5, <3>8
    <3> QED BY <1>1, <1>2, <3>4, <3>6, <3>7, <3>8, <3>9
  <2> QED BY <2>3, <2>4
<1>11. CASE m # n
  <2> DEFINE l == m + 1
             f == from[l]
  <2>1. l \in 1..n /\ l \in 0..n /\ l - 1 = m /\ m \in Nat /\ ~(l <= m)
    BY <1>1, <1>7, <1>11
  <2> HIDE DEF l
  <2>2. rounds[l] = u /\ f \in Nat /\ u <= f /\ f <= u + MaxSend
    BY <1>1, <1>3, <2>1 DEF u, t
  <2>3. x <= Wall(f)
    <3>1. l \notin W
      BY <1>6, <2>1
    <3>2. Wall(f) \in Int
      BY <2>2, WallType
    <3> QED BY <1>2, <2>1, <3>1, <3>2
  <2> HIDE DEF f
  <2>4. x <= Wall(u)
    BY <1>7, <2>2, <2>3, DueByTheEnd DEF x, u
  <2>5. Wall(u) = x
    BY <1>9, <2>4
  <2>6. DayOf(u) = d
    BY <1>2, <1>8, <2>5, OnDay
  <2> QED BY <1>5, <2>1, <2>2, <2>6
<1> QED BY <1>10, <1>11

LEMMA RoundsOncePerDay ==
  ASSUME TypeOK, ChainInv PROVE OncePerDay
<1> SUFFICES ASSUME running, NEW d \in 0..(DayOf(now) - 1)
             PROVE  LET times == {rounds[i] : i \in {j \in DOMAIN rounds : DayOf(rounds[j]) = d}}
                        started == d > 0 \/ wallAtStart < SendAt
                        changed == change.by # 0 /\ d - DayOf(change.at) \in -1..1
                    IN  /\ Cardinality(times) <= 2
                        /\ started /\ ~changed =>
                              /\ Cardinality(times) = 1
                              /\ \A t \in times : Wall(t) % Day = SendAt
  BY DEF OncePerDay
<1> DEFINE times == {rounds[i] : i \in {j \in DOMAIN rounds : DayOf(rounds[j]) = d}}
<1>0. PICK from : Chain(from)
  BY DEF ChainInv
<1>1. d \in Nat /\ d < DayOf(now)
  <2>1. DayOf(now) \in Int
    BY WallType DEF TypeOK
  <2> HIDE DEF DayOf
  <2> QED BY <2>1
<1>2. times = TimesOn(d)
  <2>1. DOMAIN rounds = 1..Len(rounds)
    BY <1>0, ChainOrder
  <2> QED BY <2>1 DEF On, TimesOn
<1> HIDE DEF times
<1>3. Cardinality(times) <= 2
  <2>1. d \in Int
    BY <1>1
  <2> QED BY <1>2, <2>1, TwoADay
<1>4. ASSUME d > 0 \/ wallAtStart < SendAt, Quiet(d)
      PROVE  Cardinality(times) = 1 /\ \A t \in times : Wall(t) % Day = SendAt
  <2>1. PICK i \in On(d) : TRUE
    BY <1>1, <1>4, OneAtLeast
  <2>2. \A j \in On(d) : rounds[i] = rounds[j] /\ Wall(rounds[i]) = Midnight(d) + SendAt
    BY <1>0, <1>1, <1>4, OneAtMost
  <2>3. times = {rounds[i]} /\ Wall(rounds[i]) = Midnight(d) + SendAt
    BY <1>2, <2>2 DEF TimesOn
  <2>4. (Midnight(d) + SendAt) % Day = SendAt
    BY <1>1, ScheduleAssumption DEF Midnight
  <2> QED BY <2>3, <2>4, FS_Singleton
<1> QED BY <1>3, <1>4 DEF Quiet, times

(* OncePerDay: on every local day one round of messages is due, at the      *)
(* fixed hour; a change of the clock leaves none or two of them on the days *)
(* around it, never three (TelegramSummaryService.start,                    *)
(* _seconds_until_next_run).                                                *)
THEOREM SummariesAreDaily == Spec => []OncePerDay
<1>1. TypeOK /\ ChainInv => OncePerDay
  BY RoundsOncePerDay
<1> QED BY <1>1, ChainAlways, PTL

=============================================================================
