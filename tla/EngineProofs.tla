----------------------------- MODULE EngineProofs -----------------------------
(***************************************************************************)
(* Proofs about the engine: FullReplay, for any coins, any feed of events, *)
(* any limits and any course of the wall clock, and, at the end, the       *)
(* regime detector of RegimePersistence, for any length of the history,    *)
(* any market and any use of the cache.                                    *)
(*                                                                         *)
(* The invariants of the replay build on each other: the types; the two    *)
(* books (BookInv); the recorded times (CooldownInv, GuardInv); the money  *)
(* (MoneyInv); the statistics (StatsInv, EnteredInv).                      *)
(***************************************************************************)
EXTENDS FullReplay, RegimePersistence, FoldLemmas, SequenceTheorems, TLAPS

Sides == {"LONG", "SHORT"}

(* What a detector can work with: a number for each feature, and a momentum *)
(* for each side.                                                           *)
Typed(f) ==
    /\ \A k \in DOMAIN Cold \ {"momentum"} : f[k] \in Int
    /\ \A side \in Sides : f.momentum[side] \in Int

Signals ==
    [coin : Coins, side : Sides, regime : Regimes, weekend : BOOLEAN,
     trend : Int, micro : Int, score : Int]

Positions ==
    [coin : Coins, side : Sides, entry : Nat \ {0}, usd : Nat, sl : Int, tp : Int,
     trail : Nat, regime : Regimes, current : Nat \ {0}, high : Nat \ {0},
     low : Nat \ {0}, at : Nat]

Exits ==
    [coin : Coins, at : Nat, exit : Nat, usd : Nat,
     reason : {"SL", "TP", "END_OF_DATA"}, net : Int]

TypeOK ==
    /\ now \in Nat
    /\ DOMAIN market = Coins /\ DOMAIN cache = Coins
    /\ \A c \in Coins :
          /\ Typed(market[c])
          /\ cache[c] # None => Typed(cache[c].features) /\ cache[c].weekend \in BOOLEAN
    /\ history \in [Coins -> Seq(Regimes)]
    /\ stage \in {"event", "close", "scan", "over"}
    /\ count \in Nat
    /\ price \in [Coins -> Nat]
    /\ positions \in Seq(Positions)
    /\ closing \in Seq(Positions)
    /\ closed \in Seq(Exits)
    /\ open \in SUBSET Coins
    /\ exposure \in Nat
    /\ cooldown \in [Coins -> Nat]
    /\ slTimes \in Seq(Nat)
    /\ stats \in [Regimes -> [trades : Nat, pnl : Int]]
    /\ toScan \in SUBSET Coins
    /\ signals \in SUBSET Signals
    /\ taken \in Nat
    /\ entered \in Nat

-----------------------------------------------------------------------------
(* The operators of the model.                                              *)

LEMMA ClampBounds ==
  ASSUME NEW x \in Int, NEW low \in Int, NEW high \in Int, low <= high
  PROVE  Clamp(x, low, high) \in Int /\ low <= Clamp(x, low, high) /\ Clamp(x, low, high) <= high
<1> DEFINE y == Min({x, high})
<1>1. y \in Int /\ y <= high
  BY MinOf
<1> HIDE DEF y
<1>2. Max({low, y}) = IF low >= y THEN low ELSE y
  BY <1>1, MaxOf
<1> QED BY <1>1, <1>2 DEF Clamp, y

(* Only keeps what is in S: the same elements, each as often.               *)
LEMMA OnlyKeeps ==
  ASSUME NEW V, NEW list \in Seq(V), NEW S
  PROVE  /\ Only(list, S) \in Seq(V)
         /\ \A i \in DOMAIN Only(list, S) :
               Only(list, S)[i] \in S /\ \E j \in DOMAIN list : Only(list, S)[i] = list[j]
         /\ \A U : Cardinality(PlacesOf(Only(list, S), U)) = Cardinality(PlacesOf(list, S \cap U))
<1>1. Only(list, S) = Filter(list, S)
  BY DEF Only, Filter
<1> QED BY <1>1, FilterKeeps

-----------------------------------------------------------------------------
(* The inductive invariant, in parts that rest on the earlier ones.         *)

Held(p) ==
    IF p.side = "LONG" THEN p.sl < p.current * Unit /\ p.current * Unit < p.tp
                       ELSE p.tp < p.current * Unit /\ p.current * Unit < p.sl

OnePerCoin ==
    \A i, j \in DOMAIN positions : positions[i].coin = positions[j].coin => i = j

PolicyKnows ==
    /\ stage # "over" => open = {positions[i].coin : i \in DOMAIN positions}
    /\ stage = "over" => positions = << >>

(* to_close holds what hit a level, and only while an event is handled.     *)
ToClose ==
    /\ Len(closing) <= 1
    /\ stage # "close" => closing = << >>
    /\ \A k \in DOMAIN closing : \E i \in DOMAIN positions : closing[k] = positions[i]

Marked ==
    \A i \in DOMAIN positions :
        /\ positions[i].current = price[positions[i].coin]
        /\ positions[i].at <= now
        /\ Held(positions[i]) \/ \E k \in DOMAIN closing : closing[k] = positions[i]

BookInv == OnePerCoin /\ PolicyKnows /\ ToClose /\ Marked

(* What an exit leaves to keep the coin out: the policy's cooldown, until   *)
(* the time itself has passed.                                              *)
CooldownNoted ==
    \A i \in DOMAIN closed :
        /\ closed[i].exit <= now
        /\ AtLevel(closed[i]) => \/ cooldown[closed[i].coin] >= closed[i].exit + Cooldown
                                 \/ now >= closed[i].exit + Cooldown

(* A trend is computed from trades, so a coin without a price has none.     *)
TrendHasPrice ==
    /\ \A c \in Coins : price[c] = 0 =>
          /\ market[c].strength = 0
          /\ cache[c] # None => cache[c].features.strength = 0
    /\ \A s \in signals : price[s.coin] = 0 => s.trend = 0

(* The exits by a stop-loss that will be in the window at t, by the closed  *)
(* positions and by the RiskManager's list.                                 *)
StopsAt(t) == {i \in DOMAIN closed : closed[i].reason = "SL" /\ closed[i].exit > t - SlWindow}
NotedAt(t) == {i \in DOMAIN slTimes : slTimes[i] > t - SlWindow}

StopsNoted ==
    \A t \in Nat : t >= now => Cardinality(StopsAt(t)) = Cardinality(NotedAt(t))

GuardOpen == stage = "scan" => Cardinality(InWindow) < MaxSlPerWindow

-----------------------------------------------------------------------------
(* What the operators of the engine return.                                 *)

LEMMA ReadingType == ASSUME NEW f PROVE Reading(f) \in Regimes
BY DEF Reading, Regimes, Direction

LEMMA PushType ==
  ASSUME NEW h \in Seq(Regimes), NEW r \in Regimes
  PROVE  Push(h, r) \in Seq(Regimes) /\ Len(Push(h, r)) >= 1
<1>1. CASE Len(h) < MaxHistory
  BY <1>1 DEF Push
<1>2. CASE ~(Len(h) < MaxHistory)
  <2>1. h # << >> /\ Len(h) >= 1
    BY <1>2, DetectorAssumption
  <2>2. Tail(h) \in Seq(Regimes)
    BY <2>1
  <2>3. Append(Tail(h), r) \in Seq(Regimes) /\ Len(Append(Tail(h), r)) >= 1
    BY <2>2
  <2> QED BY <1>2, <2>3 DEF Push
<1> QED BY <1>1, <1>2

LEMMA ConfirmedType ==
  ASSUME NEW h \in Seq(Regimes), Len(h) >= 1
  PROVE  Confirmed(h) \in Regimes
<1> DEFINE n == Len(h)
           runs == {i \in 1..n - 2 : h[i] = h[i + 1] /\ h[i + 1] = h[i + 2]}
<1>1. n \in Nat /\ n >= 1 /\ \A i \in 1..n : h[i] \in Regimes
  OBVIOUS
<1>2. Confirmed(h) = IF runs = {} THEN h[n] ELSE h[Max(runs)]
  BY DEF Confirmed
<1>3. ASSUME runs # {} PROVE Max(runs) \in 1..n
  <2>1. runs \in SUBSET Nat /\ \A i \in runs : i <= n /\ i \in 1..n
    <3> HIDE DEF n
    <3> QED BY <1>1
  <2> HIDE DEF runs, n
  <2> QED BY <1>1, <1>3, <2>1, LargestOf
<1> HIDE DEF runs, n
<1>4. n \in 1..n
  BY <1>1
<1> QED BY <1>1, <1>2, <1>3, <1>4

LEMMA SnapshotType ==
  ASSUME TypeOK, NEW c \in Coins
  PROVE  Typed(Snapshot(c).features) /\ Snapshot(c).weekend \in BOOLEAN
<1>1. CASE Fresh(c)
  BY <1>1 DEF TypeOK, Snapshot, Fresh
<1>2. CASE ~Fresh(c)
  <2>1. /\ Snapshot(c).features = market[c]
        /\ Snapshot(c).weekend = (now \in Weekend)
    BY <1>2 DEF Snapshot
  <2>2. Typed(market[c])
    BY DEF TypeOK
  <2> QED BY <2>1, <2>2
<1> QED BY <1>1, <1>2

LEMMA ReadingsType ==
  ASSUME TypeOK, NEW c \in Coins
  PROVE  /\ OneReading(c) \in Seq(Regimes) /\ Confirmed(OneReading(c)) \in Regimes
         /\ TwoReadings(c) \in Seq(Regimes) /\ Confirmed(TwoReadings(c)) \in Regimes
<1>1. history[c] \in Seq(Regimes)
  BY DEF TypeOK
<1>2. OneReading(c) \in Seq(Regimes) /\ Len(OneReading(c)) >= 1
  BY <1>1, PushType, ReadingType DEF OneReading
<1>3. TwoReadings(c) \in Seq(Regimes) /\ Len(TwoReadings(c)) >= 1
  BY <1>2, PushType, ReadingType DEF TwoReadings
<1> QED BY <1>2, <1>3, ConfirmedType

LEMMA AlongType ==
  ASSUME NEW x \in Int, NEW side PROVE Along(x, side) \in Int /\ (x = 0 => Along(x, side) = 0)
<1>1. Along(x, side) = IF side = "LONG" THEN IF 0 >= x THEN 0 ELSE x
                                        ELSE IF 0 >= -x THEN 0 ELSE -x
  BY MaxOf DEF Along
<1> QED BY <1>1

LEMMA SignalType ==
  ASSUME NEW f, Typed(f), NEW side \in Sides
  PROVE  /\ TrendScore(f, side) \in Int /\ MicroScore(f, side) \in Int
         /\ f.strength = 0 => TrendScore(f, side) = 0
<1>1. /\ f.strength \in Int /\ f.r2 \in Int /\ f.consistency \in Int
      /\ f.imbalance \in Int /\ f.tradeImbalance \in Int /\ f.spread \in Int
  BY DEF Typed, Cold
<1>2. /\ Along(f.strength, side) \in Int /\ Along(f.imbalance, side) \in Int
      /\ Along(f.tradeImbalance, side) \in Int
      /\ f.strength = 0 => Along(f.strength, side) = 0
  BY <1>1, AlongType
<1> DEFINE a == Along(f.strength, side)
           b == 5000 + f.r2 * 30 + (f.consistency - 50) * 40
           t == (a * b) \div Unit
           u == (Along(f.imbalance, side) + Along(f.tradeImbalance, side)) \div 2
           v == Max({0, 10 - f.spread})
<1>3. b \in Int
  BY <1>1
<1>4. t \in Int /\ (a = 0 => t = 0)
  <2> HIDE DEF a, b
  <2>1. a \in Int
    BY <1>2 DEF a
  <2>2. a * b \in Int /\ (a = 0 => a * b = 0)
    BY <1>3, <2>1
  <2> DEFINE w == a * b
  <2> HIDE DEF w
  <2>3. w \in Int /\ (a = 0 => w = 0)
    BY <2>2 DEF w
  <2>4. w \div 10000 \in Int /\ (w = 0 => w \div 10000 = 0)
    BY <2>3
  <2> QED BY <2>3, <2>4 DEF w, Unit
<1>5. u \in Int /\ v \in Int
  <2>1. v = IF 0 >= 10 - f.spread THEN 0 ELSE 10 - f.spread
    BY <1>1, MaxOf
  <2> QED BY <1>1, <1>2, <2>1
<1>6. TrendScore(f, side) = Clamp(t, 0, 100) /\ MicroScore(f, side) = Clamp(u + v * 2, 0, 100)
  BY DEF TrendScore, MicroScore
<1>7. Clamp(0, 0, 100) = 0
  <2>1. Min({0, 100}) = 0
    BY MinOf
  <2>2. Max({0, 0}) = 0
    BY MaxOf
  <2> QED BY <2>1, <2>2 DEF Clamp
<1> HIDE DEF t, u, v
<1>8. u + v * 2 \in Int
  BY <1>5
<1>9. \A x \in Int : Clamp(x, 0, 100) \in Int
  BY ClampBounds
<1> QED BY <1>2, <1>4, <1>6, <1>7, <1>8, <1>9

LEMMA SignalOfType ==
  ASSUME NEW c \in Coins, NEW side \in Sides, NEW s, Typed(s.features), s.weekend \in BOOLEAN,
         NEW regime \in Regimes
  PROVE  /\ SignalOf(c, side, s, regime) \in Signals
         /\ SignalOf(c, side, s, regime).coin = c
         /\ s.features.strength = 0 => SignalOf(c, side, s, regime).trend = 0
<1> DEFINE f == s.features
           t == TrendScore(f, side)
           m == MicroScore(f, side)
           raw == t * 45 + m * 30 + f.momentum[side] * 25
           p == Penalty(regime, side)
           score == (raw * p) \div 100
<1>1. t \in Int /\ m \in Int /\ f.momentum[side] \in Int /\ (f.strength = 0 => t = 0)
  BY SignalType DEF Typed
<1>2. p \in {30, 50, 70, 100}
  BY DEF Penalty
<1>3. score \in Int
  <2>1. raw \in Int
    <3> HIDE DEF t, m, f
    <3> QED BY <1>1
  <2> HIDE DEF raw, p
  <2>2. raw * p \in Int
    BY <1>2, <2>1
  <2> QED BY <2>2
<1>4. SignalOf(c, side, s, regime)
        = [coin |-> c, side |-> side, regime |-> regime, weekend |-> s.weekend,
           trend |-> t, micro |-> m, score |-> score]
  BY DEF SignalOf
<1> HIDE DEF f, t, m, score
<1> QED BY <1>1, <1>3, <1>4 DEF Signals, f

LEMMA FactorType ==
  ASSUME NEW x \in Int, NEW percent \in Int PROVE Factor(x, percent) \in Int
<1> DEFINE w == x * percent
<1>1. w \in Int
  OBVIOUS
<1> HIDE DEF w
<1>2. w \div 100 \in Int
  BY <1>1
<1> QED BY <1>2 DEF Factor, w

LEMMA SizeType == ASSUME NEW s \in Signals PROVE SizeUsd(s) \in Nat
<1>1. \A r : Boost(r) \in Int
  BY DEF Boost
<1>2. Adjusted(s) \in Int
  BY <1>1, FactorType DEF Adjusted, Signals
<1> DEFINE w == 2500 * (5000 + Adjusted(s))
<1>3. w \in Int
  BY <1>2
<1> HIDE DEF w
<1>4. w \div Unit \in Int
  BY <1>3 DEF Unit
<1> DEFINE x == Factor(w \div Unit, Boost(s.regime))
<1>5. x \in Int
  BY <1>1, <1>4, FactorType
<1>6. SizeUsd(s) = Clamp(x, MinUsd, MaxUsd)
  BY DEF SizeUsd, w
<1> HIDE DEF x
<1>7. Clamp(x, MinUsd, MaxUsd) \in Int /\ MinUsd <= Clamp(x, MinUsd, MaxUsd)
  BY <1>5, ClampBounds DEF MinUsd, MaxUsd
<1> QED BY <1>6, <1>7 DEF MinUsd

(* A level lies at some distance from the entry, however small the volatility. *)
LEMMA DistanceType ==
  ASSUME NEW f, Typed(f), NEW regime
  PROVE  SlPct(f, regime) \in Nat \ {0} /\ TpPct(f, regime) \in Nat \ {0}
<1>1. f.atr \in Int
  BY DEF Typed, Cold
<1> DEFINE a == IF f.atr > 0 THEN Clamp((f.atr * 15) \div 10, 15, 100) ELSE 50
           b == IF f.atr > 0 THEN Clamp((f.atr * 25) \div 10, 30, 200) ELSE 120
           p == CASE regime = "high_vol" -> 130 [] regime = "quiet" -> 70 [] OTHER -> 100
           q == CASE regime = "high_vol" -> 150 [] regime = "quiet" -> 60
                  [] regime = "choppy" -> 100 [] OTHER -> 130
<1>2. a \in Int /\ a >= 15 /\ b \in Int /\ b >= 30
  <2>1. (f.atr * 15) \div 10 \in Int /\ (f.atr * 25) \div 10 \in Int
    BY <1>1
  <2>2. \A x \in Int : /\ Clamp(x, 15, 100) \in Int /\ Clamp(x, 15, 100) >= 15
                       /\ Clamp(x, 30, 200) \in Int /\ Clamp(x, 30, 200) >= 30
    BY ClampBounds
  <2> QED BY <2>1, <2>2
<1>3. p \in {130, 70, 100} /\ q \in {150, 60, 100, 130}
  OBVIOUS
<1>4. SlPct(f, regime) = (a * p) \div 100 /\ TpPct(f, regime) = (b * q) \div 100
  BY DEF SlPct, TpPct, Factor
<1> HIDE DEF a, b, p, q
<1>5. (a * p) \div 100 \in Nat \ {0}
  BY <1>2, <1>3
<1>6. (b * q) \div 100 \in Nat \ {0}
  BY <1>2, <1>3
<1> QED BY <1>4, <1>5, <1>6

LEMMA LevelsApart ==
  ASSUME NEW entry \in Nat \ {0}, NEW pct \in Nat \ {0}, NEW side
  PROVE  /\ Level(entry, side, pct) \in Int
         /\ side = "LONG" => Level(entry, side, pct) > entry * Unit
         /\ side # "LONG" => Level(entry, side, pct) < entry * Unit
<1>1. entry * pct \in Nat \ {0}
  BY SMT
<1>2. entry * (Unit + pct) = entry * Unit + entry * pct
  BY DEF Unit
<1>3. entry * (Unit - pct) = entry * Unit - entry * pct
  BY DEF Unit
<1>4. entry * Unit \in Int
  BY DEF Unit
<1> DEFINE x == entry * pct
           y == entry * Unit
<1> HIDE DEF x, y
<1>5. x \in Nat \ {0} /\ y \in Int
  BY <1>1, <1>4 DEF x, y
<1>6. Level(entry, side, pct) = IF side = "LONG" THEN y + x ELSE y - x
  BY <1>2, <1>3 DEF Level, x, y
<1>7. Level(entry, side, pct) \in Int
  BY <1>5, <1>6
<1>8. side = "LONG" => Level(entry, side, pct) > y
  BY <1>5, <1>6
<1>9. side # "LONG" => Level(entry, side, pct) < y
  BY <1>5, <1>6
<1> QED BY <1>7, <1>8, <1>9 DEF y

(* Marking a position leaves what identifies it and never loosens its stop.  *)
LEMMA UpdatedType ==
  ASSUME NEW p \in Positions, NEW mid \in Nat \ {0}
  PROVE  LET q == Updated(p, mid) IN
         /\ q \in Positions
         /\ q.coin = p.coin /\ q.side = p.side /\ q.at = p.at /\ q.usd = p.usd
         /\ q.tp = p.tp /\ q.current = mid
         /\ IF p.side = "LONG" THEN q.sl >= p.sl ELSE q.sl <= p.sl
<1> DEFINE h == Max({p.high, mid})
           l == Min({p.low, mid})
           q == [p EXCEPT !.current = mid, !.high = h, !.low = l]
           stop == IF q.side = "LONG" THEN q.high * (Unit - q.trail)
                                      ELSE q.low * (Unit + q.trail)
           tight == Tighter(q, stop)
           r == Updated(p, mid)
<1>1. h \in Nat \ {0} /\ l \in Nat \ {0}
  <2>1. p.high \in Nat \ {0} /\ p.low \in Nat \ {0}
    BY DEF Positions
  <2>2. h = IF p.high >= mid THEN p.high ELSE mid
    BY <2>1, MaxOf
  <2>3. l = IF p.low <= mid THEN p.low ELSE mid
    BY <2>1, MinOf
  <2> HIDE DEF h, l
  <2> QED BY <2>1, <2>2, <2>3
<1> HIDE DEF h, l
<1>2. /\ q \in Positions /\ q.current = mid
      /\ q.coin = p.coin /\ q.side = p.side /\ q.at = p.at /\ q.usd = p.usd
      /\ q.tp = p.tp /\ q.sl = p.sl
  BY <1>1 DEF Positions
<1>3. r = IF Profit(q) * Unit >= TrailingActivation * q.entry THEN [q EXCEPT !.sl = tight] ELSE q
  BY DEF Updated, h, l
<1> HIDE DEF q
<1>4. stop \in Int
  <2>1. q.high \in Int /\ q.low \in Int /\ q.trail \in Int
    BY <1>2 DEF Positions
  <2>2. Unit - q.trail \in Int /\ Unit + q.trail \in Int
    BY <2>1 DEF Unit
  <2>3. q.high * (Unit - q.trail) \in Int
    BY <2>1, <2>2
  <2>4. q.low * (Unit + q.trail) \in Int
    BY <2>1, <2>2
  <2> QED BY <2>3, <2>4
<1>5. q.sl \in Int
  BY <1>2 DEF Positions
<1>6. tight \in Int /\ IF q.side = "LONG" THEN tight >= q.sl ELSE tight <= q.sl
  <2> HIDE DEF stop
  <2>1. tight = IF q.side = "LONG" THEN IF q.sl >= stop THEN q.sl ELSE stop
                                   ELSE IF q.sl <= stop THEN q.sl ELSE stop
    BY <1>4, <1>5, MaxOf, MinOf DEF Tighter
  <2> HIDE DEF tight
  <2> QED BY <1>4, <1>5, <2>1
<1> HIDE DEF tight
<1>7. CASE r = q
  BY <1>2, <1>5, <1>7
<1>8. CASE r = [q EXCEPT !.sl = tight]
  <2>1. /\ r \in Positions /\ r.coin = q.coin /\ r.side = q.side /\ r.at = q.at
        /\ r.usd = q.usd /\ r.tp = q.tp /\ r.current = q.current /\ r.sl = tight
    <3> HIDE DEF r
    <3> QED BY <1>2, <1>6, <1>8 DEF Positions
  <2> QED BY <1>2, <1>6, <2>1
<1> QED BY <1>3, <1>7, <1>8

LEMMA ClosedType ==
  ASSUME NEW p \in Positions, NEW reason \in {"SL", "TP", "END_OF_DATA"}, now \in Nat
  PROVE  LET q == Closed(p, reason) IN
         /\ q \in Exits
         /\ q.coin = p.coin /\ q.at = p.at /\ q.exit = now /\ q.usd = p.usd
         /\ q.reason = reason
<1> DEFINE gross == Profit(p) * Notional(p)
           w == (p.entry + p.current) * Notional(p) * 5
           fees == w \div Unit
           net == (gross - fees) \div p.entry
<1>1. p.entry \in Nat \ {0} /\ p.current \in Nat /\ p.usd \in Nat
  BY DEF Positions
<1>2. Profit(p) \in Int /\ Notional(p) \in Int
  BY <1>1 DEF Profit, Notional, Leverage
<1>3. gross \in Int
  BY <1>2
<1>4. w \in Int
  <2> DEFINE e == p.entry + p.current
             o == Notional(p)
  <2>1. e \in Int /\ o \in Int
    BY <1>1, <1>2
  <2> HIDE DEF e, o
  <2>2. e * o \in Int
    BY <2>1
  <2> DEFINE m == e * o
  <2> HIDE DEF m
  <2>3. m * 5 \in Int
    BY <2>2 DEF m
  <2> QED BY <2>3 DEF m, e, o
<1>5. fees \in Int
  <2> HIDE DEF w
  <2> QED BY <1>4 DEF Unit
<1>6. net \in Int
  <2> DEFINE d == gross - fees
             e == p.entry
  <2>1. d \in Int /\ e \in Nat \ {0}
    <3> HIDE DEF gross, fees
    <3> QED BY <1>1, <1>3, <1>5
  <2> HIDE DEF d, e
  <2>2. d \div e \in Int
    BY <2>1
  <2> QED BY <2>2 DEF d, e
<1>7. Closed(p, reason) = [coin |-> p.coin, at |-> p.at, exit |-> now, usd |-> p.usd,
                           reason |-> reason, net |-> net]
  BY DEF Closed
<1> HIDE DEF net
<1> QED BY <1>6, <1>7 DEF Exits, Positions

(* RemoveFirst of an element that occurs once closes the gap it leaves.     *)
Gap(d, i) == IF i < d THEN i ELSE i + 1

LEMMA RemovedOnce ==
  ASSUME NEW V, NEW list \in Seq(V), NEW d \in 1..Len(list),
         \A i \in 1..Len(list) : list[i] = list[d] => i = d
  PROVE  /\ RemoveFirst(list, list[d]) \in Seq(V)
         /\ Len(RemoveFirst(list, list[d])) = Len(list) - 1
         /\ \A i \in 1..Len(list) - 1 : RemoveFirst(list, list[d])[i] = list[Gap(d, i)]
<1> DEFINE n == Len(list)
           I == {i \in 1..n : list[i] = list[d]}
           before == SubSeq(list, 1, d - 1)
           after == SubSeq(list, d + 1, n)
<1>1. n \in Nat /\ d \in Nat /\ 1 <= d /\ d <= n
  OBVIOUS
<1>2. I = {d}
  OBVIOUS
<1>3. Min({d}) = d
  <2>1. d \in {d} /\ \A y \in {d} : d <= y
    BY <1>1
  <2>2. \A x \in {d} : (\A y \in {d} : x <= y) => x = d
    OBVIOUS
  <2> QED BY <2>1, <2>2 DEF Min
<1>4. RemoveFirst(list, list[d]) = before \o after
  <2>1. SelectInSeq(list, LAMBDA v : v = list[d]) = d
    BY <1>2, <1>3 DEF SelectInSeq
  <2> QED BY <2>1 DEF RemoveFirst, RemoveAt
<1>5. /\ before \in Seq(V) /\ Len(before) = d - 1
      /\ \A i \in 1..d - 1 : before[i] = list[i]
  BY <1>1
<1>6. /\ after \in Seq(V) /\ Len(after) = n - d
      /\ \A i \in 1..n - d : after[i] = list[d + i]
  BY <1>1
<1>7. /\ before \o after \in Seq(V) /\ Len(before \o after) = n - 1
      /\ \A i \in 1..n - 1 : (before \o after)[i] = IF i <= d - 1 THEN before[i]
                                                   ELSE after[i - (d - 1)]
  <2> HIDE DEF before, after, n
  <2>1. before \o after \in Seq(V)
    BY <1>5, <1>6
  <2>2. Len(before) + Len(after) = n - 1 /\ Len(before) \in Nat /\ Len(after) \in Nat
    BY <1>1, <1>5, <1>6
  <2>3. /\ Len(before \o after) = Len(before) + Len(after)
        /\ \A i \in 1..Len(before) + Len(after) :
              (before \o after)[i] = IF i <= Len(before) THEN before[i]
                                     ELSE after[i - Len(before)]
    <3>1. ASSUME NEW a \in Seq(V), NEW b \in Seq(V)
          PROVE  /\ Len(a \o b) = Len(a) + Len(b)
                 /\ \A i \in 1..Len(a) + Len(b) :
                       (a \o b)[i] = IF i <= Len(a) THEN a[i] ELSE b[i - Len(a)]
      OBVIOUS
    <3> QED BY <1>5, <1>6, <3>1
  <2> QED BY <1>5, <2>1, <2>2, <2>3
<1>8. ASSUME NEW i \in 1..n - 1 PROVE (before \o after)[i] = list[Gap(d, i)]
  <2> HIDE DEF before, after, n
  <2>1. CASE i < d
    BY <1>1, <1>5, <1>7, <2>1 DEF Gap
  <2>2. CASE ~(i < d)
    <3>1. i - (d - 1) \in 1..n - d /\ d + (i - (d - 1)) = i + 1
      BY <1>1, <2>2
    <3> QED BY <1>1, <1>6, <1>7, <2>2, <3>1 DEF Gap
  <2> QED BY <2>1, <2>2
<1> QED BY <1>4, <1>7, <1>8

-----------------------------------------------------------------------------
(* Types.                                                                   *)

LEMMA ReceiveType ==
  ASSUME TypeOK, NEW e \in Feed, ReceiveEvent(e) PROVE TypeOK'
<1> DEFINE f == [k \in DOMAIN Cold |->
                    IF k \in DOMAIN e.shows THEN e.shows[k] ELSE market[e.coin][k]]
<1>1. e.coin \in Coins /\ e.price \in Nat \ {0}
  BY FeedAssumption
<1>2. Typed(f)
  <2>1. ASSUME NEW k \in DOMAIN Cold \ {"momentum"} PROVE f[k] \in Int
    <3>1. k \in DOMAIN e.shows => e.shows[k] \in Int
      BY FeedAssumption
    <3>2. market[e.coin][k] \in Int
      BY <1>1 DEF TypeOK, Typed
    <3> QED BY <3>1, <3>2
  <2>2. ASSUME NEW side \in Sides PROVE f.momentum[side] \in Int
    <3>1. "momentum" \in DOMAIN e.shows => e.shows["momentum"][side] \in Int
      BY FeedAssumption DEF Sides
    <3>2. market[e.coin].momentum[side] \in Int
      BY <1>1 DEF TypeOK, Typed
    <3>3. "momentum" \in DOMAIN Cold
      BY DEF Cold
    <3> QED BY <3>1, <3>2, <3>3
  <2> HIDE DEF f
  <2> QED BY <2>1, <2>2 DEF Typed
<1>3. market' = [market EXCEPT ![e.coin] = f]
  BY DEF ReceiveEvent, Observe
<1> HIDE DEF f
<1>4. DOMAIN market' = Coins /\ \A c \in Coins : Typed(market'[c])
  BY <1>1, <1>2, <1>3 DEF TypeOK
<1>5. /\ count' = count + 1 /\ stage' = "close"
      /\ UNCHANGED <<now, cache, history, closed, policy, results, scan, entered>>
  BY DEF ReceiveEvent
<1>6. price' \in [Coins -> Nat] /\ positions' \in Seq(Positions) /\ closing' \in Seq(Positions)
  <2>1. CASE e.type = "trade"
    <3> DEFINE S == {p \in Range(positions') : p.coin = e.coin /\ (StopHit(p) \/ TargetHit(p))}
    <3>1. /\ price' = [price EXCEPT ![e.coin] = e.price]
          /\ positions' = [i \in DOMAIN positions |->
                    IF positions[i].coin = e.coin THEN Updated(positions[i], e.price)
                                                  ELSE positions[i]]
          /\ closing' = Only(positions', S)
      BY <2>1 DEF ReceiveEvent
    <3>2. \A i \in DOMAIN positions : positions[i] \in Positions
      BY DEF TypeOK
    <3>3. \A i \in DOMAIN positions : Updated(positions[i], e.price) \in Positions
      BY <1>1, <3>2, UpdatedType
    <3>4. positions \in Seq(Positions)
      BY DEF TypeOK
    <3>5. positions' \in Seq(Positions)
      BY <3>1, <3>2, <3>3, <3>4
    <3>6. closing' \in Seq(Positions)
      <4> HIDE DEF S
      <4> QED BY <3>1, <3>5, OnlyKeeps
    <3> QED BY <1>1, <3>1, <3>5, <3>6 DEF TypeOK
  <2>2. CASE e.type # "trade"
    BY <2>2 DEF ReceiveEvent, TypeOK
  <2> QED BY <2>1, <2>2
<1> QED BY <1>4, <1>5, <1>6 DEF TypeOK, policy, results, scan

(* The side effects of reading a coin keep the types of the detector.       *)
DetectorOK ==
    /\ DOMAIN market = Coins /\ DOMAIN cache = Coins
    /\ \A c \in Coins :
          /\ Typed(market[c])
          /\ cache[c] # None => Typed(cache[c].features) /\ cache[c].weekend \in BOOLEAN
    /\ history \in [Coins -> Seq(Regimes)]

LEMMA RememberType ==
  ASSUME TypeOK, NEW c \in Coins, NEW readings \in Seq(Regimes), Remember(c, readings)
  PROVE  DetectorOK'
<1>1. Typed(Snapshot(c).features) /\ Snapshot(c).weekend \in BOOLEAN
  BY SnapshotType
<1>2. /\ cache' = [cache EXCEPT ![c] = Snapshot(c)]
      /\ history' = [history EXCEPT ![c] = readings]
      /\ UNCHANGED market
  BY DEF Remember
<1> QED BY <1>1, <1>2 DEF TypeOK, DetectorOK

LEMMA CloseType ==
  ASSUME TypeOK, BookInv, ClosePosition PROVE TypeOK'
<1> DEFINE p == Head(closing)
           result == Closed(p, IF StopHit(p) THEN "SL" ELSE "TP")
           regime == Confirmed(OneReading(p.coin))
<1>1. closing # << >> /\ closing \in Seq(Positions) /\ now \in Nat
  BY DEF ClosePosition, TypeOK
<1>2. p \in Positions /\ p.coin \in Coins /\ p.usd \in Nat
  <2>1. p \in Positions
    BY <1>1
  <2> HIDE DEF p
  <2> QED BY <2>1 DEF Positions
<1>3. result \in Exits
  <2> HIDE DEF p
  <2>1. (IF StopHit(p) THEN "SL" ELSE "TP") \in {"SL", "TP", "END_OF_DATA"}
    OBVIOUS
  <2> QED BY <1>1, <1>2, <2>1, ClosedType
<1>4. OneReading(p.coin) \in Seq(Regimes) /\ regime \in Regimes
  <2> HIDE DEF p
  <2> QED BY <1>2, ReadingsType
<1>5. /\ positions' = RemoveFirst(positions, p)
      /\ closed' = Append(closed, result)
      /\ RegisterExit(p)
      /\ slTimes' = IF StopHit(p) THEN Trimmed ELSE slTimes
      /\ Remember(p.coin, OneReading(p.coin))
      /\ RecordTrade(regime, result.net)
      /\ closing' = Tail(closing)
      /\ UNCHANGED <<now, stage, count, price, scan, entered>>
  BY DEF ClosePosition
<1>6. DetectorOK'
  <2> HIDE DEF p
  <2> QED BY <1>2, <1>4, <1>5, RememberType
<1>7. slTimes' \in Seq(Nat)
  <2>1. slTimes \in Seq(Nat) /\ Append(slTimes, now) \in Seq(Nat)
    BY DEF TypeOK
  <2>2. Trimmed \in Seq(Nat)
    BY <2>1, OnlyKeeps DEF Trimmed
  <2> QED BY <1>5, <2>1, <2>2
<1>8. stats' \in [Regimes -> [trades : Nat, pnl : Int]]
  <2>1. result.net \in Int /\ stats \in [Regimes -> [trades : Nat, pnl : Int]]
    <3> HIDE DEF result
    <3> QED BY <1>3 DEF Exits, TypeOK
  <2> DEFINE new == [trades |-> stats[regime].trades + 1, pnl |-> stats[regime].pnl + result.net]
  <2>2. new \in [trades : Nat, pnl : Int]
    <3> HIDE DEF result, regime
    <3> QED BY <1>4, <2>1
  <2>3. stats' = [stats EXCEPT ![regime] = new]
    <3> HIDE DEF result, regime
    <3> QED BY <1>5 DEF RecordTrade
  <2> HIDE DEF new, regime
  <2> QED BY <1>4, <2>1, <2>2, <2>3
<1>9. open' \in SUBSET Coins /\ exposure' \in Nat /\ cooldown' \in [Coins -> Nat]
  <2> HIDE DEF p
  <2>1. /\ open' = open \ {p.coin}
        /\ exposure' = Max({0, exposure - p.usd})
        /\ cooldown' = [cooldown EXCEPT ![p.coin] = now + Cooldown]
    BY <1>5 DEF RegisterExit
  <2>2. open \in SUBSET Coins /\ exposure \in Nat /\ cooldown \in [Coins -> Nat]
    BY DEF TypeOK
  <2>3. exposure' = IF 0 >= exposure - p.usd THEN 0 ELSE exposure - p.usd
    BY <1>2, <2>1, <2>2, MaxOf
  <2>4. now + Cooldown \in Nat
    BY <1>1, EngineAssumption
  <2>5. open' \in SUBSET Coins
    BY <2>1, <2>2
  <2>6. exposure' \in Nat
    BY <1>2, <2>2, <2>3
  <2>7. cooldown' \in [Coins -> Nat]
    BY <1>2, <2>1, <2>2, <2>4
  <2> QED BY <2>5, <2>6, <2>7
<1>10. positions' \in Seq(Positions)
  <2>1. PICK i \in DOMAIN positions : p = positions[i]
    BY <1>1 DEF BookInv, ToClose
  <2>3. positions \in Seq(Positions) /\ DOMAIN positions = 1..Len(positions)
    BY DEF TypeOK
  <2>2. \A j \in 1..Len(positions) : positions[j] = positions[i] => j = i
    BY <2>1, <2>3 DEF BookInv, OnePerCoin
  <2>4. RemoveFirst(positions, positions[i]) \in Seq(Positions)
    BY <2>2, <2>3, RemovedOnce
  <2> HIDE DEF p
  <2> QED BY <1>5, <2>1, <2>4
<1>11. closed' \in Seq(Exits) /\ closing' \in Seq(Positions)
  <2> HIDE DEF p, result
  <2> QED BY <1>1, <1>3, <1>5 DEF TypeOK
<1> QED BY <1>5, <1>6, <1>7, <1>8, <1>9, <1>10, <1>11 DEF TypeOK, DetectorOK, scan

LEMMA ScanType ==
  ASSUME TypeOK, NEW c \in Coins, ScanCoin(c) PROVE TypeOK'
<1> DEFINE s == Snapshot(c)
           long == SignalOf(c, "LONG", s, Confirmed(OneReading(c)))
           short == SignalOf(c, "SHORT", s, Confirmed(TwoReadings(c)))
<1>1. /\ toScan' = toScan \ {c}
      /\ signals' = signals \cup {g \in {long, short} : g.score >= 2000}
      /\ Remember(c, TwoReadings(c))
      /\ UNCHANGED <<now, stage, count, price, closing, book, policy, results,
                     taken, entered>>
  BY DEF ScanCoin
<1>2. long \in Signals /\ short \in Signals
  BY SnapshotType, ReadingsType, SignalOfType DEF Sides
<1> HIDE DEF long, short
<1>3. DetectorOK'
  BY <1>1, ReadingsType, RememberType
<1>4. toScan' \in SUBSET Coins /\ signals' \in SUBSET Signals
  BY <1>1, <1>2 DEF TypeOK
<1> QED BY <1>1, <1>3, <1>4 DEF TypeOK, DetectorOK, book, policy, results

LEMMA DecideType ==
  ASSUME TypeOK, NEW s \in signals, Decide(s)
  PROVE  /\ s \in Signals /\ s.coin \in Coins
         /\ cooldown' \in [Coins -> Nat] /\ signals' \in SUBSET Signals /\ taken' \in Nat
         /\ UNCHANGED <<now, stage, count, price, closing, closed, results, toScan>>
<1>1. s \in Signals /\ s.coin \in Coins
  BY DEF TypeOK, Signals
<1> QED BY <1>1 DEF TypeOK, Decide

LEMMA SkipType ==
  ASSUME TypeOK, NEW s \in signals, Skip(s) PROVE TypeOK'
<1>1. Decide(s) /\ UNCHANGED <<detector, positions, open, exposure, entered>>
  BY DEF Skip
<1> QED BY <1>1, DecideType DEF TypeOK, detector, results

(* What Enter opens.                                                        *)
Opened(s) ==
    LET c == s.coin
        f == Snapshot(c).features
        regime == Confirmed(OneReading(c))
        against == IF s.side = "LONG" THEN "SHORT" ELSE "LONG"
    IN [coin |-> c, side |-> s.side, entry |-> price[c], usd |-> SizeUsd(s),
        sl |-> Level(price[c], against, SlPct(f, regime)),
        tp |-> Level(price[c], s.side, TpPct(f, regime)),
        trail |-> TrailingDistance(regime), regime |-> regime,
        current |-> price[c], high |-> price[c], low |-> price[c], at |-> now]

LEMMA OpenedType ==
  ASSUME TypeOK, NEW s \in Signals, price[s.coin] > 0
  PROVE  /\ Opened(s) \in Positions /\ Held(Opened(s))
         /\ Opened(s).coin = s.coin /\ Opened(s).at = now /\ Opened(s).usd = SizeUsd(s)
         /\ Opened(s).current = price[s.coin]
<1> DEFINE c == s.coin
           f == Snapshot(c).features
           regime == Confirmed(OneReading(c))
           against == IF s.side = "LONG" THEN "SHORT" ELSE "LONG"
           a == price[c]
           sl == Level(a, against, SlPct(f, regime))
           tp == Level(a, s.side, TpPct(f, regime))
<1>1. s.coin \in Coins /\ s.side \in {"LONG", "SHORT"} /\ now \in Nat
  BY DEF Signals, Sides, TypeOK
<1>2. a \in Nat \ {0}
  BY <1>1 DEF TypeOK
<1>3. Typed(f) /\ regime \in Regimes
  BY <1>1, SnapshotType, ReadingsType
<1>4. SlPct(f, regime) \in Nat \ {0} /\ TpPct(f, regime) \in Nat \ {0}
  <2> HIDE DEF f, regime
  <2> QED BY <1>3, DistanceType
<1>5. /\ sl \in Int /\ tp \in Int
      /\ s.side = "LONG" => sl < a * Unit /\ a * Unit < tp
      /\ s.side # "LONG" => tp < a * Unit /\ a * Unit < sl
  <2> HIDE DEF f, regime, a
  <2>1. against = "LONG" <=> s.side # "LONG"
    BY <1>1
  <2> HIDE DEF against
  <2> QED BY <1>2, <1>4, <2>1, LevelsApart
<1>6. TrailingDistance(regime) \in Nat /\ SizeUsd(s) \in Nat
  BY SizeType DEF TrailingDistance
<1>7. Opened(s) = [coin |-> c, side |-> s.side, entry |-> a, usd |-> SizeUsd(s),
        sl |-> sl, tp |-> tp, trail |-> TrailingDistance(regime), regime |-> regime,
        current |-> a, high |-> a, low |-> a, at |-> now]
  BY DEF Opened
<1> HIDE DEF sl, tp, regime, against, f
<1>8. Opened(s) \in Positions
  BY <1>1, <1>2, <1>3, <1>5, <1>6, <1>7 DEF Positions, Sides
<1>9. Held(Opened(s))
  BY <1>5, <1>7 DEF Held
<1> QED BY <1>7, <1>8, <1>9

LEMMA EnterOpens ==
  ASSUME NEW s, Enter(s)
  PROVE  /\ Decide(s) /\ Accepts(s) /\ entered' = entered + 1
         /\ IF price[s.coin] > 0
            THEN /\ positions' = Append(positions, Opened(s))
                 /\ open' = open \cup {s.coin}
                 /\ exposure' = exposure + SizeUsd(s)
                 /\ Remember(s.coin, OneReading(s.coin))
            ELSE UNCHANGED <<positions, open, exposure, detector>>
BY DEF Enter, Opened

LEMMA EnterType ==
  ASSUME TypeOK, NEW s \in signals, Enter(s) PROVE TypeOK'
<1>1. /\ Decide(s) /\ entered' = entered + 1
      /\ IF price[s.coin] > 0
         THEN /\ positions' = Append(positions, Opened(s))
              /\ open' = open \cup {s.coin}
              /\ exposure' = exposure + SizeUsd(s)
              /\ Remember(s.coin, OneReading(s.coin))
         ELSE UNCHANGED <<positions, open, exposure, detector>>
  BY EnterOpens
<1>2. /\ s \in Signals /\ s.coin \in Coins
      /\ cooldown' \in [Coins -> Nat] /\ signals' \in SUBSET Signals /\ taken' \in Nat
      /\ UNCHANGED <<now, stage, count, price, closing, closed, results, toScan>>
  BY <1>1, DecideType
<1>3. CASE price[s.coin] > 0
  <2>1. Opened(s) \in Positions /\ SizeUsd(s) \in Nat
    BY <1>2, <1>3, OpenedType, SizeType
  <2>2. DetectorOK'
    BY <1>1, <1>2, <1>3, ReadingsType, RememberType
  <2>3. positions' \in Seq(Positions) /\ open' \in SUBSET Coins /\ exposure' \in Nat
    <3>1. /\ positions' = Append(positions, Opened(s))
          /\ open' = open \cup {s.coin} /\ exposure' = exposure + SizeUsd(s)
      BY <1>1, <1>3
    <3>2. positions \in Seq(Positions) /\ open \in SUBSET Coins /\ exposure \in Nat
      BY DEF TypeOK
    <3>3. positions' \in Seq(Positions)
      BY <2>1, <3>1, <3>2
    <3>4. open' \in SUBSET Coins
      BY <1>2, <3>1, <3>2
    <3>5. exposure' \in Nat
      BY <2>1, <3>1, <3>2
    <3> QED BY <3>3, <3>4, <3>5
  <2>4. /\ UNCHANGED <<now, stage, count, price, closing, closed, stats, slTimes, toScan>>
        /\ entered' = entered + 1
    BY <1>1, <1>2 DEF results
  <2>5. entered' \in Nat
    BY <2>4 DEF TypeOK
  <2> QED BY <1>2, <2>2, <2>3, <2>4, <2>5 DEF TypeOK, DetectorOK
<1>4. CASE ~(price[s.coin] > 0)
  <2>1. UNCHANGED <<positions, open, exposure, market, cache, history>>
    BY <1>1, <1>4 DEF detector
  <2>2. UNCHANGED <<stats, slTimes>>
    BY <1>2 DEF results
  <2>3. entered' \in Nat
    BY <1>1 DEF TypeOK
  <2> QED BY <1>2, <2>1, <2>2, <2>3 DEF TypeOK
<1> QED BY <1>3, <1>4

LEMMA EndType ==
  ASSUME TypeOK, EndOfData PROVE TypeOK'
<1> DEFINE last == [i \in DOMAIN positions |-> Closed(positions[i], "END_OF_DATA")]
<1>1. /\ stage' = "over" /\ closed' = closed \o last /\ positions' = << >>
      /\ UNCHANGED <<now, detector, count, price, closing, policy, results, scan, entered>>
  BY DEF EndOfData
<1>2. last \in Seq(Exits)
  <2>1. \A i \in DOMAIN positions : positions[i] \in Positions
    BY DEF TypeOK
  <2>2. \A i \in DOMAIN positions : Closed(positions[i], "END_OF_DATA") \in Exits
    BY <2>1, ClosedType DEF TypeOK
  <2>3. positions \in Seq(Positions)
    BY DEF TypeOK
  <2> QED BY <2>2, <2>3
<1>3. closed' \in Seq(Exits)
  <2> HIDE DEF last
  <2> QED BY <1>1, <1>2 DEF TypeOK
<1> HIDE DEF last
<1> QED BY <1>1, <1>3 DEF TypeOK, detector, policy, results, scan

LEMMA InitType == Init => TypeOK
<1> SUFFICES ASSUME Init PROVE TypeOK
  OBVIOUS
<1>1. Typed(Cold)
  BY DEF Typed, Cold, Sides
<1>2. DOMAIN market = Coins /\ DOMAIN cache = Coins /\ history \in [Coins -> Seq(Regimes)]
  BY DEF Init, DetectorInit
<1>3. \A c \in Coins : market[c] = Cold /\ cache[c] = None
  BY DEF Init, DetectorInit
<1>4. now \in Nat /\ count \in Nat /\ stage \in {"event", "close", "scan", "over"}
  BY DEF Init, DetectorInit
<1>5. stats \in [Regimes -> [trades : Nat, pnl : Int]]
  BY DEF Init
<1>6. /\ price \in [Coins -> Nat] /\ cooldown \in [Coins -> Nat]
      /\ positions \in Seq(Positions) /\ closing \in Seq(Positions)
      /\ closed \in Seq(Exits) /\ slTimes \in Seq(Nat)
  BY DEF Init
<1>7. /\ open \in SUBSET Coins /\ exposure \in Nat /\ toScan \in SUBSET Coins
      /\ signals \in SUBSET Signals /\ taken \in Nat /\ entered \in Nat
  BY DEF Init
<1> QED BY <1>1, <1>2, <1>3, <1>4, <1>5, <1>6, <1>7 DEF TypeOK

LEMMA NextType ==
  ASSUME TypeOK, BookInv, [Next]_vars PROVE TypeOK'
<1>1. CASE \E e \in Feed : ReceiveEvent(e)
  BY <1>1, ReceiveType
<1>2. CASE ClosePosition
  BY <1>2, CloseType
<1>3. CASE BeginScan
  <2>1. toScan' \in SUBSET Coins /\ stage' \in {"scan", "event"}
    BY <1>3 DEF BeginScan, TypeOK
  <2> QED BY <1>3, <2>1 DEF BeginScan, TypeOK, detector, book, policy, results
<1>4. CASE \E c \in Coins : ScanCoin(c)
  BY <1>4, ScanType
<1>5. CASE \E s \in signals : Skip(s)
  BY <1>5, SkipType
<1>6. CASE \E s \in signals : Enter(s)
  BY <1>6, EnterType
<1>7. CASE EndScan
  BY <1>7 DEF EndScan, TypeOK, detector, book, policy, results
<1>8. CASE EndOfData
  BY <1>8, EndType
<1>9. CASE Tick
  BY <1>9 DEF Tick, TypeOK, detector, book, policy, results, scan
<1>10. CASE UNCHANGED vars
  BY <1>10 DEF vars, TypeOK, detector, book, policy, results, scan
<1> QED BY <1>1, <1>2, <1>3, <1>4, <1>5, <1>6, <1>7, <1>8, <1>9, <1>10 DEF Next

-----------------------------------------------------------------------------
(* The open positions, the coins the policy knows, and to_close.            *)

LEMMA PlacesFinite ==
  ASSUME NEW V, NEW list \in Seq(V), NEW U PROVE IsFiniteSet(PlacesOf(list, U))
<1> DEFINE n == Len(list)
<1>1. n \in Nat /\ PlacesOf(list, U) \in SUBSET (1..n)
  BY DEF PlacesOf
<1> HIDE DEF n
<1>2. IsFiniteSet(1..n)
  BY <1>1, IntervalSize
<1> QED BY <1>1, <1>2, FS_Subset

LEMMA OnlyAll ==
  ASSUME NEW V, NEW list \in Seq(V), NEW S, NEW j \in DOMAIN list, list[j] \in S
  PROVE  \E i \in DOMAIN Only(list, S) : Only(list, S)[i] = list[j]
<1> SUFFICES ASSUME \A i \in DOMAIN Only(list, S) : Only(list, S)[i] # list[j] PROVE FALSE
  OBVIOUS
<1> DEFINE U == {list[j]}
           A == PlacesOf(Only(list, S), U)
           B == PlacesOf(list, S \cap U)
<1>1. Cardinality(A) = Cardinality(B)
  <2> HIDE DEF U
  <2> QED BY OnlyKeeps
<1>2. A = {} /\ j \in B
  BY DEF PlacesOf
<1>3. IsFiniteSet(B)
  BY PlacesFinite
<1> HIDE DEF A, B
<1> QED BY <1>1, <1>2, <1>3, FS_EmptySet

(* At most one element is kept where at most one is in S.                   *)
LEMMA OnlyOne ==
  ASSUME NEW V, NEW list \in Seq(V), NEW S,
         \A i, j \in DOMAIN list : list[i] \in S /\ list[j] \in S => i = j
  PROVE  Len(Only(list, S)) <= 1
<1> DEFINE out == Only(list, S)
           m == Len(out)
           A == PlacesOf(out, S)
           B == PlacesOf(list, S \cap S)
<1>1. Cardinality(A) = Cardinality(B)
  BY OnlyKeeps
<1>2. out \in Seq(V) /\ \A i \in DOMAIN out : out[i] \in S
  BY OnlyKeeps
<1>3. A = 1..m /\ m \in Nat
  <2> HIDE DEF out
  <2> QED BY <1>2 DEF PlacesOf
<1>4. Cardinality(A) = m
  <2> HIDE DEF m, A
  <2>1. Cardinality(1..m) = m - 1 + 1
    BY <1>3, IntervalSize
  <2> QED BY <1>3, <2>1
<1>5. Cardinality(B) <= 1
  <2>1. CASE B = {}
    <3> HIDE DEF B
    <3> QED BY <2>1, FS_EmptySet
  <2>2. CASE B # {}
    <3>1. PICK x : x \in B
      BY <2>2
    <3>2. B = {x} /\ IsFiniteSet(B)
      BY <3>1, PlacesFinite DEF PlacesOf
    <3> HIDE DEF B
    <3>3. Cardinality(B) = 1
      BY <3>2, FS_Singleton
    <3> QED BY <3>3
  <2> QED BY <2>1, <2>2
<1> HIDE DEF out, A, B, m
<1>6. m <= 1
  BY <1>1, <1>4, <1>5
<1> QED BY <1>6 DEF m, out

(* A trade marks the positions of its coin, each in its place.              *)
LEMMA TradeMarks ==
  ASSUME TypeOK, NEW e \in Feed, ReceiveEvent(e), e.type = "trade"
  PROVE  /\ positions' \in Seq(Positions) /\ DOMAIN positions' = DOMAIN positions
         /\ Len(positions') = Len(positions)
         /\ \A i \in DOMAIN positions :
              LET p == positions[i]
                  q == positions'[i]
              IN /\ q.coin = p.coin /\ q.side = p.side /\ q.at = p.at /\ q.usd = p.usd
                 /\ IF p.side = "LONG" THEN q.sl >= p.sl ELSE q.sl <= p.sl
                 /\ p.coin = e.coin => q.current = e.price
                 /\ p.coin # e.coin => q = p
<1>1. positions' = [i \in DOMAIN positions |->
                    IF positions[i].coin = e.coin THEN Updated(positions[i], e.price)
                                                  ELSE positions[i]]
  BY DEF ReceiveEvent
<1>2. positions \in Seq(Positions) /\ e.price \in Nat \ {0}
  BY FeedAssumption DEF TypeOK
<1>3. positions' \in Seq(Positions)
  BY ReceiveType DEF TypeOK
<1>4. DOMAIN positions' = DOMAIN positions /\ Len(positions') = Len(positions)
  BY <1>1, <1>2, <1>3
<1>5. ASSUME NEW i \in DOMAIN positions
      PROVE  LET p == positions[i]
                 q == positions'[i]
             IN /\ q.coin = p.coin /\ q.side = p.side /\ q.at = p.at /\ q.usd = p.usd
                /\ IF p.side = "LONG" THEN q.sl >= p.sl ELSE q.sl <= p.sl
                /\ p.coin = e.coin => q.current = e.price
                /\ p.coin # e.coin => q = p
  <2> DEFINE p == positions[i]
  <2>1. p \in Positions /\ p.sl \in Int
    <3>1. p \in Positions
      BY <1>2
    <3> QED BY <3>1 DEF Positions
  <2>2. CASE p.coin = e.coin
    <3>1. positions'[i] = Updated(p, e.price)
      BY <1>1, <2>2
    <3> HIDE DEF p
    <3>2. /\ Updated(p, e.price).coin = p.coin /\ Updated(p, e.price).side = p.side
          /\ Updated(p, e.price).at = p.at /\ Updated(p, e.price).usd = p.usd
          /\ Updated(p, e.price).current = e.price
          /\ IF p.side = "LONG" THEN Updated(p, e.price).sl >= p.sl
                                ELSE Updated(p, e.price).sl <= p.sl
      BY <1>2, <2>1, UpdatedType
    <3> QED BY <2>2, <3>1, <3>2 DEF p
  <2>3. CASE p.coin # e.coin
    <3>1. positions'[i] = p
      BY <1>1, <2>3
    <3> QED BY <2>1, <2>3, <3>1
  <2> QED BY <2>2, <2>3
<1> QED BY <1>3, <1>4, <1>5

LEMMA ReceiveBook ==
  ASSUME TypeOK, BookInv, NEW e \in Feed, ReceiveEvent(e) PROVE BookInv'
<1>1. /\ stage = "event" /\ stage' = "close" /\ closing = << >>
      /\ UNCHANGED <<now, open>>
  BY DEF ReceiveEvent, BookInv, ToClose, policy
<1>2. CASE e.type # "trade"
  <2>1. UNCHANGED <<price, positions, closing>>
    BY <1>2 DEF ReceiveEvent
  <2> QED BY <1>1, <2>1 DEF BookInv, OnePerCoin, PolicyKnows, ToClose, Marked
<1>3. CASE e.type = "trade"
  <2> DEFINE S == {p \in Range(positions') : p.coin = e.coin /\ (StopHit(p) \/ TargetHit(p))}
  <2>1. price' = [price EXCEPT ![e.coin] = e.price] /\ closing' = Only(positions', S)
    BY <1>3 DEF ReceiveEvent
  <2>2. /\ positions' \in Seq(Positions) /\ DOMAIN positions' = DOMAIN positions
        /\ \A i \in DOMAIN positions :
              /\ positions'[i].coin = positions[i].coin /\ positions'[i].at = positions[i].at
              /\ positions[i].coin = e.coin => positions'[i].current = e.price
              /\ positions[i].coin # e.coin => positions'[i] = positions[i]
    BY <1>3, TradeMarks
  <2>3. OnePerCoin'
    BY <2>2 DEF BookInv, OnePerCoin
  <2>4. PolicyKnows'
    BY <1>1, <2>2 DEF BookInv, PolicyKnows
  <2>5. ToClose'
    <3>1. \A i, j \in DOMAIN positions' : positions'[i] \in S /\ positions'[j] \in S => i = j
      BY <2>3 DEF OnePerCoin
    <3> HIDE DEF S
    <3>2. Len(closing') <= 1
      BY <2>1, <2>2, <3>1, OnlyOne
    <3>3. \A k \in DOMAIN closing' : \E i \in DOMAIN positions' : closing'[k] = positions'[i]
      BY <2>1, <2>2, OnlyKeeps
    <3> QED BY <1>1, <3>2, <3>3 DEF ToClose
  <2>6. Marked'
    <3> SUFFICES ASSUME NEW i \in DOMAIN positions
                 PROVE  /\ positions'[i].current = price'[positions'[i].coin]
                        /\ positions'[i].at <= now'
                        /\ \/ Held(positions'[i])
                           \/ \E k \in DOMAIN closing' : closing'[k] = positions'[i]
      BY <2>2 DEF Marked
    <3>1. /\ positions[i].current = price[positions[i].coin] /\ positions[i].at <= now
          /\ Held(positions[i])
      BY <1>1 DEF BookInv, Marked
    <3>2. /\ e.coin \in Coins /\ price \in [Coins -> Nat]
          /\ positions'[i] \in Positions /\ positions'[i].coin \in Coins
      <4>1. positions'[i] \in Positions
        BY <2>2
      <4> QED BY <4>1, FeedAssumption DEF TypeOK, Positions
    <3>3. CASE positions[i].coin # e.coin
      BY <1>1, <2>1, <2>2, <3>1, <3>2, <3>3
    <3>4. CASE positions[i].coin = e.coin
      <4> DEFINE q == positions'[i]
      <4>1. q.current = price'[q.coin] /\ q.at <= now'
        BY <1>1, <2>1, <2>2, <3>1, <3>2, <3>4
      <4>2. CASE StopHit(q) \/ TargetHit(q)
        <5>1. q \in S
          BY <2>2, <3>4, <4>2 DEF Range
        <5> HIDE DEF S
        <5>2. \E k \in DOMAIN closing' : closing'[k] = q
          BY <2>1, <2>2, <5>1, OnlyAll
        <5> QED BY <4>1, <5>2
      <4>3. CASE ~StopHit(q) /\ ~TargetHit(q)
        <5>1. q.current \in Int /\ q.sl \in Int /\ q.tp \in Int
          BY <3>2 DEF Positions
        <5>2. q.current * Unit \in Int
          BY <5>1 DEF Unit
        <5>3. Held(q)
          <6> DEFINE a == q.current * Unit
          <6> HIDE DEF q
          <6>1. a \in Int /\ q.sl \in Int /\ q.tp \in Int
            BY <5>1, <5>2
          <6> QED BY <4>3, <6>1 DEF StopHit, TargetHit, Held
        <5> QED BY <4>1, <5>3
      <4> QED BY <4>1, <4>2, <4>3
    <3> QED BY <3>3, <3>4
  <2> QED BY <2>3, <2>4, <2>5, <2>6 DEF BookInv
<1> QED BY <1>2, <1>3

LEMMA OneElement ==
  ASSUME NEW V, NEW list \in Seq(V), list # << >>, Len(list) <= 1
  PROVE  /\ 1 \in DOMAIN list /\ Head(list) = list[1]
         /\ list = <<list[1]>> /\ Tail(list) = << >>
<1>1. Len(list) = 1
  <2> DEFINE n == Len(list)
  <2>1. n \in Nat \ {0} /\ n <= 1
    BY EmptySeq
  <2> HIDE DEF n
  <2>2. n = 1
    BY <2>1
  <2> QED BY <2>2 DEF n
<1>2. Tail(list) \in Seq(V) /\ Len(Tail(list)) = 0
  BY <1>1
<1>3. list = <<list[1]>>
  BY <1>1
<1>4. Tail(list) = << >>
  BY <1>2, EmptySeq
<1> QED BY <1>1, <1>3, <1>4

(* A close takes the one element of to_close out of the open positions.     *)
LEMMA CloseRemoves ==
  ASSUME TypeOK, BookInv, ClosePosition
  PROVE  \E d \in DOMAIN positions :
           /\ Head(closing) = positions[d] /\ closing = <<positions[d]>> /\ closing' = << >>
           /\ \A i \in DOMAIN positions : positions[i].coin = positions[d].coin => i = d
           /\ Len(positions') = Len(positions) - 1
           /\ \A i \in DOMAIN positions' :
                 Gap(d, i) \in DOMAIN positions /\ Gap(d, i) # d
                 /\ positions'[i] = positions[Gap(d, i)]
           /\ \A j \in DOMAIN positions : j # d =>
                 \E i \in DOMAIN positions' : Gap(d, i) = j
<1> DEFINE n == Len(positions)
<1>1. /\ closing \in Seq(Positions) /\ closing # << >> /\ Len(closing) <= 1
      /\ closing' = Tail(closing) /\ positions' = RemoveFirst(positions, Head(closing))
  BY DEF TypeOK, BookInv, ToClose, ClosePosition
<1>2. /\ 1 \in DOMAIN closing /\ Head(closing) = closing[1]
      /\ closing = <<closing[1]>> /\ Tail(closing) = << >>
  BY <1>1, OneElement
<1>3. PICK d \in DOMAIN positions : closing[1] = positions[d]
  BY <1>2 DEF BookInv, ToClose
<1>4. positions \in Seq(Positions) /\ DOMAIN positions = 1..n /\ n \in Nat /\ d \in 1..n
  BY <1>3 DEF TypeOK
<1>5. \A i \in DOMAIN positions : positions[i].coin = positions[d].coin => i = d
  BY <1>3 DEF BookInv, OnePerCoin
<1>6. \A i \in 1..n : positions[i] = positions[d] => i = d
  BY <1>4, <1>5
<1>7. /\ positions' \in Seq(Positions) /\ Len(positions') = n - 1
      /\ \A i \in 1..n - 1 : positions'[i] = positions[Gap(d, i)]
  <2>1. positions' = RemoveFirst(positions, positions[d])
    BY <1>1, <1>2, <1>3
  <2>2. LET out == RemoveFirst(positions, positions[d]) IN
        /\ out \in Seq(Positions) /\ Len(out) = n - 1
        /\ \A i \in 1..n - 1 : out[i] = positions[Gap(d, i)]
    BY <1>4, <1>6, RemovedOnce
  <2> QED BY <2>1, <2>2
<1>8. closing = <<positions[d]>> /\ closing' = << >>
  BY <1>1, <1>2, <1>3
<1> HIDE DEF n
<1>9. DOMAIN positions' = 1..n - 1
  BY <1>7
<1>10. ASSUME NEW i \in 1..n - 1 PROVE Gap(d, i) \in 1..n /\ Gap(d, i) # d
  BY <1>4 DEF Gap
<1>11. ASSUME NEW j \in 1..n, j # d PROVE \E i \in 1..n - 1 : Gap(d, i) = j
  <2>1. CASE j < d
    <3>1. j \in 1..n - 1 /\ Gap(d, j) = j
      BY <1>4, <2>1 DEF Gap
    <3> QED BY <3>1
  <2>2. CASE ~(j < d)
    <3>1. j - 1 \in 1..n - 1 /\ Gap(d, j - 1) = j
      BY <1>4, <1>11, <2>2 DEF Gap
    <3> QED BY <3>1
  <2> QED BY <2>1, <2>2
<1> QED BY <1>2, <1>3, <1>4, <1>5, <1>7, <1>8, <1>9, <1>10, <1>11 DEF n

LEMMA CloseBook ==
  ASSUME TypeOK, BookInv, ClosePosition PROVE BookInv'
<1>1. PICK d \in DOMAIN positions :
        /\ Head(closing) = positions[d] /\ closing = <<positions[d]>> /\ closing' = << >>
        /\ \A i \in DOMAIN positions : positions[i].coin = positions[d].coin => i = d
        /\ \A i \in DOMAIN positions' :
              Gap(d, i) \in DOMAIN positions /\ Gap(d, i) # d
              /\ positions'[i] = positions[Gap(d, i)]
        /\ \A j \in DOMAIN positions : j # d => \E i \in DOMAIN positions' : Gap(d, i) = j
  BY CloseRemoves
<1>2. /\ stage = "close" /\ UNCHANGED <<now, stage, price>>
      /\ open' = open \ {positions[d].coin}
  BY <1>1 DEF ClosePosition, RegisterExit
<1>3. positions' \in Seq(Positions) /\ positions \in Seq(Positions)
  BY CloseType DEF TypeOK
<1>4. OnePerCoin'
  <2> SUFFICES ASSUME NEW i \in DOMAIN positions', NEW j \in DOMAIN positions',
                      positions'[i].coin = positions'[j].coin PROVE i = j
    BY DEF OnePerCoin
  <2>1. Gap(d, i) = Gap(d, j)
    BY <1>1 DEF BookInv, OnePerCoin
  <2>2. i \in Nat /\ j \in Nat /\ d \in Nat
    BY <1>3
  <2> QED BY <2>1, <2>2 DEF Gap
<1>5. PolicyKnows'
  <2>1. open = {positions[i].coin : i \in DOMAIN positions}
    BY <1>2 DEF BookInv, PolicyKnows
  <2>2. \A c \in open' : \E i \in DOMAIN positions' : c = positions'[i].coin
    <3> SUFFICES ASSUME NEW c \in open' PROVE \E i \in DOMAIN positions' : c = positions'[i].coin
      OBVIOUS
    <3>1. PICK j \in DOMAIN positions : c = positions[j].coin
      BY <1>2, <2>1
    <3>2. j # d
      BY <1>2, <3>1
    <3>3. PICK i \in DOMAIN positions' : Gap(d, i) = j
      BY <1>1, <3>2
    <3> QED BY <1>1, <3>1, <3>3
  <2>3. \A i \in DOMAIN positions' : positions'[i].coin \in open'
    BY <1>1, <1>2, <2>1
  <2>4. open' = {positions'[i].coin : i \in DOMAIN positions'}
    BY <2>2, <2>3
  <2> QED BY <1>2, <2>4 DEF PolicyKnows
<1>6. ToClose'
  BY <1>1 DEF ToClose
<1>7. Marked'
  <2> SUFFICES ASSUME NEW i \in DOMAIN positions'
               PROVE  /\ positions'[i].current = price[positions'[i].coin]
                      /\ positions'[i].at <= now /\ Held(positions'[i])
    BY <1>2 DEF Marked
  <2>1. /\ Gap(d, i) \in DOMAIN positions /\ Gap(d, i) # d
        /\ positions'[i] = positions[Gap(d, i)]
    BY <1>1
  <2>2. ASSUME NEW k \in DOMAIN closing, closing[k] = positions[Gap(d, i)] PROVE FALSE
    <3>1. closing[k] = positions[d]
      BY <1>1
    <3> QED BY <1>1, <2>1, <2>2, <3>1
  <2> QED BY <2>1, <2>2 DEF BookInv, Marked
<1> QED BY <1>4, <1>5, <1>6, <1>7 DEF BookInv

(* An entry appends a position of a coin the policy does not know.          *)
LEMMA EnterBook ==
  ASSUME TypeOK, BookInv, NEW s \in signals, Enter(s) PROVE BookInv'
<1>1. /\ Decide(s) /\ Accepts(s)
      /\ IF price[s.coin] > 0
         THEN positions' = Append(positions, Opened(s)) /\ open' = open \cup {s.coin}
         ELSE UNCHANGED <<positions, open>>
  BY EnterOpens
<1>2. stage = "scan" /\ UNCHANGED <<now, stage, price, closing>> /\ closing = << >>
  BY <1>1 DEF Decide, BookInv, ToClose
<1>3. CASE ~(price[s.coin] > 0)
  BY <1>1, <1>2, <1>3 DEF BookInv, OnePerCoin, PolicyKnows, ToClose, Marked
<1>4. CASE price[s.coin] > 0
  <2> DEFINE n == Len(positions)
             new == Opened(s)
  <2>1. /\ new \in Positions /\ Held(new) /\ new.coin = s.coin /\ new.at = now
        /\ new.current = price[s.coin]
    BY <1>1, <1>4, DecideType, OpenedType
  <2>2. positions \in Seq(Positions) /\ n \in Nat /\ DOMAIN positions = 1..n
    BY DEF TypeOK
  <2> HIDE DEF n, new
  <2>3. /\ DOMAIN positions' = 1..n + 1 /\ positions'[n + 1] = new
        /\ \A i \in 1..n : positions'[i] = positions[i]
        /\ \A i \in 1..n + 1 : i \in 1..n \/ i = n + 1
    BY <1>1, <1>4, <2>1, <2>2 DEF n, new
  <2>4. \A i \in 1..n : positions[i].coin # new.coin
    BY <1>1, <1>2, <2>1, <2>2 DEF BookInv, PolicyKnows, Accepts, Admits
  <2>5. OnePerCoin'
    BY <2>2, <2>3, <2>4 DEF BookInv, OnePerCoin
  <2>6. PolicyKnows'
    <3>1. open = {positions[i].coin : i \in 1..n} /\ open' = open \cup {new.coin}
      BY <1>1, <1>2, <1>4, <2>1, <2>2 DEF BookInv, PolicyKnows
    <3>2. open' = {positions'[i].coin : i \in 1..n + 1}
      <4>1. \A i \in 1..n : i \in 1..n + 1
        BY <2>2
      <4>2. n + 1 \in 1..n + 1
        BY <2>2
      <4> QED BY <2>3, <3>1, <4>1, <4>2
    <3> QED BY <1>2, <2>3, <3>2 DEF PolicyKnows
  <2>7. ToClose'
    BY <1>2 DEF ToClose
  <2>8. Marked'
    <3> SUFFICES ASSUME NEW i \in 1..n + 1
                 PROVE  /\ positions'[i].current = price[positions'[i].coin]
                        /\ positions'[i].at <= now /\ Held(positions'[i])
      BY <1>2, <2>3 DEF Marked
    <3>1. CASE i \in 1..n
      BY <1>2, <2>2, <2>3, <3>1 DEF BookInv, Marked
    <3>2. CASE i = n + 1
      BY <2>1, <2>3, <3>2 DEF TypeOK
    <3> QED BY <2>3, <3>1, <3>2
  <2> QED BY <2>5, <2>6, <2>7, <2>8 DEF BookInv
<1> QED BY <1>3, <1>4

LEMMA NextBook ==
  ASSUME TypeOK, BookInv, [Next]_vars PROVE BookInv'
<1>1. CASE \E e \in Feed : ReceiveEvent(e)
  BY <1>1, ReceiveBook
<1>2. CASE ClosePosition
  BY <1>2, CloseBook
<1>3. CASE BeginScan
  BY <1>3 DEF BeginScan, book, policy, BookInv, OnePerCoin, PolicyKnows, ToClose, Marked
<1>4. CASE \E c \in Coins : ScanCoin(c)
  BY <1>4 DEF ScanCoin, book, policy, BookInv, OnePerCoin, PolicyKnows, ToClose, Marked
<1>5. CASE \E s \in signals : Skip(s)
  BY <1>5 DEF Skip, Decide, BookInv, OnePerCoin, PolicyKnows, ToClose, Marked
<1>6. CASE \E s \in signals : Enter(s)
  BY <1>6, EnterBook
<1>7. CASE EndScan
  BY <1>7 DEF EndScan, book, policy, BookInv, OnePerCoin, PolicyKnows, ToClose, Marked
<1>8. CASE EndOfData
  BY <1>8 DEF EndOfData, policy, BookInv, OnePerCoin, PolicyKnows, ToClose, Marked
<1>9. CASE Tick
  <2>1. \A i \in DOMAIN positions : positions[i].at <= now => positions[i].at <= now'
    <3>1. \A i \in DOMAIN positions : positions[i].at \in Nat
      <4>1. \A i \in DOMAIN positions : positions[i] \in Positions
        BY DEF TypeOK
      <4> QED BY <4>1 DEF Positions
    <3> QED BY <1>9, <3>1 DEF Tick, TypeOK
  <2>2. UNCHANGED <<stage, price, closing, positions, open>>
    BY <1>9 DEF Tick, book, policy
  <2> QED BY <2>1, <2>2 DEF BookInv, OnePerCoin, PolicyKnows, ToClose, Marked
<1>10. CASE UNCHANGED vars
  BY <1>10 DEF vars, book, policy, BookInv, OnePerCoin, PolicyKnows, ToClose, Marked
<1> QED BY <1>1, <1>2, <1>3, <1>4, <1>5, <1>6, <1>7, <1>8, <1>9, <1>10 DEF Next

LEMMA InitBook == Init => BookInv
BY DEF Init, DetectorInit, BookInv, OnePerCoin, PolicyKnows, ToClose, Marked

LEMMA BookAlways == Spec => [](TypeOK /\ BookInv)
<1>1. Init => TypeOK /\ BookInv
  BY InitType, InitBook
<1>2. TypeOK /\ BookInv /\ [Next]_vars => (TypeOK /\ BookInv)'
  BY NextType, NextBook
<1> QED BY <1>1, <1>2, PTL DEF Spec

(* LevelsHeld: once an event is handled, every open position is marked with *)
(* the last price of its coin and lies strictly between its stop and its    *)
(* target (PositionManager.update_price, the closes of FullReplay.on_event).*)
THEOREM OpenPositionsLieBetweenLevels == Spec => []LevelsHeld
<1>1. TypeOK /\ BookInv => LevelsHeld
  BY DEF BookInv, ToClose, Marked, Held, LevelsHeld
<1> QED BY <1>1, BookAlways, PTL

(* Where a step takes a position of a coin that is held before and after.   *)
Follows(p, q) ==
    /\ q.coin = p.coin /\ q.side = p.side /\ q.at = p.at
    /\ IF p.side = "LONG" THEN q.sl >= p.sl ELSE q.sl <= p.sl

LEMMA SameFollows == ASSUME NEW p \in Positions PROVE Follows(p, p)
<1>1. p.sl \in Int
  BY DEF Positions
<1> QED BY <1>1 DEF Follows

LEMMA PositionsFollow ==
  ASSUME TypeOK, BookInv, [Next]_vars,
         NEW i \in DOMAIN positions, NEW j \in DOMAIN positions',
         positions[i].coin = positions'[j].coin
  PROVE  Follows(positions[i], positions'[j])
<1>0. positions \in Seq(Positions) /\ \A k \in DOMAIN positions : positions[k] \in Positions
  BY DEF TypeOK
<1>1. ASSUME positions' = positions PROVE Follows(positions[i], positions'[j])
  <2>1. i = j
    BY <1>1 DEF BookInv, OnePerCoin
  <2> QED BY <1>0, <1>1, <2>1, SameFollows
<1>2. CASE \E e \in Feed : ReceiveEvent(e)
  <2>1. PICK e \in Feed : ReceiveEvent(e)
    BY <1>2
  <2>2. CASE e.type # "trade"
    BY <1>1, <2>1, <2>2 DEF ReceiveEvent
  <2>3. CASE e.type = "trade"
    <3>1. /\ DOMAIN positions' = DOMAIN positions
          /\ \A k \in DOMAIN positions : Follows(positions[k], positions'[k])
      BY <2>1, <2>3, TradeMarks DEF Follows
    <3>2. i = j
      BY <3>1 DEF BookInv, OnePerCoin, Follows
    <3> QED BY <3>1, <3>2
  <2> QED BY <2>2, <2>3
<1>3. CASE ClosePosition
  <2>1. PICK d \in DOMAIN positions :
          \A k \in DOMAIN positions' :
             Gap(d, k) \in DOMAIN positions /\ positions'[k] = positions[Gap(d, k)]
    BY <1>3, CloseRemoves
  <2>2. i = Gap(d, j)
    BY <2>1 DEF BookInv, OnePerCoin
  <2> QED BY <1>0, <2>1, <2>2, SameFollows
<1>4. CASE \E s \in signals : Enter(s)
  <2>1. PICK s \in signals : Enter(s)
    BY <1>4
  <2>2. /\ Decide(s) /\ Accepts(s)
        /\ IF price[s.coin] > 0 THEN positions' = Append(positions, Opened(s))
                                ELSE positions' = positions
    BY <2>1, EnterOpens
  <2>3. CASE price[s.coin] > 0
    <3> DEFINE n == Len(positions)
    <3>1. Opened(s).coin = s.coin /\ Opened(s) \in Positions
      BY <2>2, <2>3, DecideType, OpenedType
    <3>2. n \in Nat /\ DOMAIN positions = 1..n
      BY <1>0
    <3>3. /\ DOMAIN positions' = 1..n + 1 /\ positions'[n + 1] = Opened(s)
          /\ \A k \in 1..n : positions'[k] = positions[k]
      BY <1>0, <2>2, <2>3, <3>1, <3>2
    <3>4. positions[i].coin # s.coin
      BY <2>2 DEF BookInv, PolicyKnows, Decide, Accepts, Admits
    <3> HIDE DEF n
    <3>5. j \in 1..n
      BY <3>1, <3>2, <3>3, <3>4
    <3>6. i = j
      BY <3>2, <3>3, <3>5 DEF BookInv, OnePerCoin
    <3> QED BY <1>0, <3>3, <3>5, <3>6, SameFollows
  <2>4. CASE ~(price[s.coin] > 0)
    BY <1>1, <2>2, <2>4
  <2> QED BY <2>3, <2>4
<1>5. CASE EndOfData
  BY <1>5 DEF EndOfData
<1>6. CASE \/ BeginScan \/ EndScan \/ Tick \/ UNCHANGED vars
           \/ \E c \in Coins : ScanCoin(c)
           \/ \E s \in signals : Skip(s)
  <2>1. positions' = positions
    BY <1>6 DEF BeginScan, EndScan, Tick, vars, ScanCoin, Skip, book
  <2> QED BY <1>1, <2>1
<1> QED BY <1>2, <1>3, <1>4, <1>5, <1>6 DEF Next

(* StopNeverLoosens: a stop only ever moves towards the price, whatever is  *)
(* marked, closed or entered (PositionManager.update_price).                *)
THEOREM StopsOnlyTighten == Spec => StopNeverLoosens
<1>1. TypeOK /\ BookInv /\ [Next]_vars =>
        [\A i \in DOMAIN positions, j \in DOMAIN positions' :
          LET p == positions[i]
              q == positions'[j]
          IN p.coin = q.coin /\ p.at = q.at =>
              IF p.side = "LONG" THEN q.sl >= p.sl ELSE q.sl <= p.sl]_vars
  BY PositionsFollow DEF Follows
<1> QED BY <1>1, BookAlways, PTL DEF Spec, StopNeverLoosens

-----------------------------------------------------------------------------
(* Cooldowns.                                                               *)

CooldownInv == CooldownNoted /\ CooldownKept

LEMMA CooldownsNat == Cooldown \in Nat /\ SlWindow \in Nat
BY EngineAssumption

LEMMA ExitsTyped ==
  ASSUME TypeOK, NEW i \in DOMAIN closed
  PROVE  /\ closed[i] \in Exits /\ closed[i].coin \in Coins
         /\ closed[i].exit \in Nat /\ closed[i].at \in Nat
         /\ cooldown[closed[i].coin] \in Nat
<1>1. closed[i] \in Exits
  BY DEF TypeOK
<1>2. closed[i].coin \in Coins /\ closed[i].exit \in Nat /\ closed[i].at \in Nat
  BY <1>1 DEF Exits
<1> QED BY <1>1, <1>2 DEF TypeOK

LEMMA PositionsTyped ==
  ASSUME TypeOK, NEW i \in DOMAIN positions
  PROVE  /\ positions[i] \in Positions /\ positions[i].coin \in Coins
         /\ positions[i].at \in Nat /\ positions[i].usd \in Nat
<1>1. positions[i] \in Positions
  BY DEF TypeOK
<1> QED BY <1>1 DEF Positions

(* Steps that close nothing: what was noted still is, as time passes or a   *)
(* cooldown that has expired is removed.                                    *)
LEMMA NotedStays ==
  ASSUME TypeOK, TypeOK', CooldownNoted, closed' = closed, now' >= now,
         \A c \in Coins : cooldown'[c] >= cooldown[c] \/ now >= cooldown[c]
  PROVE  CooldownNoted'
<1> SUFFICES ASSUME NEW i \in DOMAIN closed
             PROVE  /\ closed[i].exit <= now'
                    /\ AtLevel(closed[i]) =>
                         \/ cooldown'[closed[i].coin] >= closed[i].exit + Cooldown
                         \/ now' >= closed[i].exit + Cooldown
  BY DEF CooldownNoted
<1> DEFINE c == closed[i].coin
           x == closed[i].exit
<1>1. c \in Coins /\ x \in Nat /\ cooldown[c] \in Nat /\ now \in Nat
  BY ExitsTyped DEF TypeOK
<1>2. now' \in Nat /\ cooldown'[c] \in Nat
  BY <1>1 DEF TypeOK
<1>3. /\ x <= now
      /\ AtLevel(closed[i]) => cooldown[c] >= x + Cooldown \/ now >= x + Cooldown
  BY DEF CooldownNoted
<1>4. cooldown'[c] >= cooldown[c] \/ now >= cooldown[c]
  BY <1>1
<1> HIDE DEF c, x
<1>5. x <= now' /\ (AtLevel(closed[i]) => cooldown'[c] >= x + Cooldown \/ now' >= x + Cooldown)
  BY <1>1, <1>2, <1>3, <1>4, CooldownsNat
<1> QED BY <1>5 DEF c, x

LEMMA CooldownStays ==
  ASSUME TypeOK, TypeOK', CooldownInv, closed' = closed, now' >= now,
         \A c \in Coins : cooldown'[c] >= cooldown[c] \/ now >= cooldown[c],
         DOMAIN positions' \subseteq DOMAIN positions,
         \A i \in DOMAIN positions' : /\ positions'[i].coin = positions[i].coin
                                      /\ positions'[i].at = positions[i].at
  PROVE  CooldownInv'
<1>1. CooldownNoted'
  BY NotedStays DEF CooldownInv
<1>2. CooldownKept'
  BY DEF CooldownInv, CooldownKept
<1> QED BY <1>1, <1>2 DEF CooldownInv

(* The exit that a close records.                                           *)
LEMMA CloseRecords ==
  ASSUME TypeOK, BookInv, ClosePosition
  PROVE  \E reason \in {"SL", "TP"} :
           LET p == Head(closing)
               x == Closed(p, reason)
           IN /\ p \in Positions /\ x \in Exits
              /\ x.coin = p.coin /\ x.at = p.at /\ x.exit = now /\ x.usd = p.usd
              /\ x.reason = reason /\ closed' = Append(closed, x)
              /\ reason = "SL" <=> StopHit(p)
              /\ slTimes' = IF reason = "SL" THEN Trimmed ELSE slTimes
              /\ cooldown' = [cooldown EXCEPT ![p.coin] = now + Cooldown]
              /\ exposure' = Max({0, exposure - p.usd})
              /\ RecordTrade(Confirmed(OneReading(p.coin)), x.net)
              /\ p.coin \in Coins /\ p.usd \in Nat
<1> DEFINE p == Head(closing)
           reason == IF StopHit(p) THEN "SL" ELSE "TP"
           x == Closed(p, reason)
<1>1. /\ closed' = Append(closed, x)
      /\ slTimes' = IF StopHit(p) THEN Trimmed ELSE slTimes
      /\ cooldown' = [cooldown EXCEPT ![p.coin] = now + Cooldown]
      /\ exposure' = Max({0, exposure - p.usd})
      /\ RecordTrade(Confirmed(OneReading(p.coin)), x.net)
  BY DEF ClosePosition, RegisterExit
<1>2. p \in Positions
  <2>1. PICK d \in DOMAIN positions : p = positions[d]
    BY CloseRemoves
  <2> HIDE DEF p
  <2> QED BY <2>1, PositionsTyped
<1>3. p.coin \in Coins /\ p.usd \in Nat
  <2> HIDE DEF p
  <2> QED BY <1>2 DEF Positions
<1>4. reason \in {"SL", "TP"} /\ (reason = "SL" <=> StopHit(p))
  OBVIOUS
<1>5. now \in Nat
  BY DEF TypeOK
<1> HIDE DEF p, reason
<1>6. /\ x \in Exits /\ x.coin = p.coin /\ x.at = p.at /\ x.exit = now /\ x.usd = p.usd
      /\ x.reason = reason
  BY <1>2, <1>4, <1>5, ClosedType
<1> HIDE DEF x
<1>7. slTimes' = IF reason = "SL" THEN Trimmed ELSE slTimes
  BY <1>1, <1>4
<1> QED BY <1>1, <1>2, <1>3, <1>4, <1>6, <1>7 DEF p, x

LEMMA CloseCooldown ==
  ASSUME TypeOK, TypeOK', BookInv, CooldownInv, ClosePosition PROVE CooldownInv'
<1> DEFINE p == Head(closing)
           n == Len(closed)
<1>1. PICK reason \in {"SL", "TP"} :
        LET x == Closed(p, reason)
        IN /\ x \in Exits
           /\ x.coin = p.coin /\ x.at = p.at /\ x.exit = now
           /\ x.reason = reason /\ closed' = Append(closed, x)
           /\ cooldown' = [cooldown EXCEPT ![p.coin] = now + Cooldown]
           /\ p.coin \in Coins
  BY CloseRecords
<1> DEFINE x == Closed(p, reason)
<1>2. PICK d \in DOMAIN positions :
        /\ p = positions[d]
        /\ \A i \in DOMAIN positions : positions[i].coin = positions[d].coin => i = d
        /\ \A i \in DOMAIN positions' :
              Gap(d, i) \in DOMAIN positions /\ Gap(d, i) # d
              /\ positions'[i] = positions[Gap(d, i)]
  BY CloseRemoves
<1>3. /\ x \in Exits /\ x.coin = p.coin /\ x.at = p.at /\ x.exit = now
      /\ closed' = Append(closed, x)
      /\ cooldown' = [cooldown EXCEPT ![p.coin] = now + Cooldown] /\ p.coin \in Coins
      /\ now' = now
  BY <1>1 DEF ClosePosition
<1> HIDE DEF p, x
<1>4. n \in Nat /\ closed \in Seq(Exits) /\ DOMAIN closed = 1..n /\ now \in Nat
  BY DEF TypeOK
<1> HIDE DEF n
<1>5. /\ DOMAIN closed' = 1..n + 1 /\ Len(closed') = n + 1 /\ closed'[n + 1] = x
      /\ \A i \in 1..n : closed'[i] = closed[i]
      /\ \A i \in 1..n + 1 : i \in 1..n \/ i = n + 1
  BY <1>3, <1>4 DEF n
<1>6. CooldownNoted'
  <2> SUFFICES ASSUME NEW i \in 1..n + 1
               PROVE  /\ closed'[i].exit <= now
                      /\ \/ cooldown'[closed'[i].coin] >= closed'[i].exit + Cooldown
                         \/ ~AtLevel(closed'[i])
                         \/ now >= closed'[i].exit + Cooldown
    BY <1>3, <1>5 DEF CooldownNoted
  <2>1. CASE i = n + 1
    <3>1. cooldown'[x.coin] = now + Cooldown
      BY <1>3 DEF TypeOK
    <3> QED BY <1>3, <1>4, <1>5, <2>1, <3>1, CooldownsNat
  <2>2. CASE i \in 1..n
    <3> DEFINE c == closed[i].coin
               e == closed[i].exit
    <3>1. c \in Coins /\ e \in Nat /\ cooldown[c] \in Nat
      BY <1>4, <2>2, ExitsTyped
    <3>2. e <= now /\ (AtLevel(closed[i]) => cooldown[c] >= e + Cooldown \/ now >= e + Cooldown)
      BY <1>4, <2>2 DEF CooldownInv, CooldownNoted
    <3>3. cooldown'[c] = IF c = p.coin THEN now + Cooldown ELSE cooldown[c]
      BY <1>3, <3>1 DEF TypeOK
    <3> HIDE DEF c, e
    <3>4. /\ e <= now
          /\ \/ cooldown'[c] >= e + Cooldown \/ ~AtLevel(closed[i])
             \/ now >= e + Cooldown
      BY <1>4, <3>1, <3>2, <3>3, CooldownsNat
    <3> QED BY <1>5, <2>2, <3>4 DEF c, e
  <2> QED BY <1>5, <2>1, <2>2
<1>7. CooldownKept'
  <2> SUFFICES ASSUME NEW i \in 1..n + 1, AtLevel(closed'[i])
               PROVE  /\ \A j \in DOMAIN positions' :
                            positions'[j].coin = closed'[i].coin
                            => positions'[j].at >= closed'[i].exit + Cooldown
                      /\ \A j \in i + 1..n + 1 :
                            closed'[j].coin = closed'[i].coin
                            => closed'[j].at >= closed'[i].exit + Cooldown
    BY <1>5 DEF CooldownKept, AtLevel
  <2>1. CASE i = n + 1
    <3>1. \A j \in DOMAIN positions' : positions'[j].coin # p.coin
      BY <1>2
    <3>2. i + 1..n + 1 = {}
      BY <1>4, <2>1
    <3> QED BY <1>3, <1>5, <2>1, <3>1, <3>2
  <2>2. CASE i \in 1..n
    <3>1. /\ \A j \in DOMAIN positions :
                positions[j].coin = closed[i].coin
                => positions[j].at >= closed[i].exit + Cooldown
          /\ \A j \in i + 1..n :
                closed[j].coin = closed[i].coin
                => closed[j].at >= closed[i].exit + Cooldown
      BY <1>4, <1>5, <2>2 DEF CooldownInv, CooldownKept, AtLevel, n
    <3>2. \A j \in DOMAIN positions' :
             positions'[j].coin = closed'[i].coin
             => positions'[j].at >= closed'[i].exit + Cooldown
      BY <1>2, <1>5, <2>2, <3>1
    <3>3. ASSUME NEW j \in i + 1..n + 1, closed'[j].coin = closed'[i].coin
          PROVE  closed'[j].at >= closed'[i].exit + Cooldown
      <4>1. CASE j = n + 1
        BY <1>2, <1>3, <1>5, <2>2, <3>1, <3>3, <4>1
      <4>2. CASE j # n + 1
        <5>1. j \in i + 1..n /\ j \in 1..n
          BY <1>4, <2>2, <4>2
        <5> QED BY <1>5, <2>2, <3>1, <3>3, <5>1
      <4> QED BY <4>1, <4>2
    <3> QED BY <3>2, <3>3
  <2> QED BY <1>5, <2>1, <2>2
<1> QED BY <1>6, <1>7 DEF CooldownInv

(* An expired cooldown that Decide removes.                                 *)
LEMMA DecideCooldown ==
  ASSUME TypeOK, NEW s \in signals, Decide(s)
  PROVE  \A c \in Coins : cooldown'[c] >= cooldown[c] \/ now >= cooldown[c]
<1> SUFFICES ASSUME NEW c \in Coins
             PROVE  cooldown'[c] >= cooldown[c] \/ now >= cooldown[c]
  OBVIOUS
<1>1. cooldown \in [Coins -> Nat] /\ now \in Nat /\ s.coin \in Coins
  BY DecideType DEF TypeOK
<1>2. cooldown' = [cooldown EXCEPT ![s.coin] = IF OnCooldown(s.coin) THEN cooldown[s.coin] ELSE 0]
  BY DEF Decide
<1>3. cooldown[c] \in Nat
  BY <1>1
<1>4. CASE c # s.coin
  BY <1>1, <1>2, <1>3, <1>4
<1>5. CASE c = s.coin /\ OnCooldown(s.coin)
  BY <1>1, <1>2, <1>3, <1>5
<1>6. CASE c = s.coin /\ ~OnCooldown(s.coin)
  BY <1>1, <1>3, <1>6 DEF OnCooldown
<1> QED BY <1>4, <1>5, <1>6

LEMMA EnterCooldown ==
  ASSUME TypeOK, TypeOK', BookInv, CooldownInv, NEW s \in signals, Enter(s)
  PROVE  CooldownInv'
<1>1. /\ Decide(s) /\ Accepts(s)
      /\ IF price[s.coin] > 0 THEN positions' = Append(positions, Opened(s))
                              ELSE positions' = positions
  BY EnterOpens
<1>2. /\ UNCHANGED <<now, closed>>
      /\ \A c \in Coins : cooldown'[c] >= cooldown[c] \/ now >= cooldown[c]
  BY <1>1, DecideCooldown DEF Decide
<1>3. now' >= now
  BY <1>2 DEF TypeOK
<1>4. CASE ~(price[s.coin] > 0)
  BY <1>1, <1>2, <1>3, <1>4, CooldownStays
<1>5. CASE price[s.coin] > 0
  <2> DEFINE n == Len(positions)
  <2>1. Opened(s).coin = s.coin /\ Opened(s).at = now
    BY <1>1, <1>5, DecideType, OpenedType
  <2>2. positions \in Seq(Positions) /\ n \in Nat /\ DOMAIN positions = 1..n
    BY DEF TypeOK
  <2>3. /\ DOMAIN positions' = 1..n + 1 /\ positions'[n + 1] = Opened(s)
        /\ \A k \in 1..n : positions'[k] = positions[k]
        /\ \A k \in 1..n + 1 : k \in 1..n \/ k = n + 1
    BY <1>1, <1>5, <2>2
  <2> HIDE DEF n
  <2>4. CooldownNoted'
    BY <1>2, <1>3, NotedStays DEF CooldownInv
  <2>5. CooldownKept'
    <3> SUFFICES ASSUME NEW i \in DOMAIN closed, AtLevel(closed[i]),
                        NEW j \in 1..n + 1, positions'[j].coin = closed[i].coin
                 PROVE  positions'[j].at >= closed[i].exit + Cooldown
      BY <1>2, <2>3 DEF CooldownInv, CooldownKept
    <3>1. CASE j \in 1..n
      BY <2>2, <2>3, <3>1 DEF CooldownInv, CooldownKept
    <3>2. CASE j = n + 1
      <4> DEFINE c == closed[i].coin
                 e == closed[i].exit
      <4>1. c \in Coins /\ e \in Nat /\ cooldown[c] \in Nat /\ now \in Nat
        BY ExitsTyped DEF TypeOK
      <4>2. cooldown[c] >= e + Cooldown \/ now >= e + Cooldown
        BY DEF CooldownInv, CooldownNoted
      <4>3. c = s.coin /\ ~(now < cooldown[c])
        BY <1>1, <2>1, <2>3, <3>2 DEF Accepts, OnCooldown
      <4>4. positions'[j].at = now
        BY <2>1, <2>3, <3>2
      <4> HIDE DEF c, e
      <4>5. now >= e + Cooldown
        BY <4>1, <4>2, <4>3, CooldownsNat
      <4> QED BY <4>4, <4>5 DEF e
    <3> QED BY <2>3, <3>1, <3>2
  <2> QED BY <2>4, <2>5 DEF CooldownInv
<1> QED BY <1>4, <1>5

(* The end of the data appends one exit, not at a level, for each position. *)
LEMMA EndCloses ==
  ASSUME TypeOK, EndOfData
  PROVE  LET n == Len(closed)
             m == Len(positions)
         IN /\ n \in Nat /\ m \in Nat /\ DOMAIN closed = 1..n /\ DOMAIN positions = 1..m
            /\ DOMAIN closed' = 1..n + m /\ Len(closed') = n + m
            /\ \A i \in 1..n : closed'[i] = closed[i]
            /\ \A k \in 1..m :
                  LET x == closed'[n + k] IN
                  /\ x.coin = positions[k].coin /\ x.at = positions[k].at
                  /\ x.exit = now /\ x.reason = "END_OF_DATA"
            /\ \A i \in 1..n + m : i \in 1..n \/ \E k \in 1..m : i = n + k
<1> DEFINE n == Len(closed)
           m == Len(positions)
           last == [i \in DOMAIN positions |-> Closed(positions[i], "END_OF_DATA")]
<1>1. closed' = closed \o last
  BY DEF EndOfData
<1>2. /\ closed \in Seq(Exits) /\ positions \in Seq(Positions) /\ now \in Nat
      /\ n \in Nat /\ m \in Nat /\ DOMAIN closed = 1..n /\ DOMAIN positions = 1..m
  BY DEF TypeOK
<1>3. ASSUME NEW k \in 1..m
      PROVE  /\ last[k] \in Exits
             /\ last[k].coin = positions[k].coin /\ last[k].at = positions[k].at
             /\ last[k].exit = now /\ last[k].reason = "END_OF_DATA"
  <2>1. positions[k] \in Positions /\ last[k] = Closed(positions[k], "END_OF_DATA")
    BY <1>2
  <2> HIDE DEF last
  <2> QED BY <1>2, <2>1, ClosedType
<1>4. last \in Seq(Exits) /\ Len(last) = m
  <2>1. last = [i \in 1..m |-> last[i]]
    BY <1>2
  <2> HIDE DEF last, m
  <2> QED BY <1>2, <1>3, <2>1
<1> HIDE DEF last, n, m
<1>5. /\ closed \o last \in Seq(Exits) /\ Len(closed \o last) = n + m
      /\ \A i \in 1..n + m : (closed \o last)[i] = IF i <= n THEN closed[i] ELSE last[i - n]
  BY <1>2, <1>4, ConcatProperties DEF n
<1>6. DOMAIN closed' = 1..n + m /\ Len(closed') = n + m
  BY <1>1, <1>5
<1>10. \A i \in 1..n + m : closed'[i] = IF i <= n THEN closed[i] ELSE last[i - n]
  BY <1>1, <1>5
<1>7. ASSUME NEW i \in 1..n PROVE closed'[i] = closed[i]
  <2>1. i \in 1..n + m /\ i <= n
    BY <1>2
  <2> QED BY <1>10, <2>1
<1>8. ASSUME NEW k \in 1..m PROVE closed'[n + k] = last[k]
  <2> DEFINE i == n + k
  <2>1. i \in 1..n + m /\ ~(i <= n) /\ i - n = k
    BY <1>2
  <2> HIDE DEF i
  <2>2. closed'[i] = last[i - n]
    BY <1>10, <2>1
  <2> QED BY <2>1, <2>2 DEF i
<1>9. ASSUME NEW i \in 1..n + m PROVE i \in 1..n \/ \E k \in 1..m : i = n + k
  <2>1. CASE i <= n
    BY <1>2, <2>1
  <2>2. CASE ~(i <= n)
    <3>1. i - n \in 1..m /\ i = n + (i - n)
      BY <1>2, <2>2
    <3> QED BY <3>1
  <2> QED BY <2>1, <2>2
<1> QED BY <1>2, <1>3, <1>6, <1>7, <1>8, <1>9 DEF n, m

LEMMA EndCooldown ==
  ASSUME TypeOK, TypeOK', CooldownInv, EndOfData PROVE CooldownInv'
<1> DEFINE n == Len(closed)
           m == Len(positions)
<1>1. /\ n \in Nat /\ m \in Nat /\ DOMAIN closed = 1..n /\ DOMAIN positions = 1..m
      /\ DOMAIN closed' = 1..n + m /\ Len(closed') = n + m
      /\ \A i \in 1..n : closed'[i] = closed[i]
      /\ \A k \in 1..m : /\ closed'[n + k].coin = positions[k].coin
                         /\ closed'[n + k].at = positions[k].at
                         /\ closed'[n + k].exit = now
                         /\ closed'[n + k].reason = "END_OF_DATA"
      /\ \A i \in 1..n + m : i \in 1..n \/ \E k \in 1..m : i = n + k
  BY EndCloses
<1>2. positions' = << >> /\ UNCHANGED <<now, cooldown>> /\ now \in Nat
  BY DEF EndOfData, policy, TypeOK
<1>3. \A i \in 1..n + m : AtLevel(closed'[i]) => i \in 1..n
  BY <1>1 DEF AtLevel
<1>4. CooldownNoted'
  <2> SUFFICES ASSUME NEW i \in 1..n + m
               PROVE  /\ closed'[i].exit <= now
                      /\ AtLevel(closed'[i]) =>
                           \/ cooldown[closed'[i].coin] >= closed'[i].exit + Cooldown
                           \/ now >= closed'[i].exit + Cooldown
    BY <1>1, <1>2 DEF CooldownNoted, AtLevel
  <2>1. CASE i \in 1..n
    BY <1>1, <2>1 DEF CooldownInv, CooldownNoted
  <2>2. CASE \E k \in 1..m : i = n + k
    <3>1. closed'[i].exit = now /\ ~AtLevel(closed'[i])
      BY <1>1, <2>2 DEF AtLevel
    <3> QED BY <1>2, <3>1
  <2> QED BY <1>1, <2>1, <2>2
<1>5. CooldownKept'
  <2> SUFFICES ASSUME NEW i \in 1..n, AtLevel(closed[i]), NEW j \in i + 1..n + m,
                      closed'[j].coin = closed[i].coin
               PROVE  closed'[j].at >= closed[i].exit + Cooldown
    <3>1. DOMAIN positions' = {}
      BY <1>2
    <3>2. \A i \in 1..n : closed'[i] = closed[i]
      BY <1>1
    <3>3. DOMAIN closed' = 1..n + m /\ Len(closed') = n + m
      BY <1>1
    <3> HIDE DEF n, m
    <3> QED BY <1>3, <3>1, <3>2, <3>3 DEF CooldownKept, AtLevel
  <2>1. /\ \A k \in 1..m : positions[k].coin = closed[i].coin
                           => positions[k].at >= closed[i].exit + Cooldown
        /\ \A k \in i + 1..n : closed[k].coin = closed[i].coin
                           => closed[k].at >= closed[i].exit + Cooldown
    BY <1>1 DEF CooldownInv, CooldownKept
  <2> HIDE DEF n, m
  <2>2. j \in 1..n + m
    BY <1>1
  <2>3. CASE j \in 1..n
    <3>1. j \in i + 1..n
      BY <1>1, <2>3
    <3> QED BY <1>1, <2>1, <2>3, <3>1
  <2>4. CASE \E k \in 1..m : j = n + k
    <3>1. PICK k \in 1..m : j = n + k
      BY <2>4
    <3>2. closed'[j].coin = positions[k].coin /\ closed'[j].at = positions[k].at
      BY <1>1, <3>1
    <3> QED BY <2>1, <3>2
  <2> QED BY <1>1, <2>2, <2>3, <2>4
<1> QED BY <1>4, <1>5 DEF CooldownInv

LEMMA NextCooldown ==
  ASSUME TypeOK, TypeOK', BookInv, CooldownInv, [Next]_vars PROVE CooldownInv'
<1>0. now \in Nat /\ \A c \in Coins : cooldown[c] \in Nat
  BY DEF TypeOK
<1>1. CASE \E e \in Feed : ReceiveEvent(e)
  <2>1. PICK e \in Feed : ReceiveEvent(e)
    BY <1>1
  <2>2. UNCHANGED <<now, closed, cooldown>>
    BY <2>1 DEF ReceiveEvent, policy
  <2>3. /\ DOMAIN positions' = DOMAIN positions
        /\ \A i \in DOMAIN positions' : /\ positions'[i].coin = positions[i].coin
                                        /\ positions'[i].at = positions[i].at
    <3>1. CASE e.type = "trade"
      BY <2>1, <3>1, TradeMarks
    <3>2. CASE e.type # "trade"
      BY <2>1, <3>2 DEF ReceiveEvent
    <3> QED BY <3>1, <3>2
  <2>4. now' >= now /\ \A c \in Coins : cooldown'[c] >= cooldown[c]
    BY <1>0, <2>2
  <2> QED BY <2>2, <2>3, <2>4, CooldownStays
<1>2. CASE ClosePosition
  BY <1>2, CloseCooldown
<1>3. CASE \E s \in signals : Skip(s)
  <2>1. PICK s \in signals : Decide(s) /\ positions' = positions
    BY <1>3 DEF Skip
  <2>2. UNCHANGED <<now, closed>> /\ now' >= now
    BY <1>0, <2>1 DEF Decide
  <2>3. \A c \in Coins : cooldown'[c] >= cooldown[c] \/ now >= cooldown[c]
    BY <2>1, DecideCooldown
  <2> QED BY <2>1, <2>2, <2>3, CooldownStays
<1>4. CASE \E s \in signals : Enter(s)
  BY <1>4, EnterCooldown
<1>5. CASE EndOfData
  BY <1>5, EndCooldown
<1>6. CASE BeginScan \/ EndScan \/ Tick \/ UNCHANGED vars \/ \E c \in Coins : ScanCoin(c)
  <2>1. UNCHANGED <<closed, cooldown, positions>>
    BY <1>6 DEF BeginScan, EndScan, Tick, vars, ScanCoin, book, policy
  <2>2. now' = now \/ now' = now + 1
    BY <1>6 DEF BeginScan, EndScan, Tick, vars, ScanCoin
  <2>3. now' >= now /\ \A c \in Coins : cooldown'[c] >= cooldown[c]
    BY <1>0, <2>1, <2>2
  <2> QED BY <2>1, <2>3, CooldownStays
<1> QED BY <1>1, <1>2, <1>3, <1>4, <1>5, <1>6 DEF Next

LEMMA InitCooldown == Init => CooldownInv
BY DEF Init, CooldownInv, CooldownNoted, CooldownKept

(* CooldownKept: after an exit at a level the coin is not entered again     *)
(* before the cooldown has passed, by the times of the positions            *)
(* (PolicyEngine.register_exit and evaluate).                               *)
THEOREM CooldownsAreKept == Spec => []CooldownKept
<1>1. Init => CooldownInv
  BY InitCooldown
<1>2. TypeOK /\ BookInv /\ TypeOK' /\ CooldownInv /\ [Next]_vars => CooldownInv'
  BY NextCooldown
<1>3. CooldownInv => CooldownKept
  BY DEF CooldownInv
<1> QED BY <1>1, <1>2, <1>3, BookAlways, PTL DEF Spec

-----------------------------------------------------------------------------
(* The stop-loss guard.                                                     *)

GuardInv == StopsNoted /\ GuardOpen

Later(t) == {u \in Nat : u > t - SlWindow}
StoppedLater(t) == {x \in Exits : x.reason = "SL" /\ x.exit > t - SlWindow}

LEMMA PlacesAppended ==
  ASSUME NEW V, NEW list \in Seq(V), NEW x \in V, NEW U
  PROVE  Cardinality(PlacesOf(Append(list, x), U))
            = Cardinality(PlacesOf(list, U)) + (IF x \in U THEN 1 ELSE 0)
<1> DEFINE n == Len(list)
           A == PlacesOf(list, U)
           B == PlacesOf(Append(list, x), U)
<1>1. /\ n \in Nat /\ DOMAIN list = 1..n /\ DOMAIN Append(list, x) = 1..n + 1
      /\ Append(list, x)[n + 1] = x
      /\ \A i \in 1..n : Append(list, x)[i] = list[i]
  OBVIOUS
<1> HIDE DEF n
<1>2. \A i \in 1..n + 1 : i \in 1..n \/ i = n + 1
  BY <1>1
<1>3. IsFiniteSet(A) /\ Cardinality(A) \in Nat /\ n + 1 \notin A
  <2>1. IsFiniteSet(A)
    BY PlacesFinite
  <2>2. n + 1 \notin A
    BY <1>1 DEF PlacesOf
  <2> HIDE DEF A
  <2> QED BY <2>1, <2>2, FS_CardinalityType
<1>4. CASE x \in U
  <2>1. B = A \cup {n + 1}
    BY <1>1, <1>2, <1>4 DEF PlacesOf
  <2> HIDE DEF A, B
  <2>2. Cardinality(B) = Cardinality(A) + 1
    BY <1>3, <2>1, FS_AddElement
  <2> QED BY <1>4, <2>2 DEF A, B
<1>5. CASE x \notin U
  <2>1. B = A
    BY <1>1, <1>2, <1>5 DEF PlacesOf
  <2> HIDE DEF A, B
  <2>2. Cardinality(B) = Cardinality(A) + 0
    BY <1>3, <2>1
  <2> QED BY <1>5, <2>2 DEF A, B
<1> QED BY <1>4, <1>5

LEMMA AsPlaces ==
  ASSUME TypeOK, NEW t
  PROVE  StopsAt(t) = PlacesOf(closed, StoppedLater(t)) /\ NotedAt(t) = PlacesOf(slTimes, Later(t))
<1>1. \A i \in DOMAIN closed : closed[i] \in Exits
  BY DEF TypeOK
<1>2. \A i \in DOMAIN slTimes : slTimes[i] \in Nat
  BY DEF TypeOK
<1> QED BY <1>1, <1>2 DEF StopsAt, NotedAt, PlacesOf, StoppedLater, Later

LEMMA CloseGuard ==
  ASSUME TypeOK, TypeOK', BookInv, GuardInv, ClosePosition PROVE GuardInv'
<1> DEFINE p == Head(closing)
<1>1. PICK reason \in {"SL", "TP"} :
        LET x == Closed(p, reason)
        IN /\ x \in Exits /\ x.exit = now /\ x.reason = reason /\ closed' = Append(closed, x)
           /\ slTimes' = IF reason = "SL" THEN Trimmed ELSE slTimes
  BY CloseRecords
<1> DEFINE x == Closed(p, reason)
<1>2. /\ x \in Exits /\ x.exit = now /\ x.reason = reason /\ closed' = Append(closed, x)
      /\ slTimes' = IF reason = "SL" THEN Trimmed ELSE slTimes
      /\ now' = now /\ now \in Nat /\ stage' = "close"
  BY <1>1 DEF ClosePosition, TypeOK
<1> HIDE DEF p, x
<1>3. GuardOpen'
  BY <1>2 DEF GuardOpen
<1>4. StopsNoted'
  <2> SUFFICES ASSUME NEW t \in Nat, t >= now
               PROVE  Cardinality(StopsAt(t)') = Cardinality(NotedAt(t)')
    BY <1>2 DEF StopsNoted
  <2>1. Cardinality(StopsAt(t)) = Cardinality(NotedAt(t))
    BY DEF GuardInv, StopsNoted
  <2>2. closed \in Seq(Exits) /\ slTimes \in Seq(Nat)
    BY DEF TypeOK
  <2>3. Cardinality(StopsAt(t)') = Cardinality(StopsAt(t))
                                     + (IF x \in StoppedLater(t) THEN 1 ELSE 0)
    <3>1. StopsAt(t)' = PlacesOf(Append(closed, x), StoppedLater(t))
      <4>1. \A i \in DOMAIN closed' : closed'[i] \in Exits
        BY DEF TypeOK
      <4> QED BY <1>2, <4>1 DEF StopsAt, PlacesOf, StoppedLater
    <3> QED BY <1>2, <2>2, <3>1, AsPlaces, PlacesAppended
  <2>4. CASE reason = "TP"
    <3>1. x \notin StoppedLater(t) /\ slTimes' = slTimes
      BY <1>2, <2>4 DEF StoppedLater
    <3>2. NotedAt(t)' = NotedAt(t)
      BY <3>1 DEF NotedAt
    <3>3. Cardinality(StopsAt(t)) \in Nat
      BY <2>2, AsPlaces, PlacesFinite, FS_CardinalityType
    <3> QED BY <2>1, <2>3, <3>1, <3>2, <3>3
  <2>5. CASE reason = "SL"
    <3> DEFINE times == Append(slTimes, now)
               S == {u \in Range(times) : u > now - SlWindow}
    <3>1. times \in Seq(Nat)
      BY <1>2, <2>2
    <3>2. slTimes' = Only(times, S)
      BY <1>2, <2>5 DEF Trimmed
    <3>3. x \in StoppedLater(t) <=> now \in Later(t)
      BY <1>2, <2>5 DEF StoppedLater, Later
    <3>4. PlacesOf(times, S \cap Later(t)) = PlacesOf(times, Later(t))
      <4>1. ASSUME NEW i \in DOMAIN times, times[i] \in Later(t) PROVE times[i] \in S
        <5>1. times[i] \in Nat /\ times[i] > t - SlWindow
          BY <4>1 DEF Later
        <5>2. times[i] > now - SlWindow
          BY <1>2, <5>1, CooldownsNat
        <5> QED BY <5>2 DEF Range
      <4> HIDE DEF times, S
      <4> QED BY <4>1 DEF PlacesOf
    <3> HIDE DEF S
    <3>5. Cardinality(PlacesOf(slTimes', Later(t))) = Cardinality(PlacesOf(times, Later(t)))
      <4> HIDE DEF times
      <4> QED BY <3>1, <3>2, <3>4, OnlyKeeps
    <3>6. Cardinality(PlacesOf(times, Later(t)))
            = Cardinality(PlacesOf(slTimes, Later(t))) + (IF now \in Later(t) THEN 1 ELSE 0)
      <4>1. slTimes \in Seq(Nat) /\ now \in Nat
        BY <1>2, <2>2
      <4>2. \A U : Cardinality(PlacesOf(Append(slTimes, now), U))
                     = Cardinality(PlacesOf(slTimes, U)) + (IF now \in U THEN 1 ELSE 0)
        BY <4>1, PlacesAppended
      <4> QED BY <4>2
    <3>7. NotedAt(t)' = PlacesOf(slTimes', Later(t))
      <4>1. \A i \in DOMAIN slTimes' : slTimes'[i] \in Nat
        BY DEF TypeOK
      <4> QED BY <4>1 DEF NotedAt, PlacesOf, Later
    <3>8. NotedAt(t) = PlacesOf(slTimes, Later(t))
      BY AsPlaces
    <3> HIDE DEF times
    <3> QED BY <2>1, <2>3, <3>3, <3>5, <3>6, <3>7, <3>8
  <2> QED BY <2>4, <2>5
<1> QED BY <1>3, <1>4 DEF GuardInv

(* As time passes, fewer exits are in the window.                           *)
LEMMA GuardStays ==
  ASSUME TypeOK, TypeOK', GuardInv, now' >= now,
         \A t : StopsAt(t)' = StopsAt(t), slTimes' = slTimes,
         stage' = "scan" => Cardinality(InWindow) < MaxSlPerWindow
  PROVE  GuardInv'
<1>0. now \in Nat /\ now' \in Nat /\ SlWindow \in Nat
  BY CooldownsNat DEF TypeOK
<1>1. StopsNoted'
  <2> SUFFICES ASSUME NEW t \in Nat, t >= now'
               PROVE  Cardinality(StopsAt(t)') = Cardinality(NotedAt(t)')
    BY DEF StopsNoted
  <2>1. t >= now
    BY <1>0
  <2>2. NotedAt(t)' = NotedAt(t)
    BY DEF NotedAt
  <2>3. StopsAt(t)' = StopsAt(t)
    OBVIOUS
  <2> QED BY <2>1, <2>2, <2>3 DEF GuardInv, StopsNoted
<1>2. GuardOpen'
  <2> SUFFICES ASSUME stage' = "scan" PROVE Cardinality(InWindow') < MaxSlPerWindow
    BY DEF GuardOpen
  <2>1. InWindow = PlacesOf(slTimes, Later(now)) /\ slTimes \in Seq(Nat)
    BY AsPlaces DEF InWindow, NotedAt, TypeOK
  <2>2. IsFiniteSet(InWindow)
    BY <2>1, PlacesFinite
  <2>3. InWindow' \in SUBSET InWindow
    <3> SUFFICES ASSUME NEW i \in DOMAIN slTimes, slTimes[i] > now' - SlWindow
                 PROVE  slTimes[i] > now - SlWindow
      BY DEF InWindow
    <3>1. slTimes[i] \in Nat
      BY <2>1
    <3> QED BY <1>0, <3>1
  <2> HIDE DEF InWindow
  <2>4. Cardinality(InWindow') <= Cardinality(InWindow)
    BY <2>2, <2>3, FS_Subset
  <2>5. Cardinality(InWindow) \in Nat /\ Cardinality(InWindow') \in Nat /\ MaxSlPerWindow \in Nat
    BY <2>2, <2>3, FS_Subset, FS_CardinalityType, EngineAssumption
  <2> QED BY <2>4, <2>5
<1> QED BY <1>1, <1>2 DEF GuardInv

LEMMA NextGuard ==
  ASSUME TypeOK, TypeOK', BookInv, GuardInv, [Next]_vars PROVE GuardInv'
<1>0. now \in Nat /\ IsFiniteSet(InWindow) /\ Cardinality(InWindow) \in Nat
      /\ MaxSlPerWindow \in Nat
  <2>1. InWindow = PlacesOf(slTimes, Later(now)) /\ slTimes \in Seq(Nat)
    BY AsPlaces DEF InWindow, NotedAt, TypeOK
  <2>2. IsFiniteSet(InWindow)
    BY <2>1, PlacesFinite
  <2> QED BY <2>2, FS_CardinalityType, EngineAssumption DEF TypeOK
<1>1. CASE ClosePosition
  BY <1>1, CloseGuard
<1>2. CASE EndOfData
  <2> DEFINE n == Len(closed)
             m == Len(positions)
  <2>1. /\ n \in Nat /\ m \in Nat /\ DOMAIN closed = 1..n /\ DOMAIN closed' = 1..n + m
        /\ \A i \in 1..n : closed'[i] = closed[i]
        /\ \A k \in 1..m : closed'[n + k].reason = "END_OF_DATA"
        /\ \A i \in 1..n + m : i \in 1..n \/ \E k \in 1..m : i = n + k
    BY <1>2, EndCloses
  <2> HIDE DEF n, m
  <2>2. ASSUME NEW t PROVE StopsAt(t)' = StopsAt(t)
    <3>1. \A i \in 1..n : i \in 1..n + m
      BY <2>1
    <3>2. \A i \in 1..n + m : closed'[i].reason = "SL" => i \in 1..n
      BY <2>1
    <3> QED BY <2>1, <3>1, <3>2 DEF StopsAt
  <2>3. stage' = "over" /\ UNCHANGED <<now, slTimes>>
    BY <1>2 DEF EndOfData, results
  <2> QED BY <1>0, <2>2, <2>3, GuardStays
<1>3. CASE BeginScan
  <2>1. UNCHANGED <<now, closed, slTimes>>
    BY <1>3 DEF BeginScan, book, results
  <2>2. stage' = "scan" => ~SlGuardActive
    BY <1>3 DEF BeginScan
  <2>3. stage' = "scan" => Cardinality(InWindow) < MaxSlPerWindow
    BY <1>0, <2>2 DEF SlGuardActive
  <2>4. \A t : StopsAt(t)' = StopsAt(t)
    BY <2>1 DEF StopsAt
  <2> QED BY <1>0, <2>1, <2>3, <2>4, GuardStays
<1>4. CASE \/ \E e \in Feed : ReceiveEvent(e)
           \/ \E c \in Coins : ScanCoin(c)
           \/ \E s \in signals : Skip(s) \/ Enter(s)
           \/ EndScan \/ Tick \/ UNCHANGED vars
  <2>1. UNCHANGED <<closed, slTimes>>
    BY <1>4 DEF ReceiveEvent, ScanCoin, Skip, Enter, Decide, EndScan, Tick, vars, book, results
  <2>2. stage' = "scan" => stage = "scan"
    BY <1>4 DEF ReceiveEvent, ScanCoin, Skip, Enter, Decide, EndScan, Tick, vars
  <2>3. now' = now \/ now' = now + 1
    BY <1>4 DEF ReceiveEvent, ScanCoin, Skip, Enter, Decide, EndScan, Tick, vars
  <2>4. \A t : StopsAt(t)' = StopsAt(t)
    BY <2>1 DEF StopsAt
  <2>5. stage' = "scan" => Cardinality(InWindow) < MaxSlPerWindow
    BY <2>2 DEF GuardInv, GuardOpen
  <2>6. now' >= now
    BY <1>0, <2>3
  <2> QED BY <2>1, <2>4, <2>5, <2>6, GuardStays
<1> QED BY <1>1, <1>2, <1>3, <1>4 DEF Next

LEMMA InitGuard == Init => GuardInv
<1> SUFFICES ASSUME Init PROVE GuardInv
  OBVIOUS
<1>1. \A t \in Nat : StopsAt(t) = {} /\ NotedAt(t) = {}
  BY DEF Init, StopsAt, NotedAt
<1>2. stage # "scan"
  BY DEF Init
<1> QED BY <1>1, <1>2 DEF GuardInv, StopsNoted, GuardOpen

LEMMA GuardAlways == Spec => []GuardInv
<1>1. TypeOK /\ BookInv /\ TypeOK' /\ GuardInv /\ [Next]_vars => GuardInv'
  BY NextGuard
<1> QED BY <1>1, InitGuard, BookAlways, PTL DEF Spec

(* GuardKept: no position is entered while the window holds MaxSlPerWindow  *)
(* exits by a stop-loss, by the times of the closed positions               *)
(* (RiskManager.is_sl_guard_active, asked by FullReplay before a scan).     *)
THEOREM GuardIsKept == Spec => GuardKept
<1>1. ASSUME TypeOK, BookInv, GuardInv, Next, Len(positions') > Len(positions)
      PROVE  Cardinality(StopsAt(now)) < MaxSlPerWindow
  <2>0. positions \in Seq(Positions) /\ Len(positions) \in Nat
    BY <1>1 DEF TypeOK
  <2>1. CASE \E s \in signals : Enter(s)
    <3>1. stage = "scan"
      BY <2>1 DEF Enter, Decide
    <3>2. Cardinality(InWindow) < MaxSlPerWindow
      BY <1>1, <3>1 DEF GuardInv, GuardOpen
    <3>3. Cardinality(StopsAt(now)) = Cardinality(NotedAt(now))
      BY <1>1 DEF GuardInv, StopsNoted, TypeOK
    <3>4. NotedAt(now) = InWindow
      BY DEF NotedAt, InWindow
    <3> QED BY <3>2, <3>3, <3>4
  <2>2. CASE \E e \in Feed : ReceiveEvent(e)
    <3>1. PICK e \in Feed : ReceiveEvent(e)
      BY <2>2
    <3>2. CASE e.type = "trade"
      BY <1>1, <2>0, <3>1, <3>2, TradeMarks
    <3>3. CASE e.type # "trade"
      BY <1>1, <2>0, <3>1, <3>3 DEF ReceiveEvent
    <3> QED BY <3>2, <3>3
  <2>3. CASE ClosePosition
    <3>1. Len(positions') = Len(positions) - 1
      BY <1>1, <2>3, CloseRemoves
    <3> QED BY <1>1, <2>0, <3>1
  <2>4. CASE EndOfData
    <3>1. Len(positions') = 0
      BY <2>4 DEF EndOfData
    <3> QED BY <1>1, <2>0, <3>1
  <2>5. CASE \/ BeginScan \/ EndScan \/ Tick
             \/ \E c \in Coins : ScanCoin(c)
             \/ \E s \in signals : Skip(s)
    <3>1. positions' = positions
      BY <2>5 DEF BeginScan, EndScan, Tick, ScanCoin, Skip, book
    <3> QED BY <1>1, <2>0, <3>1
  <2> QED BY <1>1, <2>1, <2>2, <2>3, <2>4, <2>5 DEF Next
<1>2. TypeOK /\ BookInv /\ GuardInv /\ [Next]_vars =>
        [Len(positions') > Len(positions) =>
          Cardinality({i \in DOMAIN closed :
                  closed[i].reason = "SL" /\ closed[i].exit > now - SlWindow})
              < MaxSlPerWindow]_vars
  BY <1>1 DEF StopsAt
<1> QED BY <1>2, BookAlways, GuardAlways, PTL DEF Spec, GuardKept

-----------------------------------------------------------------------------
(* The money that the policy counts.                                        *)

Usd(list) == [i \in DOMAIN list |-> list[i].usd]

LEMMA SumUsdIs ==
  ASSUME NEW list \in Seq(Positions)
  PROVE  /\ SumUsd(list) = SumFunctionOnSet(Usd(list), 1..Len(list))
         /\ SumUsd(list) \in Nat
         /\ IsFiniteSet(1..Len(list))
         /\ \A i \in 1..Len(list) : Usd(list)[i] = list[i].usd /\ list[i].usd \in Nat
<1> DEFINE n == Len(list)
<1>1. n \in Nat /\ DOMAIN list = 1..n /\ \A i \in 1..n : list[i] \in Positions
  OBVIOUS
<1>2. SumUsd(list) = SumFunctionOnSet(Usd(list), 1..n)
  BY <1>1 DEF SumUsd, SumFunction, Usd
<1> HIDE DEF n
<1>3. \A i \in 1..n : Usd(list)[i] = list[i].usd /\ list[i].usd \in Nat
  BY <1>1 DEF Usd, Positions
<1>4. IsFiniteSet(1..n)
  BY <1>1, IntervalSize
<1>5. SumFunctionOnSet(Usd(list), 1..n) \in Nat
  BY <1>3, <1>4, SumNat
<1> QED BY <1>2, <1>3, <1>4, <1>5 DEF n

LEMMA SumUsdAppended ==
  ASSUME NEW list \in Seq(Positions), NEW p \in Positions
  PROVE  SumUsd(Append(list, p)) = SumUsd(list) + p.usd
<1> DEFINE n == Len(list)
           more == Append(list, p)
<1>1. /\ more \in Seq(Positions) /\ Len(more) = n + 1 /\ n \in Nat
      /\ more[n + 1] = p /\ \A i \in 1..n : more[i] = list[i]
  OBVIOUS
<1> HIDE DEF n, more
<1>2. /\ SumUsd(more) = SumFunctionOnSet(Usd(more), 1..n + 1)
      /\ \A i \in 1..n + 1 : Usd(more)[i] = more[i].usd /\ more[i].usd \in Nat
  BY <1>1, SumUsdIs
<1>3. /\ SumUsd(list) = SumFunctionOnSet(Usd(list), 1..n)
      /\ \A i \in 1..n : Usd(list)[i] = list[i].usd
  BY SumUsdIs DEF n
<1>4. (\A i \in 1..n + 1 : Usd(more)[i] \in Int) /\ Usd(more)[n + 1] = p.usd
  <2>1. n + 1 \in 1..n + 1
    BY <1>1
  <2> QED BY <1>1, <1>2, <2>1
<1>5. \A i \in 1..n : Usd(list)[i] = Usd(more)[i]
  <2>1. \A i \in 1..n : i \in 1..n + 1
    BY <1>1
  <2> QED BY <1>1, <1>2, <1>3, <2>1
<1>6. SumFunctionOnSet(Usd(more), 1..n + 1) = SumFunctionOnSet(Usd(list), 1..n) + Usd(more)[n + 1]
  BY <1>1, <1>4, <1>5, SumAppended
<1> QED BY <1>2, <1>3, <1>4, <1>6 DEF more

(* list without the element at d.                                           *)
LEMMA SumUsdRemoved ==
  ASSUME NEW list \in Seq(Positions), NEW d \in 1..Len(list),
         NEW less \in Seq(Positions), Len(less) = Len(list) - 1,
         \A i \in 1..Len(less) : less[i] = list[Gap(d, i)]
  PROVE  SumUsd(list) = list[d].usd + SumUsd(less)
<1> DEFINE n == Len(list)
           E == (1..n) \ {d}
           h == [i \in 1..n - 1 |-> Gap(d, i)]
<1>1. n \in Nat /\ d \in 1..n /\ Len(less) = n - 1 /\ n - 1 \in Nat
  OBVIOUS
<1>2. /\ SumUsd(list) = SumFunctionOnSet(Usd(list), 1..n) /\ IsFiniteSet(1..n)
      /\ \A i \in 1..n : Usd(list)[i] = list[i].usd /\ list[i].usd \in Nat
  BY SumUsdIs
<1>3. /\ SumUsd(less) = SumFunctionOnSet(Usd(less), 1..n - 1) /\ IsFiniteSet(1..n - 1)
      /\ \A i \in 1..n - 1 : Usd(less)[i] = less[i].usd /\ less[i].usd \in Nat
  <2> HIDE DEF n
  <2> QED BY <1>1, SumUsdIs
<1>4. \A i \in 1..n - 1 : less[i] = list[Gap(d, i)]
  OBVIOUS
<1> HIDE DEF n
<1>5. IsFiniteSet(E)
  BY <1>2, FS_Subset
<1>6. SumFunctionOnSet(Usd(list), 1..n) = Usd(list)[d] + SumFunctionOnSet(Usd(list), E)
  <2> DEFINE D == 1..n
             f == Usd(list)
  <2>1. IsFiniteSet(D) /\ d \in D /\ \A i \in D : f[i] \in Int
    BY <1>1, <1>2
  <2> HIDE DEF D, f
  <2>2. SumFunctionOnSet(f, D) = f[d] + SumFunctionOnSet(f, D \ {d})
    BY <2>1, SumSplit
  <2> QED BY <2>2 DEF D, f
<1>7. /\ \A i \in 1..n - 1 : h[i] \in E
      /\ \A j \in E : \E i \in 1..n - 1 : h[i] = j
      /\ \A i, j \in 1..n - 1 : h[i] = h[j] => i = j
  <2>1. ASSUME NEW i \in 1..n - 1 PROVE h[i] \in E
    BY <1>1 DEF Gap
  <2>2. ASSUME NEW j \in E PROVE \E i \in 1..n - 1 : h[i] = j
    <3>1. CASE j < d
      <4>1. j \in 1..n - 1 /\ Gap(d, j) = j
        BY <1>1, <3>1 DEF Gap
      <4> QED BY <4>1
    <3>2. CASE ~(j < d)
      <4>1. j - 1 \in 1..n - 1 /\ Gap(d, j - 1) = j
        BY <1>1, <3>2 DEF Gap
      <4> QED BY <4>1
    <3> QED BY <3>1, <3>2
  <2>3. ASSUME NEW i \in 1..n - 1, NEW j \in 1..n - 1, h[i] = h[j] PROVE i = j
    BY <1>1, <2>3 DEF Gap
  <2> QED BY <2>1, <2>2, <2>3
<1>8. \A i \in 1..n - 1 : Usd(less)[i] = Usd(list)[h[i]] /\ Usd(less)[i] \in Int
  BY <1>2, <1>3, <1>4, <1>7
<1> HIDE DEF E, h
<1>9. SumFunctionOnSet(Usd(less), 1..n - 1) = SumFunctionOnSet(Usd(list), E)
  <2> DEFINE D == 1..n - 1
             f == Usd(less)
             g == Usd(list)
  <2>1. /\ IsFiniteSet(D) /\ \A i \in D : f[i] = g[h[i]] /\ f[i] \in Int
        /\ Renames(h, D, E)
    BY <1>3, <1>7, <1>8 DEF Renames
  <2> HIDE DEF D, f, g
  <2>2. SumFunctionOnSet(f, D) = SumFunctionOnSet(g, E)
    BY <1>5, <2>1, SumRename
  <2> QED BY <2>2 DEF D, f, g
<1> QED BY <1>1, <1>2, <1>3, <1>6, <1>9

LEMMA SumUsdFront ==
  ASSUME NEW list \in Seq(Positions), list # << >>
  PROVE  /\ Front(list) \in Seq(Positions) /\ Len(list) \in 1..Len(list)
         /\ SumUsd(list) = SumUsd(Front(list)) + list[Len(list)].usd
<1> DEFINE n == Len(list)
           front == SubSeq(list, 1, n - 1)
           p == list[n]
<1>1. n \in Nat \ {0}
  BY EmptySeq
<1>2. n \in 1..n /\ p \in Positions
  <2>1. n \in 1..n
    <3> HIDE DEF n
    <3> QED BY <1>1
  <2> QED BY <2>1
<1>3. /\ front \in Seq(Positions) /\ Len(front) = n - 1
      /\ \A i \in 1..n - 1 : front[i] = list[i]
  <2>1. \A i \in 1..n : list[i] \in Positions
    OBVIOUS
  <2> HIDE DEF n
  <2>2. n - 1 \in Int /\ 1 \in Int /\ \A i \in 1..n - 1 : list[i] \in Positions
    BY <1>1, <2>1
  <2>3. /\ front \in Seq(Positions)
        /\ Len(front) = IF 1 <= n - 1 THEN n - 1 - 1 + 1 ELSE 0
        /\ \A i \in 1..n - 1 - 1 + 1 : front[i] = list[1 + i - 1]
    BY <2>2, SubSeqProperties
  <2> HIDE DEF front
  <2>4. Len(front) = n - 1 /\ n - 1 - 1 + 1 = n - 1
    BY <1>1, <2>3
  <2>5. ASSUME NEW i \in 1..n - 1 PROVE front[i] = list[i]
    <3>1. 1 + i - 1 = i
      OBVIOUS
    <3> QED BY <2>3, <2>4, <3>1
  <2> QED BY <2>3, <2>4, <2>5
<1>4. Append(front, p) = list
  <2>1. /\ Append(front, p) \in Seq(Positions) /\ Len(Append(front, p)) = n
        /\ \A i \in 1..n : Append(front, p)[i] = list[i]
    <3> HIDE DEF front
    <3>1. /\ Append(front, p) \in Seq(Positions) /\ Len(Append(front, p)) = (n - 1) + 1
          /\ Append(front, p)[(n - 1) + 1] = p
          /\ \A i \in 1..n - 1 : Append(front, p)[i] = front[i]
      BY <1>2, <1>3, AppendProperties
    <3>2. (n - 1) + 1 = n /\ \A i \in 1..n : i \in 1..n - 1 \/ i = n
      <4> HIDE DEF n
      <4> QED BY <1>1
    <3> QED BY <1>3, <3>1, <3>2
  <2> HIDE DEF front, p
  <2> QED BY <2>1, SeqEqual
<1>5. Front(list) = front
  BY DEF Front
<1> HIDE DEF front, p
<1>6. SumUsd(Append(front, p)) = SumUsd(front) + p.usd
  BY <1>2, <1>3, SumUsdAppended
<1> QED BY <1>2, <1>3, <1>4, <1>5, <1>6 DEF p

MoneyInv ==
    /\ stage # "over" => exposure = SumUsd(positions)
    /\ positions # << >> => SumUsd(positions) - positions[Len(positions)].usd < MaxExposure
    /\ Len(positions) <= MaxPositions

LEMMA ReceiveMoney ==
  ASSUME TypeOK, TypeOK', MoneyInv, NEW e \in Feed, ReceiveEvent(e) PROVE MoneyInv'
<1>1. stage = "event" /\ stage' = "close" /\ exposure' = exposure
  BY DEF ReceiveEvent, policy
<1>2. CASE e.type # "trade"
  <2>1. positions' = positions
    BY <1>2 DEF ReceiveEvent
  <2> QED BY <1>1, <2>1 DEF MoneyInv
<1>3. CASE e.type = "trade"
  <2> DEFINE n == Len(positions)
             D == 1..n
             f == Usd(positions)
             g == Usd(positions')
  <2>1. /\ positions \in Seq(Positions) /\ positions' \in Seq(Positions)
        /\ Len(positions') = n /\ n \in Nat
        /\ \A i \in 1..n : positions'[i].usd = positions[i].usd
    <3>1. positions \in Seq(Positions) /\ n \in Nat /\ DOMAIN positions = 1..n
      BY DEF TypeOK
    <3>2. /\ positions' \in Seq(Positions) /\ Len(positions') = n
          /\ \A i \in DOMAIN positions : positions'[i].usd = positions[i].usd
      BY <1>3, TradeMarks
    <3> QED BY <3>1, <3>2
  <2>2. /\ SumUsd(positions) = SumFunctionOnSet(f, D) /\ IsFiniteSet(D)
        /\ SumUsd(positions') = SumFunctionOnSet(g, D)
        /\ \A i \in D : f[i] = g[i] /\ f[i] \in Int
    BY <2>1, SumUsdIs
  <2> HIDE DEF D, f, g
  <2>3. SumUsd(positions') = SumUsd(positions)
    BY <2>2, SumSame
  <2>4. positions' # << >> => positions # << >> /\ positions'[n].usd = positions[n].usd
    <3> SUFFICES ASSUME positions' # << >>
                 PROVE  positions # << >> /\ positions'[n].usd = positions[n].usd
      OBVIOUS
    <3>1. n \in Nat \ {0}
      BY <2>1, EmptySeq
    <3> HIDE DEF n
    <3>2. n \in 1..n
      BY <3>1
    <3>3. n # 0
      BY <3>1
    <3> QED BY <2>1, <3>2, <3>3 DEF n
  <2> QED BY <1>1, <2>1, <2>3, <2>4 DEF MoneyInv
<1> QED BY <1>2, <1>3

LEMMA CloseMoney ==
  ASSUME TypeOK, TypeOK', BookInv, MoneyInv, ClosePosition PROVE MoneyInv'
<1> DEFINE n == Len(positions)
           a == SumUsd(positions)
           b == SumUsd(positions')
<1>1. PICK d \in DOMAIN positions :
        /\ Head(closing) = positions[d]
        /\ Len(positions') = Len(positions) - 1
        /\ \A i \in DOMAIN positions' : positions'[i] = positions[Gap(d, i)]
  BY CloseRemoves
<1>2. /\ exposure' = Max({0, exposure - positions[d].usd})
      /\ stage = "close" /\ stage' = "close"
  BY <1>1 DEF ClosePosition, RegisterExit
<1>3. /\ positions \in Seq(Positions) /\ positions' \in Seq(Positions)
      /\ n \in Nat /\ DOMAIN positions = 1..n /\ DOMAIN positions' = 1..n - 1
      /\ Len(positions') = n - 1 /\ exposure \in Nat
  BY <1>1 DEF TypeOK
<1>4. \A i \in 1..n : positions[i].usd \in Nat
  BY <1>3, PositionsTyped
<1>5. a = positions[d].usd + b
  BY <1>1, <1>3, SumUsdRemoved
<1>6. a \in Nat /\ b \in Nat
  BY <1>3, SumUsdIs
<1>7. exposure = a
  BY <1>2 DEF MoneyInv
<1> HIDE DEF n, a, b
<1>8. positions[d].usd \in Nat /\ d \in 1..n
  BY <1>3, <1>4
<1>9. exposure' = b
  <2>1. exposure - positions[d].usd = b
    BY <1>5, <1>6, <1>7, <1>8
  <2>2. Max({0, b}) = IF 0 >= b THEN 0 ELSE b
    BY <1>6, MaxOf
  <2> QED BY <1>2, <1>6, <2>1, <2>2
<1>10. ASSUME positions' # << >>
       PROVE  b - positions'[n - 1].usd < MaxExposure
  <2>1. n - 1 \in Nat \ {0}
    BY <1>3, <1>10, EmptySeq
  <2>2. positions # << >> /\ n - 1 \in 1..n /\ n \in 1..n
    <3>1. n # 0 /\ n - 1 \in 1..n /\ n \in 1..n
      BY <1>3, <2>1
    <3> QED BY <3>1 DEF n
  <2>3. a - positions[n].usd < MaxExposure
    BY <2>2 DEF MoneyInv, a, n
  <2>4. positions'[n - 1] = positions[Gap(d, n - 1)]
    <3> DEFINE k == n - 1
    <3>1. k \in 1..k
      <4>1. k \in Nat \ {0}
        BY <2>1
      <4> HIDE DEF k
      <4> QED BY <4>1
    <3> QED BY <1>1, <1>3, <3>1
  <2>5. MaxExposure \in Nat
    BY EngineAssumption
  <2> DEFINE u == positions[d].usd
             l == positions[n].usd
             w == positions'[n - 1].usd
  <2>6. u \in Nat /\ l \in Nat /\ w \in Nat
    <3>1. Gap(d, n - 1) \in 1..n
      BY <1>3, <1>8, <2>1 DEF Gap
    <3> QED BY <1>4, <1>8, <2>2, <2>4, <3>1
  <2>7. w = l \/ u = l
    <3>1. CASE d = n
      BY <3>1
    <3>2. CASE d # n
      <4>1. Gap(d, n - 1) = n
        BY <1>3, <1>8, <2>1, <3>2 DEF Gap
      <4> QED BY <2>4, <4>1
    <3> QED BY <3>1, <3>2
  <2>8. a = u + b /\ a - l < MaxExposure
    BY <1>5, <2>3
  <2> HIDE DEF u, l, w
  <2>9. b - w < MaxExposure
    BY <1>6, <2>5, <2>6, <2>7, <2>8
  <2> QED BY <2>9 DEF w
<1>11. Len(positions') <= MaxPositions
  <2>1. n <= MaxPositions /\ MaxPositions \in Nat
    BY EngineAssumption DEF MoneyInv, n
  <2> QED BY <1>3, <2>1
<1> QED BY <1>3, <1>9, <1>10, <1>11 DEF MoneyInv, b

(* One position per coin: the policy's coins count the positions.           *)
LEMMA OpenCount ==
  ASSUME TypeOK, BookInv, stage # "over"
  PROVE  IsFiniteSet(open) /\ Cardinality(open) = Len(positions)
<1> DEFINE n == Len(positions)
           h == [i \in 1..n |-> positions[i].coin]
<1>1. n \in Nat /\ DOMAIN positions = 1..n
  BY DEF TypeOK
<1> HIDE DEF n
<1>2. open = {positions[i].coin : i \in 1..n}
  BY <1>1 DEF BookInv, PolicyKnows
<1>3. \A i, j \in 1..n : positions[i].coin = positions[j].coin => i = j
  BY <1>1 DEF BookInv, OnePerCoin
<1>4. h \in [1..n -> open]
  BY <1>2
<1>5. h \in Bijection(1..n, open)
  <2>1. \A i, j \in 1..n : h[i] = h[j] => i = j
    BY <1>3
  <2>2. \A c \in open : \E i \in 1..n : h[i] = c
    BY <1>2
  <2> HIDE DEF h
  <2> QED BY <1>4, <2>1, <2>2 DEF Bijection, Injection, Surjection, IsInjective
<1>6. IsFiniteSet(1..n) /\ Cardinality(1..n) = n - 1 + 1
  BY <1>1, IntervalSize
<1>7. ExistsBijection(1..n, open)
  BY <1>5 DEF ExistsBijection
<1>8. IsFiniteSet(open) /\ Cardinality(open) = Cardinality(1..n)
  BY <1>6, <1>7, FS_Bijection
<1> QED BY <1>1, <1>6, <1>8 DEF n

LEMMA EnterMoney ==
  ASSUME TypeOK, TypeOK', BookInv, MoneyInv, NEW s \in signals, Enter(s) PROVE MoneyInv'
<1>1. /\ Decide(s) /\ Accepts(s)
      /\ IF price[s.coin] > 0
         THEN positions' = Append(positions, Opened(s)) /\ exposure' = exposure + SizeUsd(s)
         ELSE UNCHANGED <<positions, exposure>>
  BY EnterOpens
<1>2. stage = "scan" /\ stage' = "scan"
  BY <1>1 DEF Decide
<1>3. CASE ~(price[s.coin] > 0)
  BY <1>1, <1>2, <1>3 DEF MoneyInv
<1>4. CASE price[s.coin] > 0
  <2> DEFINE n == Len(positions)
             new == Opened(s)
             a == SumUsd(positions)
  <2>1. new \in Positions /\ new.usd = SizeUsd(s) /\ SizeUsd(s) \in Nat
    BY <1>1, <1>4, DecideType, OpenedType, SizeType
  <2>2. positions \in Seq(Positions) /\ n \in Nat /\ exposure = a
    BY <1>2 DEF TypeOK, MoneyInv
  <2>3. positions' = Append(positions, new) /\ exposure' = exposure + SizeUsd(s)
    BY <1>1, <1>4
  <2> HIDE DEF new, a
  <2>4. SumUsd(positions') = a + SizeUsd(s)
    BY <2>1, <2>2, <2>3, SumUsdAppended DEF a
  <2>5. Len(positions') = n + 1 /\ positions'[n + 1] = new
    BY <2>1, <2>2, <2>3
  <2>6. a \in Nat
    BY <2>2, SumUsdIs DEF a
  <2>7. exposure < MaxExposure /\ Cardinality(open) < MaxPositions
    BY <1>1 DEF Accepts, Admits
  <2>8. Cardinality(open) = n /\ MaxPositions \in Nat /\ MaxExposure \in Nat
    BY <1>2, OpenCount, EngineAssumption
  <2>9. Len(positions') <= MaxPositions
    <3> HIDE DEF n
    <3> QED BY <2>2, <2>5, <2>7, <2>8
  <2>10. SumUsd(positions') - positions'[Len(positions')].usd < MaxExposure
    <3>1. positions'[Len(positions')].usd = SizeUsd(s)
      BY <2>1, <2>5
    <3> DEFINE b == SumUsd(positions')
               u == positions'[Len(positions')].usd
    <3>2. a \in Nat /\ u \in Nat /\ b = a + u
      BY <2>1, <2>4, <2>6, <3>1
    <3> HIDE DEF b, u
    <3>3. b - u = a
      BY <3>2
    <3> QED BY <2>2, <2>7, <3>3 DEF b, u
  <2> QED BY <2>2, <2>3, <2>4, <2>9, <2>10 DEF MoneyInv
<1> QED BY <1>3, <1>4

LEMMA NextMoney ==
  ASSUME TypeOK, TypeOK', BookInv, MoneyInv, [Next]_vars PROVE MoneyInv'
<1>1. CASE \E e \in Feed : ReceiveEvent(e)
  BY <1>1, ReceiveMoney
<1>2. CASE ClosePosition
  BY <1>2, CloseMoney
<1>3. CASE \E s \in signals : Enter(s)
  BY <1>3, EnterMoney
<1>4. CASE EndOfData
  <2>1. positions' = << >> /\ stage' = "over" /\ Len(positions') = 0
    BY <1>4 DEF EndOfData
  <2> QED BY <2>1, EngineAssumption DEF MoneyInv
<1>5. CASE \/ BeginScan \/ EndScan \/ Tick \/ UNCHANGED vars
           \/ \E c \in Coins : ScanCoin(c)
           \/ \E s \in signals : Skip(s)
  <2>1. UNCHANGED <<positions, exposure>>
    BY <1>5 DEF BeginScan, EndScan, Tick, ScanCoin, Skip, vars, book, policy
  <2>2. stage' # "over" => stage # "over"
    BY <1>5 DEF BeginScan, EndScan, Tick, ScanCoin, Skip, Decide, vars
  <2> QED BY <2>1, <2>2 DEF MoneyInv
<1> QED BY <1>1, <1>2, <1>3, <1>4, <1>5 DEF Next

LEMMA InitMoney == Init => MoneyInv
<1> SUFFICES ASSUME Init PROVE MoneyInv
  OBVIOUS
<1>1. positions = << >> /\ exposure = 0 /\ Len(positions) = 0
  BY DEF Init
<1>2. SumUsd(<< >>) = 0
  <2>1. << >> \in Seq(Positions) /\ 1..0 = {} /\ Len(<< >>) = 0
    OBVIOUS
  <2>2. SumUsd(<< >>) = SumFunctionOnSet(Usd(<< >>), {})
    BY <2>1, SumUsdIs
  <2> QED BY <2>2, SumEmpty
<1> QED BY <1>1, <1>2, EngineAssumption DEF MoneyInv

LEMMA MoneyAlways == Spec => []MoneyInv
<1>1. TypeOK /\ BookInv /\ TypeOK' /\ MoneyInv /\ [Next]_vars => MoneyInv'
  BY NextMoney
<1> QED BY <1>1, InitMoney, BookAlways, PTL DEF Spec

(* WithinLimits: the limits of the policy hold of the positions: their      *)
(* number, one per coin, and an exposure that only the latest may carry     *)
(* beyond the limit (PolicyEngine.evaluate, register_entry, register_exit). *)
THEOREM PolicyLimitsHold == Spec => []WithinLimits
<1>1. ASSUME TypeOK, BookInv, MoneyInv PROVE WithinLimits
  <2>1. ASSUME positions # << >> PROVE SumUsd(Front(positions)) < MaxExposure
    <3> DEFINE a == SumUsd(positions)
               b == SumUsd(Front(positions))
               u == positions[Len(positions)].usd
    <3>1. positions \in Seq(Positions)
      BY <1>1 DEF TypeOK
    <3>2. /\ Front(positions) \in Seq(Positions)
          /\ Len(positions) \in 1..Len(positions) /\ a = b + u
      BY <2>1, <3>1, SumUsdFront
    <3>3. a \in Nat /\ b \in Nat /\ u \in Nat
      BY <3>1, <3>2, SumUsdIs
    <3>4. a - u < MaxExposure
      BY <1>1, <2>1 DEF MoneyInv
    <3> HIDE DEF a, b, u
    <3>5. a - u = b
      BY <3>2, <3>3
    <3> QED BY <3>4, <3>5 DEF b
  <2> QED BY <1>1, <2>1 DEF WithinLimits, BookInv, OnePerCoin, MoneyInv
<1> QED BY <1>1, BookAlways, MoneyAlways, PTL

-----------------------------------------------------------------------------
(* The statistics per regime.                                               *)

StatsInv ==
    /\ SumFunction([r \in Regimes |-> stats[r].trades])
            = Cardinality({i \in DOMAIN closed : AtLevel(closed[i])})
    /\ SumFunction([r \in Regimes |-> stats[r].pnl]) = NetAtLevel

Reached == {x \in Exits : AtLevel(x)}
Nets(list) == [i \in DOMAIN list |-> IF AtLevel(list[i]) THEN list[i].net ELSE 0]

LEMMA RegimesFinite == IsFiniteSet(Regimes)
<1>1. IsFiniteSet({"trending_up"})
  BY FS_Singleton
<1>2. IsFiniteSet({"trending_up"} \cup {"trending_down"})
  BY <1>1, FS_AddElement
<1>3. IsFiniteSet(({"trending_up"} \cup {"trending_down"}) \cup {"choppy"})
  BY <1>2, FS_AddElement
<1>4. IsFiniteSet((({"trending_up"} \cup {"trending_down"}) \cup {"choppy"}) \cup {"high_vol"})
  BY <1>3, FS_AddElement
<1>5. IsFiniteSet(((({"trending_up"} \cup {"trending_down"}) \cup {"choppy"})
                    \cup {"high_vol"}) \cup {"quiet"})
  BY <1>4, FS_AddElement
<1>6. Regimes = ((({"trending_up"} \cup {"trending_down"}) \cup {"choppy"})
                    \cup {"high_vol"}) \cup {"quiet"}
  BY DEF Regimes
<1> QED BY <1>5, <1>6

(* The invariant in the terms of the lemmas about sums.                     *)
LEMMA StatsAre ==
  ASSUME TypeOK
  PROVE  /\ {i \in DOMAIN closed : AtLevel(closed[i])} = PlacesOf(closed, Reached)
         /\ NetAtLevel = SumFunctionOnSet(Nets(closed), 1..Len(closed))
         /\ SumFunction([r \in Regimes |-> stats[r].trades])
              = SumFunctionOnSet([r \in Regimes |-> stats[r].trades], Regimes)
         /\ SumFunction([r \in Regimes |-> stats[r].pnl])
              = SumFunctionOnSet([r \in Regimes |-> stats[r].pnl], Regimes)
         /\ \A i \in 1..Len(closed) : Nets(closed)[i] \in Int
<1>1. closed \in Seq(Exits) /\ DOMAIN closed = 1..Len(closed)
  BY DEF TypeOK
<1>2. \A i \in DOMAIN closed : closed[i] \in Exits
  BY <1>1
<1>3. {i \in DOMAIN closed : AtLevel(closed[i])} = PlacesOf(closed, Reached)
  BY <1>2 DEF PlacesOf, Reached
<1>4. NetAtLevel = SumFunctionOnSet(Nets(closed), 1..Len(closed))
  BY <1>1 DEF NetAtLevel, SumFunction, Nets
<1>5. \A i \in DOMAIN closed : Nets(closed)[i] \in Int
  BY <1>2 DEF Nets, Exits
<1> QED BY <1>1, <1>3, <1>4, <1>5 DEF SumFunction

LEMMA CloseStats ==
  ASSUME TypeOK, TypeOK', BookInv, StatsInv, ClosePosition PROVE StatsInv'
<1> DEFINE p == Head(closing)
           regime == Confirmed(OneReading(p.coin))
           n == Len(closed)
<1>1. PICK reason \in {"SL", "TP"} :
        LET x == Closed(p, reason)
        IN /\ x \in Exits /\ x.reason = reason /\ closed' = Append(closed, x)
           /\ RecordTrade(regime, x.net) /\ p.coin \in Coins
  BY CloseRecords
<1> DEFINE x == Closed(p, reason)
<1>2. /\ x \in Exits /\ AtLevel(x) /\ closed' = Append(closed, x)
      /\ RecordTrade(regime, x.net)
  BY <1>1 DEF AtLevel
<1>3. regime \in Regimes
  <2> HIDE DEF p
  <2> QED BY <1>1, ReadingsType
<1> HIDE DEF p, regime, x
<1>4. x.net \in Int /\ x \in Reached
  BY <1>2 DEF Exits, Reached
<1> DEFINE f == [r \in Regimes |-> stats[r].trades]
           g == [r \in Regimes |-> stats[r].pnl]
           ff == [r \in Regimes |-> stats'[r].trades]
           gg == [r \in Regimes |-> stats'[r].pnl]
<1>5. \A r \in Regimes : f[r] \in Int /\ g[r] \in Int
  BY DEF TypeOK
<1>6. /\ ff[regime] = f[regime] + 1 /\ gg[regime] = g[regime] + x.net
      /\ \A r \in Regimes \ {regime} : ff[r] = f[r] /\ gg[r] = g[r]
  <2>1. stats' = [stats EXCEPT ![regime] = [trades |-> stats[regime].trades + 1,
                                            pnl |-> stats[regime].pnl + x.net]]
    BY <1>2 DEF RecordTrade
  <2>2. DOMAIN stats = Regimes
    BY DEF TypeOK
  <2> QED BY <1>3, <2>1, <2>2
<1>7. closed \in Seq(Exits) /\ n \in Nat /\ DOMAIN closed = 1..n
  BY DEF TypeOK
<1>8. /\ SumFunction(f) = SumFunctionOnSet(f, Regimes)
      /\ SumFunction(g) = SumFunctionOnSet(g, Regimes)
      /\ SumFunction(ff) = SumFunctionOnSet(ff, Regimes)
      /\ SumFunction(gg) = SumFunctionOnSet(gg, Regimes)
  BY DEF SumFunction
<1>9. /\ SumFunction(f) = Cardinality(PlacesOf(closed, Reached))
      /\ SumFunction(g) = SumFunctionOnSet(Nets(closed), 1..n)
  BY StatsAre DEF StatsInv
<1>10. ff[regime] \in Int /\ gg[regime] \in Int
  <2>1. f[regime] \in Int /\ g[regime] \in Int
    BY <1>3, <1>5
  <2> HIDE DEF f, g, ff, gg
  <2> QED BY <1>4, <1>6, <2>1
<1> HIDE DEF f, g, ff, gg
<1>11. SumFunction(ff) = SumFunction(f) + 1
  <2>1. SumFunctionOnSet(ff, Regimes) = SumFunctionOnSet(f, Regimes) + (ff[regime] - f[regime])
    BY <1>3, <1>5, <1>6, <1>10, RegimesFinite, SumChange
  <2>2. ff[regime] - f[regime] = 1
    BY <1>3, <1>5, <1>6
  <2> QED BY <1>8, <2>1, <2>2
<1>12. SumFunction(gg) = SumFunction(g) + x.net
  <2>1. SumFunctionOnSet(gg, Regimes) = SumFunctionOnSet(g, Regimes) + (gg[regime] - g[regime])
    BY <1>3, <1>5, <1>6, <1>10, RegimesFinite, SumChange
  <2>2. gg[regime] - g[regime] = x.net
    BY <1>3, <1>4, <1>5, <1>6
  <2> QED BY <1>8, <2>1, <2>2
<1>13. Cardinality(PlacesOf(closed', Reached)) = Cardinality(PlacesOf(closed, Reached)) + 1
  <2>1. \A U : Cardinality(PlacesOf(Append(closed, x), U))
                  = Cardinality(PlacesOf(closed, U)) + (IF x \in U THEN 1 ELSE 0)
    BY <1>2, <1>7, PlacesAppended
  <2> QED BY <1>2, <1>4, <2>1
<1>14. SumFunctionOnSet(Nets(closed'), 1..n + 1) = SumFunctionOnSet(Nets(closed), 1..n) + x.net
  <2>1. /\ DOMAIN closed' = 1..n + 1 /\ Len(closed') = n + 1 /\ closed'[n + 1] = x
        /\ \A i \in 1..n : closed'[i] = closed[i]
    BY <1>2, <1>7
  <2> DEFINE a == Nets(closed)
             b == Nets(closed')
  <2> HIDE DEF n
  <2>2. /\ \A i \in 1..n : i \in 1..n + 1
        /\ n + 1 \in 1..n + 1
    BY <1>7
  <2>3. b[n + 1] = x.net /\ \A i \in 1..n : a[i] = b[i]
    BY <1>2, <1>7, <2>1, <2>2 DEF Nets
  <2>4. \A i \in 1..n + 1 : b[i] \in Int
    <3>1. \A i \in 1..Len(closed') : Nets(closed')[i] \in Int
      <4>1. \A i \in DOMAIN closed' : closed'[i] \in Exits
        BY DEF TypeOK
      <4> QED BY <2>1, <4>1 DEF Nets, Exits
    <3> QED BY <2>1, <3>1
  <2> HIDE DEF a, b
  <2>5. SumFunctionOnSet(b, 1..n + 1) = SumFunctionOnSet(a, 1..n) + b[n + 1]
    BY <1>7, <2>3, <2>4, SumAppended
  <2> QED BY <2>3, <2>5 DEF a, b
<1>15. {i \in DOMAIN closed' : AtLevel(closed[i])'} = PlacesOf(closed', Reached)
  <2>1. \A i \in DOMAIN closed' : closed'[i] \in Exits
    BY DEF TypeOK
  <2> QED BY <2>1 DEF PlacesOf, Reached, AtLevel
<1>16. NetAtLevel' = SumFunctionOnSet(Nets(closed'), 1..n + 1)
  <2>1. DOMAIN closed' = 1..n + 1
    BY <1>2, <1>7
  <2> QED BY <2>1 DEF NetAtLevel, SumFunction, Nets, AtLevel
<1>17. SumFunction(ff) = Cardinality({i \in DOMAIN closed' : AtLevel(closed[i])'})
  BY <1>9, <1>11, <1>13, <1>15
<1>18. SumFunction(gg) = NetAtLevel'
  BY <1>9, <1>12, <1>14, <1>16
<1> QED BY <1>17, <1>18 DEF StatsInv, ff, gg, AtLevel

LEMMA EndStats ==
  ASSUME TypeOK, TypeOK', StatsInv, EndOfData PROVE StatsInv'
<1> DEFINE n == Len(closed)
           m == Len(positions)
           a == Nets(closed)
           b == Nets(closed')
<1>1. /\ n \in Nat /\ m \in Nat /\ DOMAIN closed = 1..n
      /\ DOMAIN closed' = 1..n + m /\ Len(closed') = n + m
      /\ \A i \in 1..n : closed'[i] = closed[i]
      /\ \A k \in 1..m : closed'[n + k].reason = "END_OF_DATA"
      /\ \A i \in 1..n + m : i \in 1..n \/ \E k \in 1..m : i = n + k
  BY EndCloses
<1>2. stats' = stats
  BY DEF EndOfData, results
<1>3. \A i \in 1..n : a[i] \in Int
  BY StatsAre
<1> HIDE DEF n, m
<1>4. (\A i \in 1..n : i \in 1..n + m) /\ \A k \in 1..m : n + k \in 1..n + m
  BY <1>1
<1>5. {i \in DOMAIN closed' : AtLevel(closed'[i])} = {i \in DOMAIN closed : AtLevel(closed[i])}
  <2>1. \A i \in 1..n + m : AtLevel(closed'[i]) => i \in 1..n
    BY <1>1 DEF AtLevel
  <2> QED BY <1>1, <1>4, <2>1
<1>6. (\A i \in 1..n : a[i] = b[i]) /\ \A k \in 1..m : b[n + k] = 0
  <2>1. \A i \in 1..n : a[i] = b[i]
    BY <1>1, <1>4 DEF Nets
  <2>2. \A k \in 1..m : ~AtLevel(closed'[n + k])
    BY <1>1 DEF AtLevel
  <2>3. \A k \in 1..m : b[n + k] = 0
    BY <1>1, <1>4, <2>2 DEF Nets
  <2> QED BY <2>1, <2>3
<1>7. NetAtLevel = SumFunctionOnSet(a, 1..n) /\ NetAtLevel' = SumFunctionOnSet(b, 1..n + m)
  BY <1>1 DEF NetAtLevel, SumFunction, Nets, AtLevel
<1> HIDE DEF a, b
<1>8. SumFunctionOnSet(b, 1..n + m) = SumFunctionOnSet(a, 1..n)
  <2>1. n \in Nat /\ m \in Nat
    BY <1>1
  <2>2. \A i \in 1..n : a[i] = b[i] /\ a[i] \in Int
    <3>1. \A i \in 1..n : a[i] \in Int
      BY <1>3 DEF n
    <3> QED BY <1>6, <3>1
  <2>3. \A k \in 1..m : b[n + k] = 0
    BY <1>6
  <2> QED BY <2>1, <2>2, <2>3, SumPadded
<1>9. NetAtLevel' = NetAtLevel
  BY <1>7, <1>8
<1> HIDE DEF NetAtLevel
<1> QED BY <1>2, <1>5, <1>9 DEF StatsInv, AtLevel

LEMMA NextStats ==
  ASSUME TypeOK, TypeOK', BookInv, StatsInv, [Next]_vars PROVE StatsInv'
<1>1. CASE ClosePosition
  BY <1>1, CloseStats
<1>2. CASE EndOfData
  BY <1>2, EndStats
<1>3. CASE \/ \E e \in Feed : ReceiveEvent(e)
           \/ \E c \in Coins : ScanCoin(c)
           \/ \E s \in signals : Skip(s) \/ Enter(s)
           \/ BeginScan \/ EndScan \/ Tick \/ UNCHANGED vars
  <2>1. UNCHANGED <<closed, stats>>
    BY <1>3 DEF ReceiveEvent, ScanCoin, Skip, Enter, Decide, BeginScan, EndScan, Tick, vars,
                book, results
  <2> QED BY <2>1 DEF StatsInv, NetAtLevel, AtLevel
<1> QED BY <1>1, <1>2, <1>3 DEF Next

LEMMA InitStats == Init => StatsInv
<1> SUFFICES ASSUME Init PROVE StatsInv
  OBVIOUS
<1> DEFINE zero == [r \in Regimes |-> 0]
<1>1. closed = << >> /\ DOMAIN closed = {} /\ TypeOK
  BY InitType DEF Init
<1>2. [r \in Regimes |-> stats[r].trades] = zero /\ [r \in Regimes |-> stats[r].pnl] = zero
  BY DEF Init
<1>3. SumFunction(zero) = 0
  <2>1. \A i, r \in Regimes : zero[r] = 0
    OBVIOUS
  <2> DEFINE C == {s \in SUBSET Regimes : SumFunctionOnSet(zero, s) = 0}
  <2>2. {} \in C
    BY SumEmpty
  <2>3. ASSUME NEW s \in SUBSET Regimes, s # {}, \A x \in s : s \ {x} \in C PROVE s \in C
    <3>1. PICK x \in s : TRUE
      BY <2>3
    <3>2. IsFiniteSet(s) /\ (\A i \in s : zero[i] \in Int) /\ zero[x] = 0
      BY <3>1, RegimesFinite, FS_Subset
    <3>3. SumFunctionOnSet(zero, s \ {x}) = 0
      BY <2>3, <3>1
    <3> HIDE DEF zero
    <3>4. SumFunctionOnSet(zero, s) = zero[x] + SumFunctionOnSet(zero, s \ {x})
      BY <3>1, <3>2, SumSplit
    <3> QED BY <3>2, <3>3, <3>4
  <2>4. Regimes \in C
    <3> HIDE DEF C
    <3> QED BY <2>2, <2>3, RegimesFinite, SubsetInduction
  <2>5. DOMAIN zero = Regimes
    OBVIOUS
  <2> HIDE DEF zero
  <2> QED BY <2>4, <2>5 DEF SumFunction
<1>4. NetAtLevel = 0
  <2>1. DOMAIN Nets(closed) = {} /\ NetAtLevel = SumFunction(Nets(closed))
    BY <1>1 DEF NetAtLevel, Nets
  <2> QED BY <2>1, SumEmpty DEF SumFunction
<1>5. {i \in DOMAIN closed : AtLevel(closed[i])} = {}
  BY <1>1
<1> HIDE DEF zero, NetAtLevel
<1> QED BY <1>2, <1>3, <1>4, <1>5, FS_EmptySet DEF StatsInv

LEMMA StatsAlways == Spec => []StatsInv
<1>1. TypeOK /\ BookInv /\ TypeOK' /\ StatsInv /\ [Next]_vars => StatsInv'
  BY NextStats
<1> QED BY <1>1, InitStats, BookAlways, PTL DEF Spec

-----------------------------------------------------------------------------
(* The entries: an accepted signal has a trend, so its coin has a price and *)
(* a position follows.                                                      *)

EntriesCounted == entered = Len(positions) + Len(closed)

EnteredInv == TrendHasPrice /\ EntriesCounted

LEMMA LengthsType ==
  ASSUME TypeOK PROVE Len(positions) \in Nat /\ Len(closed) \in Nat /\ entered \in Nat
BY DEF TypeOK

LEMMA ReceiveEntered ==
  ASSUME TypeOK, NEW e \in Feed, ReceiveEvent(e), EnteredInv PROVE EnteredInv'
<1> DEFINE f == [k \in DOMAIN Cold |->
                    IF k \in DOMAIN e.shows THEN e.shows[k] ELSE market[e.coin][k]]
<1>1. e.coin \in Coins /\ e.price \in Nat \ {0}
  BY FeedAssumption
<1>2. /\ market' = [market EXCEPT ![e.coin] = f]
      /\ UNCHANGED <<cache, closed, signals, entered>>
  BY DEF ReceiveEvent, Observe, scan
<1>3. DOMAIN market = Coins /\ price \in [Coins -> Nat]
  BY DEF TypeOK
<1>4. f.strength = IF "strength" \in DOMAIN e.shows THEN e.shows["strength"]
                                                    ELSE market[e.coin].strength
  <2>1. "strength" \in DOMAIN Cold
    BY DEF Cold
  <2> QED BY <2>1
<1> HIDE DEF f
<1>5. CASE e.type = "trade"
  <2>1. price' = [price EXCEPT ![e.coin] = e.price] /\ Len(positions') = Len(positions)
    BY <1>5, TradeMarks DEF ReceiveEvent
  <2>2. \A c \in Coins : price'[c] = 0 => c # e.coin /\ price[c] = 0 /\ market'[c] = market[c]
    BY <1>1, <1>2, <1>3, <2>1
  <2>3. \A s \in signals : s.coin \in Coins
    BY DEF TypeOK, Signals
  <2> QED BY <1>2, <2>1, <2>2, <2>3 DEF EnteredInv, TrendHasPrice, EntriesCounted
<1>6. CASE e.type # "trade"
  <2>1. UNCHANGED <<price, positions>>
    BY <1>6 DEF ReceiveEvent
  <2>2. f.strength = market[e.coin].strength
    BY <1>4, <1>6, FeedAssumption
  <2>3. \A c \in Coins : market'[c].strength = market[c].strength
    BY <1>1, <1>2, <1>3, <2>2
  <2> QED BY <1>2, <2>1, <2>3 DEF EnteredInv, TrendHasPrice, EntriesCounted
<1> QED BY <1>5, <1>6

(* Reading a coin caches what the market shows or what was cached before.   *)
LEMMA SnapshotTrend ==
  ASSUME TypeOK, TrendHasPrice, NEW c \in Coins, price[c] = 0
  PROVE  Snapshot(c).features.strength = 0
BY DEF Snapshot, Fresh, TrendHasPrice

LEMMA RememberTrend ==
  ASSUME TypeOK, TrendHasPrice, NEW c \in Coins, NEW readings, Remember(c, readings)
  PROVE  \A d \in Coins : price[d] = 0 =>
            /\ market'[d].strength = 0
            /\ cache'[d] # None => cache'[d].features.strength = 0
<1>1. cache' = [cache EXCEPT ![c] = Snapshot(c)] /\ market' = market
  BY DEF Remember
<1>2. DOMAIN cache = Coins
  BY DEF TypeOK
<1>3. \A d \in Coins : cache'[d] = IF d = c THEN Snapshot(c) ELSE cache[d]
  BY <1>1, <1>2
<1> QED BY <1>1, <1>3, SnapshotTrend DEF TrendHasPrice

LEMMA CloseEntered ==
  ASSUME TypeOK, BookInv, EnteredInv, ClosePosition PROVE EnteredInv'
<1> DEFINE p == Head(closing)
<1>1. PICK x \in Exits : closed' = Append(closed, x)
  BY CloseRecords
<1>2. p.coin \in Coins
  BY CloseRecords
<1>3. Len(positions') = Len(positions) - 1
  BY CloseRemoves
<1>4. Len(closed') = Len(closed) + 1
  BY <1>1 DEF TypeOK
<1>5. /\ Remember(p.coin, OneReading(p.coin))
      /\ UNCHANGED <<price, signals, entered>>
  BY DEF ClosePosition, scan
<1> HIDE DEF p
<1>6. TrendHasPrice'
  BY <1>2, <1>5, RememberTrend DEF EnteredInv, TrendHasPrice
<1>7. EntriesCounted'
  BY <1>3, <1>4, <1>5, LengthsType DEF EnteredInv, EntriesCounted
<1> QED BY <1>6, <1>7 DEF EnteredInv

LEMMA ScanEntered ==
  ASSUME TypeOK, EnteredInv, NEW c \in Coins, ScanCoin(c) PROVE EnteredInv'
<1> DEFINE s == Snapshot(c)
           long == SignalOf(c, "LONG", s, Confirmed(OneReading(c)))
           short == SignalOf(c, "SHORT", s, Confirmed(TwoReadings(c)))
<1>1. /\ signals' = signals \cup {g \in {long, short} : g.score >= 2000}
      /\ Remember(c, TwoReadings(c))
      /\ UNCHANGED <<price, positions, closed, entered>>
  BY DEF ScanCoin, book
<1>2. TrendHasPrice
  BY DEF EnteredInv
<1>3. /\ long.coin = c /\ short.coin = c
      /\ s.features.strength = 0 => long.trend = 0 /\ short.trend = 0
  BY SnapshotType, ReadingsType, SignalOfType DEF Sides
<1>4. price[c] = 0 => s.features.strength = 0
  BY <1>2, SnapshotTrend
<1> HIDE DEF s, long, short
<1>5. \A g \in signals' : price'[g.coin] = 0 => g.trend = 0
  BY <1>1, <1>2, <1>3, <1>4 DEF TrendHasPrice
<1>6. TrendHasPrice'
  BY <1>1, <1>2, <1>5, RememberTrend DEF TrendHasPrice
<1> QED BY <1>1, <1>6 DEF EnteredInv, EntriesCounted

LEMMA EnterEntered ==
  ASSUME TypeOK, EnteredInv, NEW s \in signals, Enter(s) PROVE EnteredInv'
<1>1. /\ Decide(s) /\ Accepts(s) /\ entered' = entered + 1
      /\ IF price[s.coin] > 0
         THEN /\ positions' = Append(positions, Opened(s))
              /\ open' = open \cup {s.coin}
              /\ exposure' = exposure + SizeUsd(s)
              /\ Remember(s.coin, OneReading(s.coin))
         ELSE UNCHANGED <<positions, open, exposure, detector>>
  BY EnterOpens
<1>2. s \in Signals /\ s.coin \in Coins /\ UNCHANGED <<price, closed>>
  BY <1>1, DecideType
<1>3. price[s.coin] \in Nat
  BY <1>2 DEF TypeOK
<1>4. price[s.coin] > 0
  <2>1. s.trend >= 15
    BY <1>1 DEF Accepts
  <2>2. price[s.coin] # 0
    BY <2>1 DEF EnteredInv, TrendHasPrice
  <2> QED BY <1>3, <2>2
<1>5. positions' = Append(positions, Opened(s)) /\ Remember(s.coin, OneReading(s.coin))
  BY <1>1, <1>4
<1>6. Len(positions') = Len(positions) + 1
  BY <1>5 DEF TypeOK
<1>7. \A g \in signals' : g \in signals
  BY <1>1 DEF Decide
<1>8. TrendHasPrice'
  BY <1>2, <1>5, <1>7, RememberTrend DEF EnteredInv, TrendHasPrice
<1>9. EntriesCounted'
  BY <1>1, <1>2, <1>6, LengthsType DEF EnteredInv, EntriesCounted
<1> QED BY <1>8, <1>9 DEF EnteredInv

LEMMA EndEntered ==
  ASSUME TypeOK, EnteredInv, EndOfData PROVE EnteredInv'
<1>1. Len(closed') = Len(closed) + Len(positions)
  BY EndCloses
<1>2. positions' = << >> /\ UNCHANGED <<market, cache, price, signals, entered>>
  BY DEF EndOfData, detector, scan
<1>3. Len(positions') = 0
  BY <1>2
<1> QED BY <1>1, <1>2, <1>3, LengthsType DEF EnteredInv, TrendHasPrice, EntriesCounted

LEMMA NextEntered ==
  ASSUME TypeOK, BookInv, EnteredInv, [Next]_vars PROVE EnteredInv'
<1>1. CASE \E e \in Feed : ReceiveEvent(e)
  BY <1>1, ReceiveEntered
<1>2. CASE ClosePosition
  BY <1>2, CloseEntered
<1>3. CASE \E c \in Coins : ScanCoin(c)
  BY <1>3, ScanEntered
<1>4. CASE \E s \in signals : Skip(s)
  <2>1. UNCHANGED <<detector, price, positions, closed, entered>> /\ signals' \subseteq signals
    BY <1>4 DEF Skip, Decide
  <2> QED BY <2>1 DEF EnteredInv, TrendHasPrice, EntriesCounted, detector
<1>5. CASE \E s \in signals : Enter(s)
  BY <1>5, EnterEntered
<1>6. CASE EndOfData
  BY <1>6, EndEntered
<1>7. CASE BeginScan \/ EndScan \/ Tick \/ UNCHANGED vars
  <2>1. UNCHANGED <<detector, price, positions, closed, entered>> /\ signals' \subseteq signals
    BY <1>7 DEF BeginScan, EndScan, Tick, vars, book, scan
  <2> QED BY <2>1 DEF EnteredInv, TrendHasPrice, EntriesCounted, detector
<1> QED BY <1>1, <1>2, <1>3, <1>4, <1>5, <1>6, <1>7 DEF Next

LEMMA InitEntered == Init => EnteredInv
<1> SUFFICES ASSUME Init PROVE EnteredInv
  OBVIOUS
<1>1. /\ positions = << >> /\ closed = << >> /\ entered = 0 /\ signals = {}
      /\ \A c \in Coins : market[c].strength = 0 /\ cache[c] = None
  BY DEF Init, DetectorInit, Cold
<1>2. Len(positions) = 0 /\ Len(closed) = 0
  BY <1>1
<1> QED BY <1>1, <1>2 DEF EnteredInv, TrendHasPrice, EntriesCounted

(* BooksAgree: the coins and the exposure the policy keeps are those of the *)
(* open positions, the statistics per regime hold every exit at a level     *)
(* once with its result, every entry the policy granted is a position, open *)
(* or closed, and nothing stays open (PolicyEngine.register_entry and       *)
(* register_exit, RegimeEvaluator.record_trade, FullReplay.run).            *)
THEOREM TheBooksAgree == Spec => []BooksAgree
<1>1. TypeOK /\ BookInv /\ EnteredInv /\ [Next]_vars => EnteredInv'
  BY NextEntered
<1>2. Spec => []EnteredInv
  BY <1>1, InitEntered, BookAlways, PTL DEF Spec
<1>3. BookInv /\ MoneyInv /\ StatsInv /\ EnteredInv => BooksAgree
  BY DEF BookInv, PolicyKnows, MoneyInv, StatsInv, EnteredInv, EntriesCounted, BooksAgree
<1> QED BY <1>2, <1>3, BookAlways, MoneyAlways, StatsAlways, PTL

-----------------------------------------------------------------------------
(* RegimePersistence: the search through the cut history answers what a     *)
(* reference remembers that counts the current run of readings.             *)
(*                                                                          *)
(* The reference is tied to the history coin by coin: the current run is    *)
(* what the history ends with (Counts), and the confirmed regime stands in  *)
(* the history as many places before its end as the reference counts        *)
(* readings since, with no later run of three (Remembers), which the cut at *)
(* MaxHistory shifts but does not break.                                    *)

Runs(h) == {i \in 1..Len(h) - 2 : h[i] = h[i + 1] /\ h[i + 1] = h[i + 2]}

RunTypes == [regime : Regimes \cup {None}, length : 0..3]

(* The run of equal readings is the one the history ends with.              *)
Counts(h, x) ==
    /\ x.length = 0 => Len(h) = 0
    /\ \A k \in 0..2 :
          x.length > k <=> Len(h) > k /\ \A j \in 0..k : h[Len(h) - j] = x.regime

(* The last run of three stands where the reference's age says.             *)
Remembers(h, v, a) ==
    /\ v = None => Runs(h) = {}
    /\ v # None /\ a <= MaxHistory - 3
         => /\ Len(h) - 2 - a \in Runs(h) /\ h[Len(h) - 2 - a] = v
            /\ \A i \in Runs(h) : i <= Len(h) - 2 - a

ReferenceOK ==
    /\ history \in [Coins -> Seq(Regimes)]
    /\ DOMAIN answer = Coins
    /\ run \in [Coins -> RunTypes]
    /\ confirmed \in [Coins -> Regimes \cup {None}]
    /\ age \in [Coins -> 0..MaxHistory]

Agrees(c) ==
    /\ Len(history[c]) <= MaxHistory
    /\ Counts(history[c], run[c])
    /\ Remembers(history[c], confirmed[c], age[c])
    /\ IF Len(history[c]) = 0 THEN answer[c] = run[c].regime /\ confirmed[c] = None
                              ELSE answer[c] = Confirmed(history[c])

ReferenceInv == ReferenceOK /\ \A c \in Coins : Agrees(c)

-----------------------------------------------------------------------------
(* One more reading: the history that was there, moved by the places cut.   *)

Moved(h, g, r, d) ==
    /\ g \in Seq(Regimes) /\ Len(g) \in Nat /\ Len(h) \in Nat
    /\ d \in {0, 1} /\ Len(g) + d = Len(h) + 1 /\ Len(g) >= 1
    /\ d = 1 => Len(g) = MaxHistory
    /\ Len(g) <= MaxHistory
    /\ g[Len(g)] = r
    /\ \A i \in 1..Len(g) - 1 : g[i] = h[i + d]

LEMMA PushMoves ==
  ASSUME NEW h \in Seq(Regimes), Len(h) <= MaxHistory, NEW r \in Regimes
  PROVE  \E d \in {0, 1} : Moved(h, Push(h, r), r, d)
<1>1. Len(h) \in Nat /\ MaxHistory \in Nat /\ MaxHistory >= 3
  BY DetectorAssumption
<1>2. CASE Len(h) < MaxHistory
  <2>1. Push(h, r) = Append(h, r)
    BY <1>2 DEF Push
  <2>2. /\ Append(h, r) \in Seq(Regimes) /\ Len(Append(h, r)) = Len(h) + 1
        /\ Append(h, r)[Len(h) + 1] = r
        /\ \A i \in 1..Len(h) : Append(h, r)[i] = h[i]
    OBVIOUS
  <2>3. Moved(h, Push(h, r), r, 0)
    BY <1>1, <1>2, <2>1, <2>2 DEF Moved
  <2> QED BY <2>3
<1>3. CASE ~(Len(h) < MaxHistory)
  <2>1. Push(h, r) = Append(Tail(h), r)
    BY <1>3 DEF Push
  <2>2. h # << >> /\ Len(h) = MaxHistory
    BY <1>1, <1>3
  <2>3. /\ Tail(h) \in Seq(Regimes) /\ Len(Tail(h)) = Len(h) - 1
        /\ \A i \in 1..Len(h) - 1 : Tail(h)[i] = h[i + 1]
    BY <2>2
  <2> DEFINE t == Tail(h)
  <2> HIDE DEF t
  <2>4. /\ Append(t, r) \in Seq(Regimes) /\ Len(Append(t, r)) = Len(t) + 1
        /\ Append(t, r)[Len(t) + 1] = r
        /\ \A i \in 1..Len(t) : Append(t, r)[i] = t[i]
    BY <2>3 DEF t
  <2>5. Moved(h, Append(t, r), r, 1)
    BY <1>1, <2>2, <2>3, <2>4 DEF Moved, t
  <2> QED BY <2>1, <2>5 DEF t
<1> QED BY <1>2, <1>3

(* The reference's run after one more reading.                              *)
Longer(x, r) ==
    [regime |-> r, length |-> IF x.regime = r THEN Min({3, x.length + 1}) ELSE 1]

LEMMA LongerType ==
  ASSUME NEW x \in RunTypes, NEW r \in Regimes
  PROVE  /\ Longer(x, r) \in RunTypes /\ Longer(x, r).regime = r
         /\ x.length \in 0..3
         /\ \A k \in 0..2 : Longer(x, r).length > k
                              <=> k = 0 \/ (x.regime = r /\ x.length > k - 1)
<1>1. x.length \in 0..3
  BY DEF RunTypes
<1>2. Min({3, x.length + 1}) = IF 3 <= x.length + 1 THEN 3 ELSE x.length + 1
  BY <1>1, MinOf
<1> DEFINE m == Min({3, x.length + 1})
<1>3. Longer(x, r).regime = r /\ Longer(x, r).length = IF x.regime = r THEN m ELSE 1
  BY DEF Longer
<1>4. m = IF 3 <= x.length + 1 THEN 3 ELSE x.length + 1
  BY <1>2
<1>5. Longer(x, r) \in RunTypes
  <2>1. (IF x.regime = r THEN m ELSE 1) \in 0..3
    <3> HIDE DEF m
    <3> QED BY <1>1, <1>4
  <2> QED BY <2>1 DEF Longer, RunTypes
<1> HIDE DEF m
<1> QED BY <1>1, <1>3, <1>4, <1>5

LEMMA CountsOn ==
  ASSUME NEW h \in Seq(Regimes), NEW g, NEW r \in Regimes, NEW d \in {0, 1}, Moved(h, g, r, d),
         NEW x \in RunTypes, Counts(h, x)
  PROVE  Counts(g, Longer(x, r))
<1> DEFINE n == Len(h)
           m == Len(g)
           y == Longer(x, r)
<1>1. /\ n \in Nat /\ m \in Nat /\ m + d = n + 1 /\ m >= 1 /\ d \in {0, 1}
      /\ (d = 1 => m >= 3) /\ g[m] = r /\ \A i \in 1..m - 1 : g[i] = h[i + d]
  BY DetectorAssumption DEF Moved
<1>2. /\ y.regime = r /\ x.length \in 0..3 /\ y.length \in 0..3
      /\ \A k \in 0..2 : y.length > k <=> k = 0 \/ (x.regime = r /\ x.length > k - 1)
  BY LongerType DEF RunTypes
<1>3. /\ x.length = 0 => n = 0
      /\ \A k \in 0..2 : x.length > k <=> n > k /\ \A j \in 0..k : h[n - j] = x.regime
  BY DEF Counts
<1> HIDE DEF n, m, y
<1>4. y.length > 0
  BY <1>2
<1>5. ASSUME NEW k \in 0..2 PROVE y.length > k <=> m > k /\ \A j \in 0..k : g[m - j] = r
  <2>1. CASE k = 0
    BY <1>1, <1>4, <2>1
  <2>2. CASE k # 0
    <3>1. k - 1 \in 0..2 /\ k \in 1..2
      BY <2>2
    <3>2. m > k <=> n > k - 1
      BY <1>1, <3>1
    <3>3. \A j \in 1..k : m > k => g[m - j] = h[n - (j - 1)]
      <4> SUFFICES ASSUME NEW j \in 1..k, m > k PROVE g[m - j] = h[n - (j - 1)]
        OBVIOUS
      <4>1. m - j \in 1..m - 1 /\ (m - j) + d = n - (j - 1)
        BY <1>1, <3>1
      <4> QED BY <1>1, <4>1
    <3>4. (\A j \in 0..k : g[m - j] = r) <=> (\A j \in 1..k : g[m - j] = r)
      BY <1>1, <3>1
    <3>5. m > k => ((\A j \in 1..k : g[m - j] = r) <=> (\A j \in 0..k - 1 : h[n - j] = r))
      <4> SUFFICES ASSUME m > k
                   PROVE (\A j \in 1..k : g[m - j] = r) <=> (\A j \in 0..k - 1 : h[n - j] = r)
        OBVIOUS
      <4>1. \A j \in 1..k : j - 1 \in 0..k - 1
        BY <3>1
      <4>2. \A j \in 0..k - 1 : j + 1 \in 1..k /\ (j + 1) - 1 = j
        BY <3>1
      <4> QED BY <3>3, <4>1, <4>2
    <3>6. x.length > k - 1 <=> n > k - 1 /\ \A j \in 0..k - 1 : h[n - j] = x.regime
      BY <1>3, <3>1
    <3>7. y.length > k <=> x.regime = r /\ x.length > k - 1
      BY <1>2, <2>2
    <3>8. ASSUME n > k - 1, \A j \in 0..k - 1 : h[n - j] = r PROVE x.regime = r
      <4>1. n > 0 /\ n # 0 /\ 0 \in 0..k - 1 /\ 0 \in 0..2 /\ 0 \in 0..0
        BY <1>1, <3>1, <3>8
      <4>2. x.length > 0
        BY <1>2, <1>3, <4>1
      <4>3. h[n - 0] = x.regime
        BY <1>3, <4>1, <4>2
      <4> QED BY <3>8, <4>1, <4>3
    <3> QED BY <3>2, <3>4, <3>5, <3>6, <3>7, <3>8
  <2> QED BY <2>1, <2>2
<1> QED BY <1>2, <1>4, <1>5 DEF Counts, m, y

(* The runs of three move with the history; only one can be new, at the end.*)
LEMMA RunsMove ==
  ASSUME NEW h \in Seq(Regimes), NEW g, NEW r \in Regimes, NEW d \in {0, 1}, Moved(h, g, r, d)
  PROVE  /\ \A i \in Runs(g) : i \in 1..Len(g) - 2
         /\ \A i \in 1..Len(g) - 3 : i \in Runs(g) <=> i + d \in Runs(h)
<1> DEFINE n == Len(h)
           m == Len(g)
<1>1. /\ n \in Nat /\ m \in Nat /\ m + d = n + 1 /\ d \in {0, 1}
      /\ \A i \in 1..m - 1 : g[i] = h[i + d]
  BY DEF Moved
<1>2. /\ Runs(g) = {i \in 1..m - 2 : g[i] = g[i + 1] /\ g[i + 1] = g[i + 2]}
      /\ Runs(h) = {i \in 1..n - 2 : h[i] = h[i + 1] /\ h[i + 1] = h[i + 2]}
  BY DEF Runs
<1> HIDE DEF n, m
<1>3. ASSUME NEW i \in 1..m - 3 PROVE i \in Runs(g) <=> i + d \in Runs(h)
  <2>1. i \in 1..m - 2 /\ i + d \in 1..n - 2
    BY <1>1
  <2>2. /\ i \in 1..m - 1 /\ i + 1 \in 1..m - 1 /\ i + 2 \in 1..m - 1
        /\ (i + 1) + d = (i + d) + 1 /\ (i + 2) + d = (i + d) + 2
    BY <1>1
  <2>3. g[i] = h[i + d] /\ g[i + 1] = h[(i + d) + 1] /\ g[i + 2] = h[(i + d) + 2]
    BY <1>1, <2>2
  <2> QED BY <1>2, <2>1, <2>3
<1> QED BY <1>2, <1>3 DEF m

LEMMA RemembersOn ==
  ASSUME NEW h \in Seq(Regimes), NEW g, NEW r \in Regimes, NEW d \in {0, 1}, Moved(h, g, r, d),
         NEW y \in RunTypes, y.regime = r, Counts(g, y),
         NEW v \in Regimes \cup {None}, NEW a \in 0..MaxHistory, Remembers(h, v, a)
  PROVE  Remembers(g, IF y.length = 3 THEN r ELSE v,
                      IF y.length = 3 THEN 0 ELSE Min({MaxHistory, a + 1}))
<1> DEFINE n == Len(h)
           m == Len(g)
<1>1. /\ n \in Nat /\ m \in Nat /\ m + d = n + 1 /\ m >= 1 /\ d \in {0, 1}
      /\ (d = 1 => m = MaxHistory) /\ g[m] = r /\ MaxHistory \in Nat /\ MaxHistory >= 3
  BY DetectorAssumption DEF Moved
<1>2. /\ \A i \in Runs(g) : i \in 1..m - 2
      /\ \A i \in 1..m - 3 : i \in Runs(g) <=> i + d \in Runs(h)
  BY RunsMove
<1>3. y.length > 2 <=> m > 2 /\ \A j \in 0..2 : g[m - j] = r
  <2>1. 2 \in 0..2
    OBVIOUS
  <2> QED BY <2>1 DEF Counts
<1>4. y.length \in 0..3 /\ (y.length > 2 <=> y.length = 3)
  BY DEF RunTypes
<1>5. \A i \in Runs(h) : i \in 1..n - 2
  BY DEF Runs
<1>6. m - 2 \in Runs(g) <=> m > 2 /\ \A j \in 0..2 : g[m - j] = r
  <2>1. Runs(g) = {i \in 1..m - 2 : g[i] = g[i + 1] /\ g[i + 1] = g[i + 2]}
    BY DEF Runs
  <2> HIDE DEF m
  <2>2. m - 2 \in Runs(g) <=> m > 2 /\ g[m - 2] = g[(m - 2) + 1] /\ g[(m - 2) + 1] = g[(m - 2) + 2]
    BY <1>1, <2>1
  <2>3. (m - 2) + 1 = m - 1 /\ (m - 2) + 2 = m - 0 /\ m - 0 = m /\ 0..2 = {0, 1, 2}
    BY <1>1
  <2> QED BY <1>1, <2>2, <2>3
<1>7. CASE y.length = 3
  <2>1. m - 2 \in Runs(g) /\ g[m - 2] = r
    <3>1. 2 \in 0..2
      OBVIOUS
    <3> QED BY <1>3, <1>4, <1>6, <1>7, <3>1
  <2>2. m - 2 - 0 = m - 2 /\ r # None /\ \A i \in 1..m - 2 : i <= m - 2
    BY <1>1, NoneAssumption
  <2> HIDE DEF m
  <2>3. \A i \in Runs(g) : i <= m - 2 - 0
    BY <1>2, <2>2
  <2> QED BY <1>7, <2>1, <2>2, <2>3 DEF Remembers, m
<1>8. CASE y.length # 3
  <2> DEFINE b == Min({MaxHistory, a + 1})
  <2>1. b = IF MaxHistory <= a + 1 THEN MaxHistory ELSE a + 1
    BY <1>1, MinOf
  <2>2. \A i \in Runs(g) : i \in 1..m - 3
    <3>1. m - 2 \notin Runs(g)
      BY <1>3, <1>4, <1>6, <1>8
    <3> HIDE DEF m
    <3> QED BY <1>1, <1>2, <3>1
  <2> HIDE DEF b, n, m
  <2>3. ASSUME v = None PROVE Runs(g) = {}
    BY <1>2, <2>2, <2>3 DEF Remembers
  <2>4. ASSUME v # None, b <= MaxHistory - 3
        PROVE  /\ m - 2 - b \in Runs(g) /\ g[m - 2 - b] = v
               /\ \A i \in Runs(g) : i <= m - 2 - b
    <3>1. b = a + 1 /\ a <= MaxHistory - 4 /\ a \in Nat
      BY <1>1, <2>1, <2>4
    <3> DEFINE k == n - 2 - a
               l == m - 2 - b
    <3>2. k \in Runs(h) /\ h[k] = v /\ \A i \in Runs(h) : i <= k
      <4>1. a <= MaxHistory - 3
        BY <1>1, <3>1
      <4> QED BY <2>4, <4>1 DEF Remembers, n
    <3>3. k \in 1..n - 2 /\ l + d = k
      BY <1>1, <1>5, <3>1, <3>2
    <3>4. l \in 1..m - 3
      BY <1>1, <3>1, <3>3
    <3> HIDE DEF k, l
    <3>5. l \in Runs(g)
      BY <1>2, <3>2, <3>3, <3>4
    <3>6. g[l] = v
      <4>1. l \in 1..m - 1
        BY <1>1, <3>4
      <4>2. \A i \in 1..m - 1 : g[i] = h[i + d]
        BY DEF Moved, m
      <4> QED BY <3>2, <3>3, <4>1, <4>2
    <3>7. \A i \in Runs(g) : i <= l
      <4> SUFFICES ASSUME NEW i \in Runs(g) PROVE i <= l
        OBVIOUS
      <4>1. i \in 1..m - 3 /\ i + d \in Runs(h)
        BY <1>2, <2>2
      <4>2. i + d <= l + d
        BY <3>2, <3>3, <4>1
      <4> QED BY <1>1, <3>4, <4>1, <4>2
    <3> QED BY <3>5, <3>6, <3>7 DEF l
  <2> QED BY <1>8, <2>3, <2>4 DEF Remembers, b, m
<1> QED BY <1>7, <1>8

(* What the search answers, when the reference remembers a confirmation and *)
(* when it has none.                                                        *)
LEMMA SearchAnswers ==
  ASSUME NEW h \in Seq(Regimes), Len(h) # 0, NEW x \in RunTypes, Counts(h, x),
         NEW v, NEW a \in 0..MaxHistory, Remembers(h, v, a)
  PROVE  /\ v # None /\ a <= MaxHistory - 3 => Confirmed(h) = v
         /\ v = None => Confirmed(h) = x.regime
<1> DEFINE n == Len(h)
<1>1. n \in Nat /\ n # 0 /\ \A i \in Runs(h) : i \in 1..n - 2
  BY DEF Runs
<1>2. Confirmed(h) = IF Runs(h) = {} THEN h[n] ELSE h[Max(Runs(h))]
  BY DEF Confirmed, Runs
<1> HIDE DEF n
<1>3. ASSUME v # None, a <= MaxHistory - 3 PROVE Confirmed(h) = v
  <2>1. n - 2 - a \in Runs(h) /\ h[n - 2 - a] = v /\ \A i \in Runs(h) : i <= n - 2 - a
    BY <1>3 DEF Remembers, n
  <2> DEFINE k == n - 2 - a
  <2>2. k \in Runs(h) /\ h[k] = v /\ \A i \in Runs(h) : i <= k
    BY <2>1
  <2> HIDE DEF k
  <2>3. k \in Nat /\ Runs(h) \in SUBSET Nat
    <3>1. \A i \in 1..n - 2 : i \in Nat
      BY <1>1
    <3> QED BY <1>1, <2>2, <3>1
  <2>4. Max(Runs(h)) \in Runs(h) /\ \A i \in Runs(h) : i <= Max(Runs(h))
    <3>1. Runs(h) # {}
      BY <2>2
    <3> HIDE DEF Runs
    <3> QED BY <2>2, <2>3, <3>1, LargestOf
  <2>5. Max(Runs(h)) = k
    <3>1. Max(Runs(h)) \in Nat /\ Max(Runs(h)) <= k /\ k <= Max(Runs(h))
      BY <2>2, <2>3, <2>4
    <3> QED BY <2>3, <3>1
  <2> QED BY <1>2, <2>2, <2>5
<1>4. ASSUME v = None PROVE Confirmed(h) = x.regime
  <2>1. Confirmed(h) = h[n]
    BY <1>2, <1>4 DEF Remembers
  <2>2. x.length \in 0..3 /\ x.length # 0
    <3>1. x.length # 0
      BY <1>1 DEF n, Counts
    <3> QED BY <3>1 DEF RunTypes
  <2>3. 0 \in 0..2 /\ 0 \in 0..0 /\ x.length > 0 /\ n - 0 = n
    BY <1>1, <2>2
  <2>4. h[n - 0] = x.regime
    BY <2>3 DEF Counts, n
  <2> QED BY <2>1, <2>3, <2>4
<1> QED BY <1>3, <1>4

-----------------------------------------------------------------------------
(* The invariant.                                                           *)

LEMMA ReferenceInit == PersistenceInit => ReferenceInv
<1> SUFFICES ASSUME PersistenceInit PROVE ReferenceInv
  OBVIOUS
<1>1. /\ history = [c \in Coins |-> << >>] /\ answer = [c \in Coins |-> None]
      /\ run = [c \in Coins |-> NoRun] /\ confirmed = [c \in Coins |-> None]
      /\ age = [c \in Coins |-> 0]
  BY DEF PersistenceInit, DetectorInit
<1>2. Len(<< >>) = 0 /\ << >> \in Seq(Regimes) /\ Runs(<< >>) = {}
  BY DEF Runs
<1>3. NoRun \in RunTypes /\ NoRun.regime = None /\ NoRun.length = 0
  BY DEF NoRun, RunTypes
<1>4. MaxHistory \in Nat
  BY DetectorAssumption
<1>5. ReferenceOK
  <2>1. history \in [Coins -> Seq(Regimes)] /\ run \in [Coins -> RunTypes]
    BY <1>1, <1>2, <1>3
  <2>2. confirmed \in [Coins -> Regimes \cup {None}] /\ age \in [Coins -> 0..MaxHistory]
    BY <1>1, <1>4
  <2> QED BY <1>1, <2>1, <2>2 DEF ReferenceOK
<1>6. Counts(<< >>, NoRun)
  BY <1>2, <1>3 DEF Counts
<1>7. Remembers(<< >>, None, 0)
  BY <1>2 DEF Remembers
<1>8. ASSUME NEW c \in Coins PROVE Agrees(c)
  <2>1. /\ history[c] = << >> /\ answer[c] = None /\ run[c] = NoRun
        /\ confirmed[c] = None /\ age[c] = 0
    BY <1>1
  <2> QED BY <1>2, <1>3, <1>4, <1>6, <1>7, <2>1 DEF Agrees
<1> QED BY <1>5, <1>8 DEF ReferenceInv

LEMMA ReferenceDetect ==
  ASSUME ReferenceInv, NEW c \in Coins, Detect(c) PROVE ReferenceInv'
<1> DEFINE r == Reading(Snapshot(c).features)
           h == history[c]
           g == Push(h, r)
           x == run[c]
           y == Longer(x, r)
           v == confirmed[c]
           a == age[c]
<1>1. r \in Regimes
  BY DEF Reading, Regimes, Direction
<1>2. h \in Seq(Regimes) /\ x \in RunTypes /\ v \in Regimes \cup {None} /\ a \in 0..MaxHistory
  BY DEF ReferenceInv, ReferenceOK
<1>3. Len(h) <= MaxHistory /\ Counts(h, x) /\ Remembers(h, v, a)
  BY DEF ReferenceInv, Agrees
<1>4. /\ history' = [history EXCEPT ![c] = g]
      /\ answer' = [answer EXCEPT ![c] = Confirmed(g)]
      /\ run' = [run EXCEPT ![c] = y]
      /\ confirmed' = [confirmed EXCEPT ![c] = IF y.length = 3 THEN r ELSE v]
      /\ age' = [age EXCEPT ![c] = IF y.length = 3 THEN 0 ELSE Min({MaxHistory, a + 1})]
  BY DEF Detect, Remember, OneReading, Longer
<1> HIDE DEF r, h, g, x, y, v, a
<1>5. PICK d \in {0, 1} : Moved(h, g, r, d)
  BY <1>1, <1>2, <1>3, PushMoves DEF g
<1>6. /\ g \in Seq(Regimes) /\ Len(g) <= MaxHistory /\ Len(g) # 0 /\ MaxHistory \in Nat
  BY <1>5, DetectorAssumption DEF Moved
<1>7. y \in RunTypes /\ y.regime = r /\ Counts(g, y)
  BY <1>1, <1>2, <1>3, <1>5, LongerType, CountsOn DEF y
<1> DEFINE w == IF y.length = 3 THEN r ELSE v
           b == IF y.length = 3 THEN 0 ELSE Min({MaxHistory, a + 1})
<1>8. Remembers(g, w, b)
  BY <1>1, <1>2, <1>3, <1>5, <1>7, RemembersOn
<1>9. w \in Regimes \cup {None} /\ b \in 0..MaxHistory
  <2>1. Min({MaxHistory, a + 1}) = IF MaxHistory <= a + 1 THEN MaxHistory ELSE a + 1
    BY <1>2, <1>6, MinOf
  <2> QED BY <1>1, <1>2, <1>6, <2>1
<1> HIDE DEF w, b
<1>10. ReferenceOK'
  <2>1. /\ history \in [Coins -> Seq(Regimes)] /\ run \in [Coins -> RunTypes]
        /\ confirmed \in [Coins -> Regimes \cup {None}] /\ age \in [Coins -> 0..MaxHistory]
        /\ DOMAIN answer = Coins
    BY DEF ReferenceInv, ReferenceOK
  <2>2. history' \in [Coins -> Seq(Regimes)]
    BY <1>4, <1>6, <2>1
  <2>3. run' \in [Coins -> RunTypes]
    BY <1>4, <1>7, <2>1
  <2>4. confirmed' \in [Coins -> Regimes \cup {None}]
    BY <1>4, <1>9, <2>1 DEF w
  <2>5. age' \in [Coins -> 0..MaxHistory]
    BY <1>4, <1>9, <2>1 DEF b
  <2>6. DOMAIN answer' = Coins
    BY <1>4, <2>1
  <2> QED BY <2>2, <2>3, <2>4, <2>5, <2>6 DEF ReferenceOK
<1>11. /\ history'[c] = g /\ answer'[c] = Confirmed(g) /\ run'[c] = y
       /\ confirmed'[c] = w /\ age'[c] = b
  BY <1>4 DEF ReferenceInv, ReferenceOK, w, b
<1>12. \A o \in Coins \ {c} : /\ history'[o] = history[o] /\ answer'[o] = answer[o]
                              /\ run'[o] = run[o] /\ confirmed'[o] = confirmed[o]
                              /\ age'[o] = age[o]
  BY <1>4 DEF ReferenceInv, ReferenceOK
<1>13. ASSUME NEW o \in Coins PROVE Agrees(o)'
  <2>1. CASE o = c
    BY <1>6, <1>7, <1>8, <1>11, <2>1 DEF Agrees
  <2>2. CASE o # c
    BY <1>12, <2>2 DEF Agrees, ReferenceInv
  <2> QED BY <2>1, <2>2
<1> QED BY <1>10, <1>13 DEF ReferenceInv

LEMMA ReferenceStep == ReferenceInv /\ [PersistenceNext]_persistenceVars => ReferenceInv'
<1> SUFFICES ASSUME ReferenceInv, [PersistenceNext]_persistenceVars PROVE ReferenceInv'
  OBVIOUS
<1>1. CASE \E c \in Coins : Detect(c)
  BY <1>1, ReferenceDetect
<1>2. CASE (\E c \in Coins : MarketMoves(c)) \/ TimePasses \/ UNCHANGED persistenceVars
  <2>1. UNCHANGED <<history, answer, run, confirmed, age>>
    BY <1>2 DEF MarketMoves, TimePasses, persistenceVars, detector, reference
  <2> QED BY <2>1 DEF ReferenceInv, ReferenceOK, Agrees
<1> QED BY <1>1, <1>2 DEF PersistenceNext

(* AnswersConfirmed: detect answers the last regime with three readings in  *)
(* a row, while its confirmation lies within the history, and the current   *)
(* reading while none was ever confirmed (RegimeDetector.detect and         *)
(* _apply_persistence, whose history is cut at _max_history).               *)
THEOREM AnswersAreConfirmed == PersistenceSpec => []AnswersConfirmed
<1>1. PersistenceSpec => []ReferenceInv
  BY ReferenceInit, ReferenceStep, PTL DEF PersistenceSpec
<1>2. ASSUME ReferenceInv PROVE AnswersConfirmed
  <2> SUFFICES ASSUME NEW c \in Coins
               PROVE /\ confirmed[c] # None /\ age[c] <= MaxHistory - 3
                          => answer[c] = confirmed[c]
                     /\ confirmed[c] = None => answer[c] = run[c].regime
    BY DEF AnswersConfirmed
  <2>1. Agrees(c)
    BY <1>2 DEF ReferenceInv
  <2>2. history[c] \in Seq(Regimes) /\ run[c] \in RunTypes /\ age[c] \in 0..MaxHistory
    BY <1>2 DEF ReferenceInv, ReferenceOK
  <2>3. CASE Len(history[c]) = 0
    BY <2>1, <2>3 DEF Agrees
  <2>4. CASE Len(history[c]) # 0
    BY <2>1, <2>2, <2>4, SearchAnswers DEF Agrees
  <2> QED BY <2>3, <2>4
<1> QED BY <1>1, <1>2, PTL

=============================================================================
