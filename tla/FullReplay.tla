----------------------------- MODULE FullReplay -----------------------------
(***************************************************************************)
(* A replay of recorded events through the trading engine                  *)
(* (src/replay/full_replay.py): each event updates the feature store and   *)
(* the open positions, closes those beyond a level, and every ScanEvery    *)
(* events scans all coins and lets the PolicyEngine decide on the best     *)
(* signals.  Composed here are the PolicyEngine, SizingEngine, RiskManager *)
(* and PositionManager of src/engine/, the RegimeEvaluator, and the        *)
(* RegimeDetector with its feature store.                                  *)
(*                                                                         *)
(* One task runs all of it, but the wall clock, by which the code measures *)
(* cooldowns, windows and the cache, may advance between any two calls.    *)
(*                                                                         *)
(* Exact integers stand for the floats: prices are whole, levels are in    *)
(* Unit-ths of a price, percentages of a price in Unit-ths, scores in      *)
(* Unit-ths with components in hundredths, money in cents.                 *)
(***************************************************************************)
EXTENDS RegimeDetector, SequencesExt

CONSTANTS
    Feed,          \* the events that may come: [coin, type, price, shows]
    ScanEvery,     \* scan_every_n
    MaxSignals,    \* signals tried per scan
    MaxPositions, MaxExposure, Cooldown, WeekendMaxPositions, \* PolicyConfig
    MaxSlPerWindow, SlWindow,   \* RiskConfig
    MinTrades,     \* should_trade_regime's min_trades
    MaxEvents, MaxTime          \* bounds: events of a replay, ticks

ASSUME EngineAssumption ==
    /\ {ScanEvery, MaxSignals, MaxPositions, MaxExposure} \subseteq Nat \ {0}
    /\ {Cooldown, WeekendMaxPositions, MaxSlPerWindow, SlWindow} \subseteq Nat
    /\ {MinTrades, MaxEvents, MaxTime} \subseteq Nat

(* An event shows some of the features; the trend is computed from trades.  *)
ASSUME FeedAssumption ==
    \A e \in Feed :
        /\ e.coin \in Coins /\ e.price \in Nat \ {0}
        /\ DOMAIN e.shows \subseteq DOMAIN Cold
        /\ \A k \in DOMAIN e.shows :
              IF k = "momentum" THEN e.shows[k] \in [{"LONG", "SHORT"} -> Int]
                                ELSE e.shows[k] \in Int
        /\ e.type # "trade" => "strength" \notin DOMAIN e.shows

VARIABLES
    stage,         \* what on_event does: "event" (none), "close", "scan"; "over"
    count,         \* event_count
    price,         \* [Coins -> last price in FeatureStore._trades, 0 if none]
    positions,     \* PositionManager.open_positions
    closing,       \* to_close of the current event
    closed,        \* PositionManager.closed_positions with their net_pnl
    open,          \* the coins of PolicyEngine._open_positions
    exposure,      \* PolicyEngine._total_exposure_usd
    cooldown,      \* [Coins -> PolicyEngine._cooldowns, 0 if none]
    slTimes,       \* RiskManager._sl_timestamps
    stats,         \* [Regimes -> RegimeEvaluator._by_regime]
    toScan,        \* the coins the current scan has still to read
    signals,       \* what it found and has not tried
    taken,         \* how many it tried
    entered        \* evaluations that said ENTER

book == <<positions, closed>>
policy == <<open, exposure, cooldown>>
scan == <<toScan, signals, taken>>
results == <<stats, slTimes>>
vars == <<now, detector, stage, count, price, closing, book, policy, results,
          scan, entered>>

Unit == 10000
Leverage == 3
Init ==
    /\ DetectorInit
    /\ stage = "event"
    /\ count = 0
    /\ price = [c \in Coins |-> 0]
    /\ positions = << >>
    /\ closing = << >>
    /\ closed = << >>
    /\ open = {}
    /\ exposure = 0
    /\ cooldown = [c \in Coins |-> 0]
    /\ slTimes = << >>
    /\ stats = [r \in Regimes |-> [trades |-> 0, pnl |-> 0]]
    /\ toScan = {}
    /\ signals = {}
    /\ taken = 0
    /\ entered = 0

Clamp(x, low, high) == Max({low, Min({x, high})})

-----------------------------------------------------------------------------
(* SignalEngine: the scores of a snapshot's features for one side.          *)

Along(x, side) == Max({0, IF side = "LONG" THEN x ELSE -x})

TrendScore(f, side) ==
    Clamp((Along(f.strength, side) * (5000 + f.r2 * 30 + (f.consistency - 50) * 40))
            \div Unit, 0, 100)

MicroScore(f, side) ==
    Clamp((Along(f.imbalance, side) + Along(f.tradeImbalance, side)) \div 2
            + Max({0, 10 - f.spread}) * 2, 0, 100)

(* The factor by which a regime reduces a score, in percent.                *)
Penalty(regime, side) ==
    CASE regime = "trending_up" /\ side = "SHORT" -> 30
      [] regime = "trending_down" /\ side = "LONG" -> 30
      [] regime = "quiet" -> 50
      [] regime = "high_vol" -> 70
      [] OTHER -> 100

(* _evaluate for one side, given the regime its call of detect returned.    *)
SignalOf(c, side, s, regime) ==
    LET f == s.features
        raw == TrendScore(f, side) * 45 + MicroScore(f, side) * 30
                + f.momentum[side] * 25
    IN [coin |-> c, side |-> side, regime |-> regime, weekend |-> s.weekend,
        trend |-> TrendScore(f, side), micro |-> MicroScore(f, side),
        score |-> (raw * Penalty(regime, side)) \div 100]

-----------------------------------------------------------------------------
(* PolicyEngine.                                                            *)

Boost(regime) ==
    CASE regime \in {"trending_up", "trending_down"} -> 120
      [] regime = "choppy" -> 50
      [] regime = "high_vol" -> 70
      [] OTHER -> 100

Factor(x, percent) == (x * percent) \div 100

Adjusted(s) == Factor(s.score, Boost(s.regime))

OnCooldown(c) == now < cooldown[c]

ShouldTradeRegime(r) == stats[r].trades < MinTrades \/ stats[r].pnl > 0

(* Mutant of Admits: the exposure is not looked at.                         *)
AdmitsAnyExposure(s) ==
    /\ Cardinality(open) < MaxPositions
    /\ s.coin \notin open

(* The limits of evaluate: positions, one per coin, exposure.               *)
Admits(s) ==
    /\ Cardinality(open) < MaxPositions
    /\ s.coin \notin open
    /\ exposure < MaxExposure

(* evaluate returns ENTER.                                                  *)
Accepts(s) ==
    /\ ~OnCooldown(s.coin)
    /\ Admits(s)
    /\ s.regime # "quiet"
    /\ ShouldTradeRegime(s.regime)
    /\ s.trend >= 15
    /\ s.micro >= 10
    /\ s.weekend => Cardinality(open) < WeekendMaxPositions /\ s.score >= 5000
    /\ Adjusted(s) >= 3500

-----------------------------------------------------------------------------
(* SizingEngine and RiskManager.                                            *)

MinUsd == 1500
MaxUsd == 15000

(* calculate: 2.5 % of a budget of 1000, scaled by score and multiplier.    *)
SizeUsd(s) ==
    Clamp(Factor((2500 * (5000 + Adjusted(s))) \div Unit, Boost(s.regime)), MinUsd, MaxUsd)

(* size_coins * price of a position: the value it moves with the market.    *)
Notional(p) == p.usd * Leverage

(* calculate_levels: distances from the ATR, clamped, fitted to the regime. *)
SlPct(f, regime) ==
    Factor(IF f.atr > 0 THEN Clamp((f.atr * 15) \div 10, 15, 100) ELSE 50,
           CASE regime = "high_vol" -> 130 [] regime = "quiet" -> 70 [] OTHER -> 100)
TpPct(f, regime) ==
    Factor(IF f.atr > 0 THEN Clamp((f.atr * 25) \div 10, 30, 200) ELSE 120,
           CASE regime = "high_vol" -> 150 [] regime = "quiet" -> 60
             [] regime = "choppy" -> 100 [] OTHER -> 130)
TrailingActivation == 40
TrailingDistance(regime) == IF regime = "high_vol" THEN 45 ELSE 30

Level(entry, side, pct) ==
    IF side = "LONG" THEN entry * (Unit + pct) ELSE entry * (Unit - pct)

(* The elements of a list that are in S, in their order.                    *)
Only(list, S) ==
    FoldLeft(LAMBDA kept, x : IF x \in S THEN Append(kept, x) ELSE kept, << >>, list)

(* The timestamps later than the cutoff.                                    *)
InWindow == {i \in DOMAIN slTimes : slTimes[i] > now - SlWindow}

(* Mutant of SlGuardActive: an off-by-one at the limit.                     *)
SlGuardLate == Cardinality(InWindow) > MaxSlPerWindow

(* is_sl_guard_active.                                                      *)
SlGuardActive == Cardinality(InWindow) >= MaxSlPerWindow

(* record_trade_result for a stop-loss: append, then trim.                  *)
Trimmed ==
    LET times == Append(slTimes, now) IN
    Only(times, {t \in Range(times) : t > now - SlWindow})

-----------------------------------------------------------------------------
(* PositionManager.                                                         *)

Profit(p) ==
    IF p.side = "LONG" THEN p.current - p.entry ELSE p.entry - p.current

Tighter(p, stop) ==
    IF p.side = "LONG" THEN Max({p.sl, stop}) ELSE Min({p.sl, stop})

(* Mutant of Updated: the stop trails the last price, not the best one.     *)
UpdatedAnew(p, mid) ==
    LET q == [p EXCEPT !.current = mid, !.high = Max({@, mid}), !.low = Min({@, mid})]
        stop == IF q.side = "LONG" THEN mid * (Unit - q.trail) ELSE mid * (Unit + q.trail)
    IN IF Profit(q) * Unit >= TrailingActivation * q.entry
       THEN [q EXCEPT !.sl = stop] ELSE q

(* update_price for one position: marks, then the trailing stop.            *)
Updated(p, mid) ==
    LET q == [p EXCEPT !.current = mid, !.high = Max({@, mid}), !.low = Min({@, mid})]
        stop == IF q.side = "LONG" THEN q.high * (Unit - q.trail)
                                   ELSE q.low * (Unit + q.trail)
    IN IF Profit(q) * Unit >= TrailingActivation * q.entry
       THEN [q EXCEPT !.sl = Tighter(q, stop)] ELSE q

(* Mutant of StopHit: a price at the stop does not hit it.                  *)
StopPassed(p) ==
    IF p.side = "LONG" THEN p.current * Unit < p.sl ELSE p.current * Unit > p.sl

StopHit(p) ==
    IF p.side = "LONG" THEN p.current * Unit <= p.sl ELSE p.current * Unit >= p.sl
TargetHit(p) ==
    IF p.side = "LONG" THEN p.current * Unit >= p.tp ELSE p.current * Unit <= p.tp

(* close: what is left of the position, its net result after fees of 0.05 % *)
(* on entry and exit.                                                       *)
Closed(p, reason) ==
    LET gross == Profit(p) * Notional(p)
        fees == ((p.entry + p.current) * Notional(p) * 5) \div Unit
    IN [coin |-> p.coin, at |-> p.at, exit |-> now, usd |-> p.usd,
        reason |-> reason, net |-> (gross - fees) \div p.entry]

-----------------------------------------------------------------------------
(* on_event.                                                                *)

(* The bus hands the event to the feature store; a trade has a new price,   *)
(* and positions of its coin are marked and perhaps to be closed.  What the *)
(* features show after it is part of the event: those of a trade computed   *)
(* from trades, those of a book from the book.                              *)
ReceiveEvent(e) ==
    /\ stage = "event" /\ count < MaxEvents
    /\ count' = count + 1
    /\ Observe(e.coin, [k \in DOMAIN Cold |->
            IF k \in DOMAIN e.shows THEN e.shows[k] ELSE market[e.coin][k]])
    /\ IF e.type = "trade"
       THEN /\ price' = [price EXCEPT ![e.coin] = e.price]
            /\ positions' = [i \in DOMAIN positions |->
                    IF positions[i].coin = e.coin THEN Updated(positions[i], e.price)
                                                  ELSE positions[i]]
            /\ closing' = Only(positions', {p \in Range(positions') :
                                  p.coin = e.coin /\ (StopHit(p) \/ TargetHit(p))})
       ELSE UNCHANGED <<price, positions, closing>>
    /\ stage' = "close"
    /\ UNCHANGED <<now, cache, history, closed, policy, results, scan, entered>>

(* Mutants of RegisterExit: the notional is not given back; the cooldown    *)
(* starts from the entry.                                                   *)
KeepExposure(p) ==
    /\ open' = open \ {p.coin}
    /\ cooldown' = [cooldown EXCEPT ![p.coin] = now + Cooldown]
    /\ UNCHANGED exposure
CooldownFromEntry(p) ==
    /\ open' = open \ {p.coin}
    /\ exposure' = Max({0, exposure - p.usd})
    /\ cooldown' = [cooldown EXCEPT ![p.coin] = p.at + Cooldown]

RegisterExit(p) ==
    /\ open' = open \ {p.coin}
    /\ exposure' = Max({0, exposure - p.usd})
    /\ cooldown' = [cooldown EXCEPT ![p.coin] = now + Cooldown]

RecordTrade(regime, net) ==
    stats' = [stats EXCEPT ![regime] = [trades |-> @.trades + 1, pnl |-> @.pnl + net]]

(* The loop over to_close: close, register_exit, record_trade_result and    *)
(* record_trade under the regime that detect returns now.  (_daily_pnl is   *)
(* written here and read nowhere in a replay.)                              *)
ClosePosition ==
    LET p == Head(closing)
        result == Closed(p, IF StopHit(p) THEN "SL" ELSE "TP")
    IN
    /\ stage = "close" /\ closing # << >>
    /\ positions' = RemoveFirst(positions, p)
    /\ closed' = Append(closed, result)
    /\ RegisterExit(p)
    /\ slTimes' = IF StopHit(p) THEN Trimmed ELSE slTimes
    /\ Remember(p.coin, OneReading(p.coin))
    /\ RecordTrade(Confirmed(OneReading(p.coin)), result.net)
    /\ closing' = Tail(closing)
    /\ UNCHANGED <<now, stage, count, price, scan, entered>>

(* Every ScanEvery events a scan follows, unless the stop-loss guard holds. *)
BeginScan ==
    /\ stage = "close" /\ closing = << >>
    /\ IF count % ScanEvery = 0 /\ ~SlGuardActive
       THEN stage' = "scan" /\ toScan' = Coins
       ELSE stage' = "event" /\ UNCHANGED toScan
    /\ UNCHANGED <<now, detector, count, price, closing, book, policy, results,
                   signals, taken, entered>>

(* scan for one coin: LONG and SHORT each ask the detector.                 *)
ScanCoin(c) ==
    LET s == Snapshot(c)
        found == {SignalOf(c, "LONG", s, Confirmed(OneReading(c))),
                  SignalOf(c, "SHORT", s, Confirmed(TwoReadings(c)))}
    IN
    /\ stage = "scan" /\ c \in toScan
    /\ toScan' = toScan \ {c}
    /\ signals' = signals \cup {g \in found : g.score >= 2000}
    /\ Remember(c, TwoReadings(c))
    /\ UNCHANGED <<now, stage, count, price, closing, book, policy, results,
                   taken, entered>>

(* evaluate on the best signal left; an expired cooldown is removed.        *)
Decide(s) ==
    /\ stage = "scan" /\ toScan = {} /\ taken < MaxSignals
    /\ s \in signals /\ \A g \in signals : g.score <= s.score
    /\ signals' = signals \ {s}
    /\ taken' = taken + 1
    /\ cooldown' = [cooldown EXCEPT ![s.coin] = IF OnCooldown(s.coin) THEN @ ELSE 0]
    /\ UNCHANGED <<now, stage, count, price, closing, closed, results, toScan>>

Skip(s) ==
    /\ Decide(s)
    /\ ~Accepts(s)
    /\ UNCHANGED <<detector, positions, open, exposure, entered>>

(* ENTER: the regime is read once more, for the levels and the position.    *)
Enter(s) ==
    LET c == s.coin
        f == Snapshot(c).features
        regime == Confirmed(OneReading(c))
        usd == SizeUsd(s)
        against == IF s.side = "LONG" THEN "SHORT" ELSE "LONG"
    IN
    /\ Decide(s)
    /\ Accepts(s)
    /\ entered' = entered + 1
    /\ IF price[c] > 0
       THEN /\ positions' = Append(positions,
                   [coin |-> c, side |-> s.side, entry |-> price[c], usd |-> usd,
                    sl |-> Level(price[c], against, SlPct(f, regime)),
                    tp |-> Level(price[c], s.side, TpPct(f, regime)),
                    trail |-> TrailingDistance(regime), regime |-> regime,
                    current |-> price[c], high |-> price[c], low |-> price[c],
                    at |-> now])
            /\ open' = open \cup {c}
            /\ exposure' = exposure + usd
            /\ Remember(c, OneReading(c))
       ELSE UNCHANGED <<positions, open, exposure, detector>>

EndScan ==
    /\ stage = "scan" /\ toScan = {} /\ (signals = {} \/ taken = MaxSignals)
    /\ stage' = "event"
    /\ signals' = {}
    /\ taken' = 0
    /\ UNCHANGED <<now, detector, count, price, closing, book, policy, results,
                   toScan, entered>>

(* run, after the last event: open positions close at their last price.     *)
EndOfData ==
    /\ stage = "event"
    /\ stage' = "over"
    /\ closed' = closed \o [i \in DOMAIN positions |->
                                Closed(positions[i], "END_OF_DATA")]
    /\ positions' = << >>
    /\ UNCHANGED <<now, detector, count, price, closing, policy, results, scan, entered>>

Tick ==
    /\ stage # "over" /\ now < MaxTime
    /\ now' = now + 1
    /\ UNCHANGED <<detector, stage, count, price, closing, book, policy, results,
                   scan, entered>>

Next ==
    \/ \E e \in Feed : ReceiveEvent(e)
    \/ ClosePosition
    \/ BeginScan
    \/ \E c \in Coins : ScanCoin(c)
    \/ \E s \in signals : Skip(s) \/ Enter(s)
    \/ EndScan
    \/ EndOfData
    \/ Tick

Spec == Init /\ [][Next]_vars

-----------------------------------------------------------------------------
(* Safety.                                                                  *)

SumUsd(list) == SumFunction([i \in DOMAIN list |-> list[i].usd])

(* The exits at a level, not by the end of the data.                        *)
AtLevel(p) == p.reason # "END_OF_DATA"
NetAtLevel == SumFunction([i \in DOMAIN closed |->
                              IF AtLevel(closed[i]) THEN closed[i].net ELSE 0])

(* Three books are kept of the same trades, each updated by calls of its    *)
(* own: the coins and the exposure of the policy are those of the open      *)
(* positions, and the statistics per regime, which may close a regime, hold *)
(* every exit at a level once, with its result.  Nothing is open after the  *)
(* end of the data.                                                         *)
BooksAgree ==
    /\ stage # "over" => /\ open = {positions[i].coin : i \in DOMAIN positions}
                         /\ exposure = SumUsd(positions)
    /\ SumFunction([r \in Regimes |-> stats[r].trades])
            = Cardinality({i \in DOMAIN closed : AtLevel(closed[i])})
    /\ SumFunction([r \in Regimes |-> stats[r].pnl]) = NetAtLevel
    /\ entered = Len(positions) + Len(closed)
    /\ stage = "over" => positions = << >>

(* The limits of the policy hold of the real positions: their number, one   *)
(* per coin, and an exposure that only the latest position, admitted below  *)
(* the limit, may carry beyond it.                                          *)
WithinLimits ==
    /\ Len(positions) <= MaxPositions
    /\ \A i, j \in DOMAIN positions :
            positions[i].coin = positions[j].coin => i = j
    /\ positions # << >> => SumUsd(Front(positions)) < MaxExposure

(* Once an event is handled, every open position is marked with the last    *)
(* price of its coin and lies strictly between its stop and its target,     *)
(* however far the price jumped and the stop was trailed.                   *)
LevelsHeld ==
    stage \in {"event", "scan"} =>
        \A i \in DOMAIN positions : LET p == positions[i] IN
            /\ p.current = price[p.coin]
            /\ IF p.side = "LONG" THEN p.sl < p.current * Unit /\ p.current * Unit < p.tp
                                  ELSE p.tp < p.current * Unit /\ p.current * Unit < p.sl

(* After an exit at a level the coin is not entered again before the        *)
(* cooldown has passed, by the times the positions themselves carry.        *)
CooldownKept ==
    \A i \in DOMAIN closed :
        AtLevel(closed[i])
        => /\ \A j \in DOMAIN positions :
                positions[j].coin = closed[i].coin
                => positions[j].at >= closed[i].exit + Cooldown
           /\ \A j \in i + 1..Len(closed) :
                closed[j].coin = closed[i].coin
                => closed[j].at >= closed[i].exit + Cooldown

(* A stop only ever moves towards the price: neither marking nor anything   *)
(* that happens to other positions loosens it.                              *)
StopNeverLoosens ==
    [][\A i \in DOMAIN positions, j \in DOMAIN positions' :
        LET p == positions[i]
            q == positions'[j]
        IN p.coin = q.coin /\ p.at = q.at =>
            IF p.side = "LONG" THEN q.sl >= p.sl ELSE q.sl <= p.sl]_vars

(* No position is entered while the window holds MaxSlPerWindow exits by a  *)
(* stop-loss, by the times of the closed positions.                         *)
GuardKept ==
    [][Len(positions') > Len(positions) =>
        Cardinality({i \in DOMAIN closed :
                closed[i].reason = "SL" /\ closed[i].exit > now - SlWindow})
            < MaxSlPerWindow]_vars

=============================================================================
