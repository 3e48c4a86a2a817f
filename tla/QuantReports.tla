---------------------------- MODULE QuantReports ----------------------------
(***************************************************************************)
(* The chain of reports over the stored trades: the enriched dataset       *)
(* (src/quant/datasets/trades_enriched.py), MetricsEngine, AnalysisEngine  *)
(* and DecisionEngine.                                                     *)
(*                                                                         *)
(* No report depends on the order of the trades, so the dataset is a bag:  *)
(* a function from kinds of trades, which are records, to their number.    *)
(* Money is in cents, moves are in hundredths of a percent, percentages    *)
(* are in tenths, rounded as the code rounds them.  Averages are compared  *)
(* as fractions: up to 200 trades no comparison changes when the code      *)
(* rounds an average of cents to four places.                              *)
(***************************************************************************)
EXTENDS Integers, Sequences, SequencesExt, FiniteSets, FiniteSetsExt

Abs(a) == IF a < 0 THEN -a ELSE a
When(cond, d) == IF cond THEN <<d>> ELSE <<>>

(* The elements of a list that are in a set, in their order.                *)
Selected(list, those) ==
    FoldLeft(LAMBDA kept, x : IF x \in those THEN Append(kept, x) ELSE kept, <<>>, list)

(* round(part / whole * 100, 1): the nearest tenth, a tie to the even one.  *)
Pct(part, whole) ==
    LET q == (1000 * part) \div whole
        r == 2 * ((1000 * part) % whole)
    IN  IF r > whole \/ (r = whole /\ q % 2 = 1) THEN q + 1 ELSE q

-----------------------------------------------------------------------------
(* Bags of trades, and of signal evaluations.                               *)
Count(d, P(_)) == SumFunctionOnSet(d, {k \in DOMAIN d : P(k)})
Total(d, value(_)) == SumFunction([k \in DOMAIN d |-> d[k] * value(k)])
Size(d) == SumFunction(d)
Only(d, P(_)) == [k \in {x \in DOMAIN d : P(x)} |-> d[k]]

(* build's derived labels: outcome and fee_killed.                          *)
IsWin(t) == t.pnl > 0
IsLoss(t) == t.pnl < 0
FeeKilled(t) == t.gross > 0 /\ t.pnl <= 0

(* What each analysis says of one group: its size, its rate of wins (0 for  *)
(* an empty group, which the code leaves out and reads with a default) and  *)
(* its total.                                                               *)
Stats(d) ==
    LET n == Size(d)
    IN  [n |-> n, total |-> Total(d, LAMBDA t : t.pnl),
         wr |-> IF n = 0 THEN 0 ELSE Pct(Count(d, IsWin), n)]

(* avg_pnl against a limit, for a group that is not empty.                  *)
AvgBelow(s, cents) == s.total < cents * s.n
AvgAbove(s, cents) == s.total > cents * s.n

-----------------------------------------------------------------------------
(* MetricsEngine.                                                           *)

(* _compute_group, as far as a report compares it: expectancy is the mean.  *)
(* Without a loss profit_factor is None: noFactor.                          *)
Metrics(d) ==
    LET won  == Only(d, IsWin)
        gain == Total(won, LAMBDA t : t.pnl)
        loss == -Total(Only(d, IsLoss), LAMBDA t : t.pnl)
    IN  [trades |-> Size(d), wins |-> Size(won), losses |-> Size(d) - Size(won),
         expectancy |-> gain - loss, gain |-> gain, loss |-> loss,
         noFactor |-> Size(d) > 0 /\ loss = 0, killed |-> Count(d, FeeKilled)]

(* profit_factor against a limit in percent; an empty dataset has 0.        *)
FactorAbove(m, limit) == m.trades > 0 /\ 100 * m.gain > limit * m.loss
FactorBelow(m, limit) == m.trades = 0 \/ 100 * m.gain < limit * m.loss

(* _compute_exit_efficiency: the trades that had 0.05 % to win, each with   *)
(* the percentage of its best move that it kept, between -200 and 200.      *)
EfficiencyMinMfe == 5
Kept(t) == Max({-200, Min({200, (100 * t.pnlPct) \div t.mfe})})
EfficiencyBelow(d, limit) ==
    LET sample == Only(d, LAMBDA t : t.mfe >= EfficiencyMinMfe)
        n == Size(sample)
    IN  IF n = 0 THEN 0 < limit ELSE Total(sample, Kept) < limit * n

-----------------------------------------------------------------------------
(* AnalysisEngine.analyze.                                                  *)
ScoreBucket(t) == CASE t.total >= 80 -> "80+" [] t.total >= 60 -> "60-80"
                    [] t.total >= 40 -> "40-60" [] OTHER -> "0-40"
_score_effectiveness(d) ==
    [b \in {"0-40", "40-60", "60-80", "80+"} |->
        Stats(Only(d, LAMBDA t : ScoreBucket(t) = b))]

HighMicro(t) == t.micro >= 50
_micro_value(d) ==
    [high |-> Stats(Only(d, HighMicro)), low |-> Stats(Only(d, LAMBDA t : ~HighMicro(t)))]

HoldBucket(t) == CASE t.hold < 60 -> "<1m" [] t.hold < 180 -> "1-3m"
                   [] t.hold < 600 -> "3-10m" [] t.hold < 1800 -> "10-30m"
                   [] OTHER -> "30m+"
_holding_time(d) ==
    [b \in {"<1m", "1-3m", "3-10m", "10-30m", "30m+"} |->
        Stats(Only(d, LAMBDA t : HoldBucket(t) = b))]

(* _coin_analysis: the coins with two trades, the best total first.         *)
_coin_analysis(d) ==
    LET of == [c \in {t.coin : t \in DOMAIN d} |->
                  [coin |-> c, s |-> Stats(Only(d, LAMBDA t : t.coin = c))]]
        coins == {of[c] : c \in {x \in DOMAIN of : of[x].s.n >= 2}}
    IN  CHOOSE list \in [1..Cardinality(coins) -> coins] :
            /\ Range(list) = coins
            /\ \A i, j \in DOMAIN list : i < j => list[i].s.total >= list[j].s.total

_side_analysis(d) ==
    [side \in {"LONG", "SHORT"} |-> Stats(Only(d, LAMBDA t : t.side = side))]

(* _exit_analysis, of which the reports read the share of stop losses.      *)
StopLossPct(d) == Pct(Count(d, LAMBDA t : t.exit = "SL"), Size(d))

(* _fee_impact: fee_killed_pct, and fee_pct_of_gross against a limit; it is *)
(* 0 when the gross profits and losses cancel out (if the code's floats do  *)
(* so too).                                                                 *)
_fee_impact(d) ==
    [gross |-> Abs(Total(d, LAMBDA t : t.gross)), fees |-> Total(d, LAMBDA t : t.fee),
     killedPct |-> Pct(Count(d, FeeKilled), Size(d))]
FeesAbove(f, percent) == f.gross # 0 /\ 100 * f.fees > percent * f.gross
FeesBelow(f, percent) == f.gross = 0 \/ 100 * f.fees < percent * f.gross

PoisonCoins(coins, cents) ==
    Selected(coins, {c \in Range(coins) : AvgBelow(c.s, -cents) /\ c.s.n >= 3})
FirstOf(s, n) == SubSeq(s, 1, Min({n, Len(s)}))

(* _generate_insights, each named by its topic; actions is the number of    *)
(* signal evaluations by action.  Recommendations are read by no summary.   *)
_generate_insights(d, actions) ==
    LET score == _score_effectiveness(d)
        micro == _micro_value(d)
        fast  == _holding_time(d)["<1m"]
        both  == micro.high.n > 3 /\ micro.low.n > 3
        adds  == micro.high.wr > micro.low.wr + 100
    IN  [insights |->
            {topic \in {"score", "micro", "filter"} :
                \/ topic = "score" /\ score["80+"].wr > score["0-40"].wr + 150
                \/ topic = "micro" /\ both /\ adds
                \/ topic = "filter" /\ actions["BLOCKED"] > 0 /\ actions["ENTER"] > 0},
         warnings |->
            {topic \in {"micro", "stops", "fast", "fees"} :
                \/ topic = "micro" /\ both /\ ~adds /\ micro.low.wr > micro.high.wr
                \/ topic = "stops" /\ StopLossPct(d) > 600
                \/ topic = "fast" /\ fast.n > 5 /\ fast.wr < 300
                \/ topic = "fees" /\ _fee_impact(d).killedPct > 100}]

-----------------------------------------------------------------------------
(* DecisionEngine.  A decision is its type, its topic and its confidence.   *)
Decision(type, topic, confidence) ==
    [type |-> type, topic |-> topic, confidence |-> confidence]
Decisions ==
    [type : {"recommendation", "warning", "insight"},
     topic : {"raise score_min", "score is strong", "micro hurts", "micro adds", "trailing",
              "stop sizing", "block coin", "reduce SHORT", "reduce LONG", "too fast", "too long",
              "fees kill", "fees weigh"},
     confidence : {"high", "medium"}]
High == {x \in Decisions : x.confidence = "high"}
HighFrom(n, least) == IF n >= least THEN "high" ELSE "medium"

_check_score_threshold(d) ==
    LET of == _score_effectiveness(d) IN
    When(of["0-40"].n >= 3 /\ of["0-40"].wr < 350,
         Decision("recommendation", "raise score_min", HighFrom(of["0-40"].n, 5)))
    \o When(of["80+"].n >= 3 /\ of["80+"].wr > 600,
            Decision("insight", "score is strong", "medium"))

(* Mutant of _check_micro_filter: the two groups are compared the other way *)
(* round.                                                                   *)
MicroSwapped(d) ==
    LET of == _micro_value(d) IN
    IF of.high.n < 3 \/ of.low.n < 3 THEN <<>>
    ELSE IF of.high.wr > of.low.wr + 50 THEN <<Decision("warning", "micro hurts", "medium")>>
    ELSE When(of.low.wr > of.high.wr + 150, Decision("insight", "micro adds", "high"))

_check_micro_filter(d) ==
    LET of == _micro_value(d) IN
    IF of.high.n < 3 \/ of.low.n < 3 THEN <<>>
    ELSE IF of.low.wr > of.high.wr + 50 THEN <<Decision("warning", "micro hurts", "medium")>>
    ELSE When(of.high.wr > of.low.wr + 150, Decision("insight", "micro adds", "high"))

_check_trailing(d) ==
    When(EfficiencyBelow(d, 30) /\ Size(d) >= 10, Decision("warning", "trailing", "high"))

(* avg_loss > 2 * avg_win, both being of one trade at least.                *)
_check_sl_sizing(m) ==
    When(m.loss > 0 /\ m.gain > 0 /\ m.loss * m.wins > 2 * m.gain * m.losses,
         Decision("recommendation", "stop sizing", "high"))

_check_coin_blocking(d) ==
    LET poison == FirstOf(PoisonCoins(_coin_analysis(d), 30), 3)
    IN  [i \in DOMAIN poison |-> Decision("recommendation", "block coin",
                                          HighFrom(poison[i].s.n, 5))]

_check_side_bias(d) ==
    LET of == _side_analysis(d) IN
    When(/\ of["LONG"].n >= 5 /\ of["SHORT"].n >= 5
         /\ Abs(of["LONG"].wr - of["SHORT"].wr) > 200,
         Decision("recommendation", IF of["LONG"].wr > of["SHORT"].wr THEN "reduce SHORT"
                                                                     ELSE "reduce LONG", "medium"))

_check_holding_time(d) ==
    LET of == _holding_time(d)
        Bad(s) == s.n >= 3 /\ s.wr < 300
    IN  When(Bad(of["<1m"]), Decision("warning", "too fast", "medium"))
        \o When(Bad(of["30m+"]), Decision("warning", "too long", "medium"))

_check_fee_optimization(d) ==
    LET of == _fee_impact(d) IN
    When(of.killedPct > 50, Decision("recommendation", "fees kill", "high"))
    \o When(FeesAbove(of, 30), Decision("warning", "fees weigh", "medium"))

(* What the checks find, in their order.                                    *)
Found(d, m) ==
    _check_score_threshold(d) \o _check_micro_filter(d) \o _check_trailing(d)
    \o _check_sl_sizing(m) \o _check_coin_blocking(d) \o _check_side_bias(d)
    \o _check_holding_time(d) \o _check_fee_optimization(d)

(* Mutant of generate: sorted the other way round.                          *)
HighLast(d, m) ==
    Selected(Found(d, m), Decisions \ High) \o Selected(Found(d, m), High)

(* generate: a stable sort, the higher confidence first.                    *)
generate(d, m) ==
    Selected(Found(d, m), High) \o Selected(Found(d, m), Decisions \ High)

=============================================================================
