--------------------------- MODULE ExecutiveSummary ---------------------------
(***************************************************************************)
(* ExecutiveSummaryBuilder.build (src/quant/executive_summary.py).  It     *)
(* reads the trades, then their signals, then asks the score parity        *)
(* analyzer, which runs its queries one by one: each sees what is stored   *)
(* at that moment, and trades and signals go on arriving in between.  What *)
(* follows the reads is one step.                                          *)
(***************************************************************************)
EXTENDS ScoreParity

CONSTANTS
    TradeHistories,     \* the bags of trades a build may find
    SignalHistories,    \* the bags of signal evaluations
    Arriving,           \* kinds of trades that may arrive meanwhile
    ArrivingSignals,    \* kinds of signal evaluations that may
    MaxArrivals         \* how many do: a bound

(* The rows of the two tables as far as a report reads them.  A tag is one  *)
(* of those that mark a trade as not the bot's own, or "" for any other.    *)
TradeType(t) ==
    /\ {t.pnl, t.gross, t.fee, t.hold, t.mfe, t.pnlPct} \subseteq Int
    /\ {t.total, t.trend, t.micro} \subseteq Nat
    /\ t.tag \in {"", "adopted", "manual", "backfill"}
SignalType(s) == s.scores \subseteq AllScores

IsBag(d) == IsFiniteSet(DOMAIN d) /\ d \in [DOMAIN d -> Nat]

ASSUME SummaryAssumption ==
    /\ MaxArrivals \in Nat
    /\ \A d \in TradeHistories :
         IsBag(d) /\ Arriving \subseteq DOMAIN d /\ \A t \in DOMAIN d : TradeType(t)
    /\ \A d \in SignalHistories :
         IsBag(d) /\ ArrivingSignals \subseteq DOMAIN d /\ \A s \in DOMAIN d : SignalType(s)

VARIABLES
    stored,     \* trade_outcomes of the user
    signals,    \* signal_evaluations of the user
    arrived,    \* rows stored since the build began
    at,         \* the read that is next, "finish", "built" or "raised"
    dataset,    \* the trades as build_with_signals returned them
    rows,       \* what the queries on scores and signals returned
    summary     \* the summary, Nothing before

summaryVars == <<stored, signals, arrived, at, dataset, rows, summary>>

Nothing == [edge |-> "none"]

-----------------------------------------------------------------------------
(* Mutant of _compute_edge_status: how well the scores cover is not asked.  *)
EdgeWithoutCoverage(m, coverage) ==
    CASE m.trades < 30 -> "INCONCLUSIVE"
      [] m.expectancy < 0 \/ FactorBelow(m, 50) -> "NEGATIVE"
      [] m.expectancy > 0 /\ FactorAbove(m, 120) -> "POSITIVE"
      [] m.expectancy > 0 /\ FactorAbove(m, 80) -> "NEUTRAL"
      [] OTHER -> "INCONCLUSIVE"

_compute_edge_status(m, coverage) ==
    IF m.trades < 30 \/ coverage < 500 THEN "INCONCLUSIVE"
    ELSE IF m.expectancy < 0 \/ FactorBelow(m, 50) THEN "NEGATIVE"
    ELSE IF m.expectancy > 0 /\ FactorAbove(m, 120) THEN "POSITIVE"
    ELSE IF m.expectancy > 0 /\ FactorAbove(m, 80) THEN "NEUTRAL"
    ELSE "INCONCLUSIVE"

(* Neither status asked for is one that _build_replay_evidence returns.     *)
_compute_confidence(m, coverage, replay) ==
    IF m.trades < 30 \/ coverage < 500 THEN "LOW"
    ELSE IF m.trades > 100 /\ coverage > 800 /\ replay \in {"CONFIRMED", "HAS_DATA"} THEN "HIGH"
    ELSE IF coverage > 500 THEN "MEDIUM"
    ELSE "LOW"

_compute_data_quality(p, m) ==
    IF p.realStatus = "OK" /\ m.trades >= 30 THEN "GOOD"
    ELSE IF p.realStatus = "DEGRADED" THEN "DEGRADED"
    ELSE IF p.realStatus = "NO_DATA" \/ m.trades = 0 THEN "NO_DATA"
    ELSE "POOR"

(* The classification; a replay that could not be read counts as data.      *)
_compute_joint_conclusions(m, replay, p) ==
    LET gains == m.expectancy > 0 /\ FactorAbove(m, 100) IN
    IF m.trades = 0 THEN "INVALID"
    ELSE IF p.status \notin {"OK", "DEGRADED"} THEN "BLOCKED_BY_DATA_QUALITY"
    ELSE IF m.trades < 30 THEN "WEAK_EVIDENCE"
    ELSE IF replay # "NO_DATA" THEN IF gains THEN "CONFIRMED" ELSE "CONFLICTING"
    ELSE IF gains \/ m.expectancy <= 0 THEN "LIKELY"
    ELSE "WEAK_EVIDENCE"

MicroAdds(d) ==
    LET of == _micro_value(d) IN of.high.n >= 3 /\ of.high.wr > of.low.wr + 100

(* Each extract is the set of its topics.                                   *)
_extract_what_works(d, m, insights) ==
    LET score == _score_effectiveness(d)["80+"]
        coins == _coin_analysis(d)
    IN  insights \cup
        {topic \in {"score", "winrate", "profit", "micro", "LONG", "SHORT", "coins"} :
            \/ topic = "score" /\ score.wr > 550 /\ score.n >= 3
            \/ topic = "winrate" /\ 2 * m.wins > m.trades
            \/ topic = "profit" /\ FactorAbove(m, 120)
            \/ topic = "micro" /\ MicroAdds(d)
            \/ /\ topic \in {"LONG", "SHORT"}
               /\ _side_analysis(d)[topic].wr > 550 /\ _side_analysis(d)[topic].n >= 5
            \/ topic = "coins" /\ \E i \in DOMAIN coins : AvgAbove(coins[i].s, 10) /\ coins[i].s.n >= 3}

_extract_what_fails(d, m, warnings) ==
    warnings \cup
        {topic \in {"winrate", "profit", "fees", "coins", "stops"} :
            \/ topic = "winrate" /\ 10 * m.wins < 4 * m.trades /\ m.trades > 10
            \/ topic = "profit" /\ FactorBelow(m, 100) /\ m.trades > 10
            \/ topic = "fees" /\ 100 * m.killed > 5 * m.trades
            \/ topic = "coins" /\ PoisonCoins(_coin_analysis(d), 20) # <<>>
            \/ topic = "stops" /\ StopLossPct(d) > 600}

_extract_what_to_change(decisions) ==
    FirstOf(Selected(decisions, {x \in Decisions : x.type \in {"recommendation", "warning"}}), 8)

_extract_do_not_touch(d) ==
    LET score == _score_effectiveness(d)
        keep  == {topic \in {"score", "micro", "fees", "LONG", "SHORT"} :
                    \/ topic = "score" /\ score["80+"].wr > score["0-40"].wr + 100
                    \/ topic = "micro" /\ MicroAdds(d)
                    \/ topic = "fees" /\ FeesBelow(_fee_impact(d), 15)
                    \/ /\ topic \in {"LONG", "SHORT"}
                       /\ _side_analysis(d)[topic].wr > 550 /\ _side_analysis(d)[topic].n >= 10}
    IN  IF keep = {} THEN {"more data"} ELSE keep

(* The status is never NO_DATA here, see Raises.                            *)
_extract_data_quality_issues(p) ==
    p.anomalies \cup (IF p.coverage < 800 THEN {"COVERAGE"} ELSE {})

_compute_next_best_action(decisions, m, coverage) ==
    IF m.trades = 0 THEN "capture"
    ELSE IF m.trades < 30 THEN "accumulate"
    ELSE IF coverage < 500 THEN "fix scores"
    ELSE IF decisions # <<>> THEN Head(decisions).topic
    ELSE "continue"

(* The summary of a dataset, of the number of evaluations by action, of a   *)
(* parity report and of the state of the replay's files.                    *)
Summary(d, actions, p, replay) ==
    LET m == Metrics(d)
        none == Size(d) = 0
        notes == IF none THEN [insights |-> {}, warnings |-> {}] ELSE _generate_insights(d, actions)
        decisions == IF none THEN <<>> ELSE generate(d, m)
    IN  [edge |-> _compute_edge_status(m, p.coverage),
         confidence |-> _compute_confidence(m, p.coverage, replay),
         quality |-> _compute_data_quality(p, m),
         joint |-> _compute_joint_conclusions(m, replay, p),
         works |-> IF none THEN {} ELSE _extract_what_works(d, m, notes.insights),
         fails |-> IF none THEN {} ELSE _extract_what_fails(d, m, notes.warnings),
         change |-> _extract_what_to_change(decisions),
         keep |-> IF none THEN {"fees"} ELSE _extract_do_not_touch(d),
         issues |-> _extract_data_quality_issues(p),
         next |-> _compute_next_best_action(decisions, m, p.coverage),
         top |-> FirstOf(decisions, 10)]

-----------------------------------------------------------------------------
SummaryInit ==
    /\ stored \in TradeHistories
    /\ signals \in SignalHistories
    /\ arrived = 0
    /\ at = "trades"
    /\ dataset = <<>>
    /\ rows = <<>>
    /\ summary = Nothing

(* An ingest request commits a trade or a signal evaluation.                *)
Arrive ==
    /\ arrived < MaxArrivals /\ at \notin {"built", "raised"}
    /\ arrived' = arrived + 1
    /\ \/ \E t \in Arriving : stored' = [stored EXCEPT ![t] = @ + 1] /\ UNCHANGED signals
       \/ \E s \in ArrivingSignals : signals' = [signals EXCEPT ![s] = @ + 1] /\ UNCHANGED stored
    /\ UNCHANGED <<at, dataset, rows, summary>>

Keep == UNCHANGED <<stored, signals, arrived>>

(* TradesEnrichedBuilder.build.                                             *)
ReadTrades ==
    /\ at = "trades" /\ at' = "signals"
    /\ dataset' = stored
    /\ UNCHANGED <<rows, summary>> /\ Keep

(* The query of analyze or build_with_signals that is next, and its row.    *)
ReadRow(here, row, next) ==
    /\ at = here /\ at' = next
    /\ rows' = Append(rows, row)
    /\ UNCHANGED <<dataset, summary>> /\ Keep

ReadSignals ==
    ReadRow("signals", [action \in {"ENTER", "BLOCKED"} |->
                        Count(signals, LAMBDA s : s.action = action)], "scores")
ReadTradeScores == ReadRow("scores", TradeRow(stored), "signal scores")
ReadSignalScores == ReadRow("signal scores", SignalRow(signals), "labelled")
ReadLabelledTrades == ReadRow("labelled", LabelledTradeRow(stored), "labelled signals")
ReadLabelledSignals == ReadRow("labelled signals", LabelledSignalRow(signals), "finish")

(* Everything after the last read.  It raises when the analyzer does, and   *)
(* when profit_factor is None: _extract_what_works compares it.             *)
Finish ==
    /\ at = "finish"
    /\ IF Raises(rows[2]) \/ Metrics(dataset).noFactor
         THEN at' = "raised" /\ UNCHANGED summary
         ELSE /\ at' = "built"
              /\ \E replay \in {"NO_DATA", "DATA_AVAILABLE", "ERROR"} :
                   summary' = Summary(dataset, rows[1],
                                      Report(rows[2], rows[3], rows[4], rows[5]), replay)
    /\ UNCHANGED <<dataset, rows>> /\ Keep

SummaryNext == \/ Arrive \/ ReadTrades \/ ReadSignals \/ ReadTradeScores \/ ReadSignalScores
        \/ ReadLabelledTrades \/ ReadLabelledSignals \/ Finish

SummarySpec == SummaryInit /\ [][SummaryNext]_summaryVars

-----------------------------------------------------------------------------
IsBuilt == at = "built"
Bot(t) == t.tag = "" /\ t.exit # "EXTERNAL"
AsksForData == {"capture", "accumulate", "fix scores"}

(* Fewer than 30 trades, or scores on less than half of them.               *)
LacksData ==
    \/ Metrics(dataset).trades < 30
    \/ Report(rows[2], rows[3], rows[4], rows[5]).coverage < 500

(* The conclusions of one summary do not contradict each other, although    *)
(* each weighs the trades and the scores with thresholds of its own: live   *)
(* and replay confirm an edge only if the edge is not negative or           *)
(* undecided; a positive edge is confirmed, likely or blocked by the data;  *)
(* and the next action asks for more data exactly when the summary lacks    *)
(* it, which is when the edge is undecided, the confidence is low and no    *)
(* joint conclusion is drawn for that reason.                               *)
ConclusionsAgree == IsBuilt =>
    /\ summary.joint = "CONFIRMED" => summary.edge \in {"POSITIVE", "NEUTRAL"}
    /\ summary.edge = "POSITIVE" => summary.joint \in {"CONFIRMED", "LIKELY", "BLOCKED_BY_DATA_QUALITY"}
    /\ summary.next \in AsksForData <=> LacksData
    /\ LacksData => /\ summary.edge = "INCONCLUSIVE" /\ summary.confidence = "LOW"
                    /\ summary.joint \notin {"CONFIRMED", "CONFLICTING", "LIKELY"}

(* The three engines and the summary give no advice on the microstructure   *)
(* filter, the rate of wins or the profit factor and its opposite.          *)
AdviceAgrees == IsBuilt =>
    LET topics == {summary.top[i].topic : i \in DOMAIN summary.top} IN
    /\ summary.works \cap summary.fails \cap {"winrate", "profit", "micro"} = {}
    /\ "micro hurts" \in topics => "micro" \notin summary.works \cup summary.keep
    /\ "micro adds" \in topics => "micro" \in summary.works \cap summary.keep
                                  /\ "micro" \notin summary.fails

(* However many decisions there are, the lists that are cut to eight and to *)
(* ten keep every decision of high confidence.                              *)
NothingHighIsCut == IsBuilt =>
    LET all == Found(dataset, Metrics(dataset)) IN
    Size(dataset) > 0 =>
        \A i \in DOMAIN all : all[i].confidence = "high" =>
            /\ Contains(summary.top, all[i])
            /\ all[i].type # "insight" => Contains(summary.change, all[i])

(* A bot-driven trade that lost money is enough for a summary: what raises  *)
(* is a history without a loss, or without a trade of the bot's own.        *)
LossesAreSummarised == at = "raised" => ~\E t \in DOMAIN dataset :
    dataset[t] > 0 /\ Bot(t) /\ t.pnl < 0

(* "Missing-score reports here mean the bot's scoring pipeline is actually  *)
(* broken for bot-driven entries": an issue on scores that are missing is   *)
(* listed only if a trade of the bot's own, or a signal that reached the    *)
(* last stage, lacks one; adopted and external trades cause none.           *)
IssuesMeanMissingScores ==
    IsBuilt /\ summary.issues \cap (Critical \cup {"MISSING_MICRO_SCORE", "MISSING_TREND_SCORE",
                                                   "COVERAGE"}) # {} =>
        \/ \E t \in DOMAIN stored : stored[t] > 0 /\ Bot(t) /\ 0 \in {t.total, t.trend, t.micro}
        \/ \E s \in DOMAIN signals : signals[s] > 0 /\ Reached(s) /\ s.scores # AllScores

=============================================================================
