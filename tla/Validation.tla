----------------------------- MODULE Validation -----------------------------
(***************************************************************************)
(* run_full_validation (src/quant/validation/runner.py) with what it calls:*)
(* the batches of configs.py, the ExperimentEngine that filters the trades *)
(* and simulates their exits, and the metrics a verdict reads.             *)
(*                                                                         *)
(* Money is in thousandths of a dollar, prices in hundredths of a percent, *)
(* expectancy and profit factor in ten-thousandths and changes against the *)
(* baseline in tenths of a percent, rounded as the code rounds them.       *)
(***************************************************************************)
EXTENDS Integers, Sequences, SequencesExt, FiniteSets,
        FiniteSetsExt

CONSTANTS
    Histories,      \* the lists of trades a validation may be given
    MinTrades,      \* MIN_TRADES
    MinAccepted,    \* trades a valid experiment accepts: 5
    None

(* A trade as the validation reads it.                                      *)
Trades == [pnl : Int, mfe : Int, mae : Int, score : Int, micro : Int,
           ratio : Int \cup {None}, fee : Int]

ASSUME ValidationAssumption ==
    /\ MinTrades \in Nat \ {0} /\ MinAccepted \in Nat \ {0}
    /\ None \notin Int
    /\ \A list \in Histories : list \in Seq(Trades)

VARIABLES
    trades,         \* the trades, the latest first
    batch,          \* which of Batches is under way
    results,        \* what its experiments gave so far
    best,           \* best_name as an index of results, 0 for none
    report,         \* the verdicts of the batches that are done
    phase           \* "running", "done" or "raised"

validationVars == <<trades, batch, results, best, report, phase>>

-----------------------------------------------------------------------------
(* get_batches; a field that is not given has its default.                  *)
Default == [scoreMin |-> 55, microMin |-> 35, sl |-> 40, tp |-> 45,
            partial |-> 30, ratioMax |-> None]

ScoreConfigs == [i \in 1..5 |-> [Default EXCEPT !.scoreMin = <<0, 60, 63, 65, 68>>[i]]]
RatioConfigs == [i \in 1..5 |-> [Default EXCEPT !.ratioMax = <<None, 50, 55, 60, 70>>[i]]]
TrailingConfigs == [i \in 1..4 |-> [Default EXCEPT !.partial = <<30, 30, 30, 50>>[i]]]
SlConfigs == [i \in 1..4 |-> [Default EXCEPT !.sl = <<40, 50, 60, 55>>[i],
                                             !.tp = <<45, 45, 45, 60>>[i]]]

Batches == <<"score_threshold", "trailing_optimization", "sl_fees", "ratio_filter">>
Configs(name) == CASE name = "score_threshold" -> ScoreConfigs
                   [] name = "trailing_optimization" -> TrailingConfigs
                   [] name = "sl_fees" -> SlConfigs
                   [] OTHER -> RatioConfigs

-----------------------------------------------------------------------------
(* round(a / b), b > 0.                                                     *)
Rounded(a, b) == (2 * a + b) \div (2 * b)
Magnitude(a) == IF a < 0 THEN -a ELSE a
Larger(a, b) == Max({a, b})

(* Mutant of ScorePasses: what is above the threshold is filtered.          *)
ScoreBelow(t, c) == t.score > 0 => t.score <= c.scoreMin

(* _would_accept: a score that is missing (0) passes.                       *)
ScorePasses(t, c) == t.score > 0 => t.score >= c.scoreMin

WouldAccept(t, c) ==
    /\ ScorePasses(t, c)
    /\ t.micro > 0 => t.micro >= c.microMin
    /\ c.ratioMax # None /\ t.ratio # None => t.ratio <= c.ratioMax

(* _simulate_exit: the profit under the configuration, from the largest     *)
(* adverse and favourable moves; leverage times notional is 300 dollars.    *)
Simulated(t, c) ==
    IF t.mae >= c.sl THEN -30 * c.sl
    ELSE IF t.mfe >= c.tp
      THEN (30 * c.tp * c.partial + 18 * t.mfe * (100 - c.partial)) \div 100 - t.fee
      ELSE t.pnl

(* The profits of a list of trades, each at its place in the history.       *)
Gains(pnls) == {i \in DOMAIN pnls : pnls[i] > 0}
Losses(pnls) == {i \in DOMAIN pnls : pnls[i] <= 0}

(* _compute_risk: the largest fall of the running total below its peak, the *)
(* first total being the first peak.                                        *)
MaxDrawdown(pnls) ==
    LET Fall(i, j) == -SumFunctionOnSet(pnls, {k \in DOMAIN pnls : i < k /\ k <= j})
    IN  Max({Fall(i, j) : i, j \in DOMAIN pnls})

(* _compute_group: the profit factor is None without a loss.                *)
ProfitFactor(pnls) ==
    LET lost == Magnitude(SumFunctionOnSet(pnls, Losses(pnls))) IN
    IF lost > 0 THEN Rounded(10000 * SumFunctionOnSet(pnls, Gains(pnls)), lost) ELSE None

(* What compute returns; without trades each reader falls back to 0.        *)
compute(pnls) ==
    LET n == Cardinality(DOMAIN pnls) IN
    IF n = 0
      THEN [trades |-> 0, expectancy |-> 0, pf |-> 0, winrate |-> 0, net |-> 0, dd |-> 0]
      ELSE [trades |-> n,
            expectancy |-> Rounded(10 * SumFunction(pnls), n),
            pf |-> ProfitFactor(pnls),
            winrate |-> Rounded(10000 * Cardinality(Gains(pnls)), n),
            net |-> 10 * SumFunction(pnls),
            dd |-> 10 * MaxDrawdown(pnls)]

Baseline == compute([i \in DOMAIN trades |-> trades[i].pnl])

Accepted(c) == {i \in DOMAIN trades : WouldAccept(trades[i], c)}
Experiment(c) == compute([i \in Accepted(c) |-> Simulated(trades[i], c)])

-----------------------------------------------------------------------------
(* _run_batch.                                                              *)
ExpChange(e) ==
    IF Baseline.expectancy = 0 THEN 0
    ELSE Rounded(1000 * (e.expectancy - Baseline.expectancy), Magnitude(Baseline.expectancy))
PfChange(e) == IF Baseline.pf = 0 THEN 0 ELSE Rounded(1000 * (e.pf - Baseline.pf), Baseline.pf)
DdChange(e) ==
    IF Baseline.dd = 0 THEN 0 ELSE Rounded(1000 * (e.dd - Baseline.dd), Larger(Baseline.dd, 100))

Valid(e) == e.trades >= MinAccepted
DdOk(e) == Baseline.dd = 0 \/ 2 * e.dd <= 3 * Baseline.dd

(* Mutant of Better: a later experiment wins a tie, too.                    *)
AsGood(e) == best = 0 \/ e.expectancy >= results[best].expectancy

Better(e) == best = 0 \/ e.expectancy > results[best].expectancy

(* None - x and round(None) raise a TypeError, which nothing catches.       *)
RaisesTypeError(e) == e.pf = None \/ Baseline.pf = None

Config == Configs(Batches[batch])

RunExperiment ==
    /\ phase = "running"
    /\ Len(results) < Len(Config)
    /\ LET e == Experiment(Config[Len(results) + 1]) IN
        IF RaisesTypeError(e)
          THEN phase' = "raised" /\ UNCHANGED <<results, best>>
          ELSE /\ results' = Append(results, e)
               /\ best' = IF Valid(e) /\ DdOk(e) /\ Better(e) THEN Len(results') ELSE best
               /\ UNCHANGED phase
    /\ UNCHANGED <<trades, batch, report>>

(* _detect_data_quality_blockers.                                           *)
Blocked ==
    \/ Len(trades) < MinTrades
    \/ /\ Batches[batch] = "score_threshold"
       /\ 2 * Cardinality({i \in DOMAIN trades : trades[i].score > 0}) < Len(trades)

(* _detect_status_flags, NO_EFFECT: all within two percent of the first.    *)
Close(a, b) == 50 * Magnitude(a - b) <= Larger(Larger(Magnitude(a), Magnitude(b)), 1)
NoEffect ==
    \A e \in Range(results) :
        \A m \in {"expectancy", "pf", "winrate", "net"} : Close(results[1][m], e[m])

Unhealthy(e) == e.expectancy < 0 /\ e.pf < 8000

(* _generate_verdict for the best experiment.                               *)
VerdictOf(e) ==
    IF e.trades < MinTrades THEN "INCONCLUSIVE"
    ELSE IF Unhealthy(e)
      THEN IF ExpChange(e) > 50 THEN "TEST_LIVE" ELSE "REJECT"
    ELSE IF ExpChange(e) > 150 /\ PfChange(e) > 0 /\ DdChange(e) < 200 THEN "ADOPT"
    ELSE IF ExpChange(e) > 50 /\ DdChange(e) < 500 THEN "TEST_LIVE"
    ELSE "REJECT"

Verdict ==
    IF Blocked THEN "BLOCKED_BY_DATA_QUALITY"
    ELSE IF NoEffect \/ best \in {0, 1} THEN "INCONCLUSIVE"
    ELSE VerdictOf(results[best])

(* The next batch starts with no results.                                   *)
NoResults == <<>>

EndBatch ==
    /\ phase = "running"
    /\ Len(results) = Len(Config)
    /\ report' = Append(report, Verdict)
    /\ IF batch = Len(Batches)
         THEN phase' = "done" /\ UNCHANGED <<batch, results, best>>
         ELSE /\ batch' = batch + 1
              /\ results' = NoResults /\ best' = 0
              /\ UNCHANGED phase
    /\ UNCHANGED trades

ValidationInit ==
    /\ trades \in Histories
    /\ batch = 1 /\ results = <<>> /\ best = 0
    /\ report = <<>>
    /\ phase = "running"

ValidationNext == RunExperiment \/ EndBatch
ValidationSpec == ValidationInit /\ [][ValidationNext]_validationVars

-----------------------------------------------------------------------------
(* A stricter threshold never lets more trades through: score_min rises     *)
(* along its batch and ratio_max from the second configuration of its own.  *)
FiltersNest ==
    \A i, j \in DOMAIN results :
        /\ Batches[batch] = "score_threshold" /\ i < j => results[j].trades <= results[i].trades
        /\ Batches[batch] = "ratio_filter" /\ i < j =>
             IF i = 1 THEN results[j].trades <= results[i].trades
                      ELSE results[i].trades <= results[j].trades

(* What ADOPT stands for (the thresholds at the head of the file): among    *)
(* the admissible experiments none is better and the current configuration  *)
(* is worse; more than 15% above the trades as they happened, with at most  *)
(* 20% more drawdown, on enough trades, and not of a system that loses.     *)
Admissible(e) == Valid(e) /\ DdOk(e)

AdoptIsSound ==
    [][report' # report /\ Last(report') = "ADOPT" =>
        LET a == results[best]
            b == Baseline
        IN  /\ Admissible(a) /\ a.trades >= MinTrades
            /\ \A e \in Range(results) : Admissible(e) => e.expectancy <= a.expectancy
            /\ Admissible(results[1]) => results[1].expectancy < a.expectancy
            /\ 20 * (a.expectancy - b.expectancy) > 3 * Magnitude(b.expectancy)
            /\ b.dd > 0 => 5 * (a.dd - b.dd) < Larger(b.dd, 100)
            /\ a.expectancy < 0 => a.pf >= 8000]_validationVars

=============================================================================
