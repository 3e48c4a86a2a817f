----------------------------- MODULE ScoreParity -----------------------------
(***************************************************************************)
(* ScoreParityAnalyzer.analyze (src/quant/analysis/score_parity.py): the   *)
(* rows its four queries return, each an operator over the rows stored     *)
(* when the query runs, and the report made of them.  The two queries that *)
(* count the rows before diagnostics decide nothing.                       *)
(***************************************************************************)
EXTENDS QuantReports

(* Mutant of Driven: without coalesce the comparison of a missing tag is    *)
(* neither true nor false, and the row is left out.                         *)
DrivenIfTagged(t) == t.tag \notin {"", "adopted", "manual", "backfill"} /\ t.exit # "EXTERNAL"

(* Mutant of Driven: the adopted trades are counted, as before 2026-04-27.  *)
AnyTrade(t) == TRUE

(* score_excl: the trades the bot entered itself, told by the entry tag and *)
(* by how they were closed.                                                 *)
Driven(t) == t.tag \notin {"adopted", "manual", "backfill"} /\ t.exit # "EXTERNAL"

Scored(t) == t.total > 0 /\ t.trend > 0 /\ t.micro > 0
Unscored(t) == t.total = 0 /\ t.trend = 0 /\ t.micro = 0

(* The trades' row: a score of 0 is as good as none.                        *)
TradeRow(d) ==
    LET of == Only(d, Driven)
    IN  [total  |-> Size(of),
         signal |-> Count(of, LAMBDA t : t.total > 0),
         trend  |-> Count(of, LAMBDA t : t.trend > 0),
         micro  |-> Count(of, LAMBDA t : t.micro > 0),
         zero   |-> Count(of, Unscored),
         all    |-> Count(of, Scored)]

(* The signals' row, over those that reached the microstructure stage: only *)
(* NULL is missing.                                                         *)
Reached(s) == s.action = "ENTER" \/ s.microBlocked
AllScores == {"signal", "trend", "micro"}
SignalRow(d) ==
    LET of == Only(d, Reached)
    IN  [total |-> Size(of), zero |-> Count(of, LAMBDA s : s.scores = {}),
         all |-> Count(of, LAMBDA s : s.scores = AllScores)]

(* The rows after diagnostics: those with a quality label.                  *)
LabelledTradeRow(d) ==
    LET of == Only(d, LAMBDA t : t.labelled)
    IN  [total |-> Size(of), all |-> Count(of, Scored)]
LabelledSignalRow(d) == SignalRow(Only(d, LAMBDA s : s.labelled))

-----------------------------------------------------------------------------
(* The mean of the coverages of the tables that have rows, rounded again.   *)
Mean(a, b) == LET s == a + b IN IF s % 4 = 3 THEN (s + 1) \div 2 ELSE s \div 2
Coverage(tr, sg) ==
    LET Of(row) == Pct(row.all, row.total)
    IN  CASE tr.total > 0 /\ sg.total > 0 -> Mean(Of(tr), Of(sg))
          [] tr.total > 0 /\ sg.total = 0 -> Of(tr)
          [] tr.total = 0 /\ sg.total > 0 -> Of(sg)
          [] OTHER -> 0

(* The anomalies by code.  Those of severity critical:                      *)
Critical == {"ALL_ZERO_SCORES", "MISSING_SIGNAL_SCORE"}
Anomalies(tr, sg) ==
    LET Share(n) == Pct(n, tr.total) IN
    {code \in Critical \cup {"MISSING_MICRO_SCORE", "MISSING_TREND_SCORE",
                             "ALL_ZERO_SIGNAL_EVAL", "SCORE_PARITY_MISMATCH"} :
        \/ code = "ALL_ZERO_SCORES" /\ Share(tr.zero) > 200
        \/ code = "MISSING_MICRO_SCORE" /\ Share(tr.micro) < 500
        \/ code = "MISSING_TREND_SCORE" /\ Share(tr.trend) < 500
        \/ code = "MISSING_SIGNAL_SCORE" /\ Share(tr.signal) < 500
        \/ code = "ALL_ZERO_SIGNAL_EVAL" /\ (sg.total > 0 => Pct(sg.zero, sg.total) > 300)
        \/ code = "SCORE_PARITY_MISMATCH" /\ sg.total > 0
           /\ Pct(sg.all, sg.total) - Share(tr.all) \notin -200..200}

StatusOf(coverage, critical) ==
    IF coverage >= 800 /\ ~critical THEN "OK"
    ELSE IF coverage >= 500 /\ ~critical THEN "DEGRADED"
    ELSE "BROKEN"

(* ALL_ZERO_SCORES is found for a missing row too (get(..., 100)), and its  *)
(* message reads trade_s['all_zero_pct']: without a trade analyze raises    *)
(* KeyError, and what it says of an empty database is never reached.        *)
Raises(tr) == tr.total = 0

(* The report of rows that do not make it raise.                            *)
Report(tr, sg, labelledTr, labelledSg) ==
    LET found    == Anomalies(tr, sg)
        critical == found \cap Critical # {}
        recent   == Coverage(labelledTr, labelledSg)
    IN  [anomalies |-> found, coverage |-> Coverage(tr, sg),
         status |-> StatusOf(Coverage(tr, sg), critical),
         realStatus |-> IF labelledTr.total = 0 /\ labelledSg.total = 0 THEN "NO_DATA"
                        ELSE StatusOf(recent, critical)]

=============================================================================
