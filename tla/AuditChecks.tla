----------------------------- MODULE AuditChecks -----------------------------
(***************************************************************************)
(* What an audit check makes of what it saw (src/audit/base.py and         *)
(* src/audit/checks/*.py).  A finding is its severity and its code.        *)
(***************************************************************************)
EXTENDS Integers, Sequences, SequencesExt

Apart(a, b) == IF a < b THEN b - a ELSE a - b

NoFindings == [status |-> "OK", score |-> 100, findings |-> <<>>]

(* CheckResult.add_finding.                                                 *)
add_finding(result, f) ==
    LET failed == f.severity \in {"error", "critical"}
        warned == f.severity = "warning" /\ result.status # "ERROR"
        AtMost(n) == IF result.score < n THEN result.score ELSE n
    IN  [status   |-> IF failed THEN "ERROR" ELSE IF warned THEN "WARNING" ELSE result.status,
         score    |-> IF failed THEN AtMost(40) ELSE IF warned THEN AtMost(75) ELSE result.score,
         findings |-> Append(result.findings, f)]

Result(findings) == FoldLeft(add_finding, NoFindings, findings)

Finding(cond, severity, code) ==
    IF cond THEN <<[severity |-> severity, code |-> code]>> ELSE <<>>

(* IntegrationCheck.run; bot is the number of the bot's trades of a day, -1 *)
(* when it could not be read.                                               *)
Integration(bot, o) ==
    (IF bot < 0 THEN Finding(TRUE, "warning", "BOT_UNREACHABLE")
     ELSE IF bot > 0 /\ o.trades = 0 THEN Finding(TRUE, "error", "NO_TRADES_RECEIVED")
     ELSE Finding(Apart(bot, o.trades) > 3, "warning", "TRADE_COUNT_DRIFT"))
    \o Finding(bot > 0 /\ o.signals = 0, "warning", "NO_SIGNALS_RECEIVED")
    \o Finding(o.duplicates > 0, "warning", "DUPLICATE_TRADES")

(* ConsistencyCheck.run: the sums in tenths of a dollar; the platform's are *)
(* not asked for when the bot's are not known.                              *)
Compared(field, bot, platform) ==
    Finding(Apart(bot, platform) > 10, "error", field)
    \o Finding(Apart(bot, platform) \in 2..10, "warning", field)
Consistency(bot, o) ==
    Compared("NET_PNL", bot, o.net) \o Compared("GROSS_PNL", bot, o.gross)
    \o Compared("FEES", bot, o.fees) \o Finding(Apart(bot, o.wins) > 2, "warning", "WIN_COUNT_DRIFT")

(* DataQualityCheck.run: the counts its queries return.                     *)
DataQuality(o) ==
    Finding(o.impossible > 0, "error", "NET_GT_GROSS")
    \o Finding(o.nulls > 0, "warning", "NULL_FIELDS")
    \o Finding(o.future > 0, "warning", "FUTURE_TIMESTAMPS")
    \o Finding(o.snapshots = 0, "warning", "NO_RECENT_SNAPSHOTS")
    \o Finding(o.outliers > 0, "info", "PNL_OUTLIERS")

(* StorageCheck.run: how full the disk is, in percent, and the Parquet      *)
(* files of two days.                                                       *)
Storage(o) ==
    (IF o.disk >= 92 THEN Finding(TRUE, "critical", "DISK_CRITICAL")
     ELSE IF o.disk >= 85 THEN Finding(TRUE, "error", "DISK_HIGH")
     ELSE Finding(o.disk >= 70, "warning", "DISK_WARNING"))
    \o Finding(o.yesterday = 0 /\ o.today > 0, "warning", "MISSING_YESTERDAY")

Checks == {"integration", "data_quality", "storage", "consistency"}
AsksBot == {"integration", "consistency"}
Findings(check, bot, o) ==
    CASE check = "integration" -> Integration(bot, o)
      [] check = "consistency" -> Consistency(bot, o)
      [] check = "data_quality" -> DataQuality(o)
      [] check = "storage" -> Storage(o)

=============================================================================
