-------------------------- MODULE MCExecutiveSummary --------------------------
(* Seven kinds of trades and three of signals.  Their numbers lie on both   *)
(* sides of the thresholds of the reports: 3, 5, 10, 30 and 100 trades.     *)
EXTENDS ExecutiveSummary

LOCAL Trade(pnl, gross, total, micro, side, coin, exit, hold, mfe) ==
    [pnl |-> pnl, gross |-> gross, fee |-> gross - pnl, total |-> total, trend |-> total,
     micro |-> micro, side |-> side, coin |-> coin, exit |-> exit, hold |-> hold,
     mfe |-> mfe, pnlPct |-> pnl \div 5, tag |-> "", labelled |-> TRUE]

Won     == Trade(200, 210, 85, 60, "LONG", "A", "TP", 400, 100)
Lost    == Trade(-100, -90, 30, 20, "SHORT", "B", "SL", 30, 10)
LostFast == Trade(-90, -80, 30, 60, "LONG", "C", "SL", 30, 10)
WonLow  == Trade(40, 50, 70, 10, "SHORT", "B", "TP", 700, 20)
Killed  == [Trade(-35, 10, 65, 0, "LONG", "A", "SL", 2000, 2) EXCEPT !.labelled = FALSE]
Adopted == [Trade(30, 40, 0, 0, "LONG", "D", "EXTERNAL", 700, 10) EXCEPT !.tag = "adopted"]
Legacy  == [Trade(-50, -40, 0, 0, "SHORT", "D", "SL", 700, 10) EXCEPT !.labelled = FALSE]

Kinds == {Won, Lost, LostFast, WonLow, Killed, Adopted, Legacy}
SomeTrades == {[t \in Kinds |->
                  CASE t = Won -> n[1] [] t = Lost -> n[2] [] t = LostFast -> n[3]
                    [] t = WonLow -> n[4] [] t = Killed -> n[5] [] t = Adopted -> n[6]
                    [] OTHER -> n[7]] :
               n \in {0, 4, 101} \X {0, 30} \X {0, 6} \X {0, 3, 31}
                     \X {0, 31} \X {0, 70} \X {0, 4, 61}}

LOCAL Signal(action, scores, blocked, labelled) ==
    [action |-> action, scores |-> scores, microBlocked |-> blocked, labelled |-> labelled]
Entered == Signal("ENTER", AllScores, FALSE, TRUE)
Blocked == Signal("BLOCKED", {"signal"}, TRUE, FALSE)
Early   == Signal("BLOCKED", {}, FALSE, TRUE)
SomeSignals == {Entered :> n[1] @@ Blocked :> n[2] @@ Early :> n[3] :
                  n \in {<<0, 0, 0>>, <<20, 0, 9>>, <<20, 30, 9>>}}

ArrivingTrades == {Lost}
ArrivingEvaluations == {Entered}

=============================================================================
