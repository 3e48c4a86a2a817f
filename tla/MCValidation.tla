---------------------------- MODULE MCValidation ----------------------------
(* Up to five trades of seven kinds: with and without a score, won and lost *)
(* as they happened, and stopped, taken or left alone by a simulated exit.  *)
EXTENDS Validation

Trade(pnl, mfe, mae, score, ratio) ==
    [pnl |-> pnl, mfe |-> mfe, mae |-> mae, score |-> score, ratio |-> ratio,
     micro |-> 40, fee |-> 10]

Kinds == {Trade(150, 60, 10, 70, 52),      \* won early, had further to go
          Trade(-1600, 5, 45, 58, 58),     \* lost, beyond the first stop
          Trade(90, 20, 10, 62, None),     \* a small win
          Trade(-300, 10, 30, 64, 65),     \* a small loss
          Trade(-200, 80, 30, 66, 72),     \* lost although the target was reached
          Trade(700, 80, 52, 0, 40),       \* won after a deep fall, no score
          [Trade(-100, 10, 20, 69, None) EXCEPT !.micro = 20]}

UpToFive == UNION {[1..n -> Kinds] : n \in 0..5}
=============================================================================
