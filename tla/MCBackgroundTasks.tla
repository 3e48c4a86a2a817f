-------------------------- MODULE MCBackgroundTasks --------------------------
(* Days of four units, an hour of two.  Of the two starts one makes the      *)
(* clock change while the first round of messages goes on, the other while   *)
(* the task sleeps between two rounds.                                       *)
EXTENDS BackgroundTasks

MCStarts == {1, 3}
MCChanges == {[at |-> 1, by |-> 0], [at |-> 5, by |-> 2], [at |-> 5, by |-> -2]}
=============================================================================
