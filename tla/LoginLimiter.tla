---------------------------- MODULE LoginLimiter ----------------------------
(***************************************************************************)
(* _login_rate_ok of src/dashboard/api.py for one client address: a deque  *)
(* of the attempts let through, pruned when the next one arrives.          *)
(* platform_login answers 429 to a refused attempt and asks the bot about  *)
(* the others.  Beside it, which attempts of the last RateWindow were let  *)
(* through.                                                                *)
(***************************************************************************)
EXTENDS Naturals, Sequences, FiniteSetsExt

CONSTANTS
    RateMax,        \* _LOGIN_RATE_MAX
    RateWindow      \* _LOGIN_RATE_WINDOW

ASSUME LimiterAssumption == RateMax \in Nat \ {0} /\ RateWindow \in Nat

VARIABLES
    attempts,       \* _login_attempts[ip]
    passed          \* [0..RateWindow -> attempts let through that long ago]

limiterVars == <<attempts, passed>>

LimiterInit ==
    /\ attempts = <<>>
    /\ passed = [d \in 0..RateWindow |-> 0]

(* The deque after popleft has dropped what is older than the window: from  *)
(* its first attempt within the window on.                                  *)
Within(t) == {i \in DOMAIN attempts : attempts[i] + RateWindow >= t}
Recent(t) ==
    IF Within(t) = {} THEN <<>> ELSE SubSeq(attempts, Min(Within(t)), Len(attempts))

(* Mutant of Recorded: refused attempts count as well.                      *)
RecordedAlways(t, ok) == Append(Recent(t), t)

(* What the deque holds after an attempt.                                   *)
Recorded(t, ok) == IF ok THEN Append(Recent(t), t) ELSE Recent(t)

Login(t) ==
    LET ok == Len(Recent(t)) < RateMax IN
    /\ attempts' = Recorded(t, ok)
    /\ passed' = IF ok THEN [passed EXCEPT ![0] = @ + 1] ELSE passed

(* One tick of the clock, as the reference sees it.                         *)
Ages == passed' = [d \in 0..RateWindow |-> IF d = 0 THEN 0 ELSE passed[d - 1]]

=============================================================================
