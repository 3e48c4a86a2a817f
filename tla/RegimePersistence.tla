------------------------- MODULE RegimePersistence --------------------------
(***************************************************************************)
(* The RegimeDetector asked again and again while the market moves, beside *)
(* a reference that follows its docstring: "Require 3 consecutive          *)
(* same-regime readings before switching" (src/regime/detector.py).  The   *)
(* reference counts the current run of equal readings and remembers the    *)
(* last regime that reached three; it needs no history.                    *)
(***************************************************************************)
EXTENDS RegimeDetector

CONSTANTS
    Outlooks,     \* the features the market may show
    Horizon       \* bound of the clock; the market rests before it, for a ttl

ASSUME TimeAssumption == Horizon \in Nat /\ CacheTtl < Horizon

VARIABLES
    answer,       \* [Coins -> what the last detect returned]
    run,          \* [Coins -> the current run of equal readings: its regime
                  \*  and its length, at most 3]
    confirmed,    \* [Coins -> the last regime whose run reached three]
    age           \* [Coins -> readings since then, at most MaxHistory]

reference == <<answer, run, confirmed, age>>
persistenceVars == <<now, detector, reference>>

NoRun == [regime |-> None, length |-> 0]

PersistenceInit ==
    /\ DetectorInit
    /\ answer = [c \in Coins |-> None]
    /\ run = [c \in Coins |-> NoRun]
    /\ confirmed = [c \in Coins |-> None]
    /\ age = [c \in Coins |-> 0]

MarketMoves(c) ==
    /\ now + CacheTtl < Horizon
    /\ \E f \in Outlooks : Observe(c, f)
    /\ UNCHANGED <<now, cache, history, reference>>

(* detect, and the reference that sees the same reading.                    *)
Detect(c) ==
    LET r == Reading(Snapshot(c).features)
        next == [regime |-> r,
                 length |-> IF run[c].regime = r THEN Min({3, run[c].length + 1})
                                                 ELSE 1]
    IN
    /\ Remember(c, OneReading(c))
    /\ answer' = [answer EXCEPT ![c] = Confirmed(OneReading(c))]
    /\ run' = [run EXCEPT ![c] = next]
    /\ confirmed' = [confirmed EXCEPT ![c] = IF next.length = 3 THEN r ELSE @]
    /\ age' = [age EXCEPT ![c] =
                    IF next.length = 3 THEN 0 ELSE Min({MaxHistory, @ + 1})]
    /\ UNCHANGED now

TimePasses ==
    /\ now < Horizon
    /\ now' = now + 1
    /\ UNCHANGED <<detector, reference>>

PersistenceNext ==
    \/ \E c \in Coins : MarketMoves(c) \/ Detect(c)
    \/ TimePasses

PersistenceSpec == PersistenceInit /\ [][PersistenceNext]_persistenceVars

(* Time passes, and who uses the detector asks it again: every scan of the  *)
(* engine asks for every coin.                                              *)
FairPersistenceSpec ==
    /\ PersistenceSpec
    /\ WF_persistenceVars(TimePasses)
    /\ \A c \in Coins : WF_persistenceVars(Detect(c))

-----------------------------------------------------------------------------
(* The search through a cut history answers what the reference remembers,   *)
(* as long as its last confirmation is not older than the history reaches   *)
(* back; and the current reading while nothing was ever confirmed.          *)
AnswersConfirmed ==
    \A c \in Coins :
        /\ confirmed[c] # None /\ age[c] <= MaxHistory - 3
           => answer[c] = confirmed[c]
        /\ confirmed[c] = None => answer[c] = run[c].regime

-----------------------------------------------------------------------------
(* When the market of a coin stays as it is, neither the cache nor the      *)
(* persistence keeps the old regime for ever.                               *)
AnswerCatchesUp ==
    \A c \in Coins, f \in Outlooks :
        <>[](market[c] = f) => <>[](answer[c] = Reading(f))

=============================================================================
