--------------------------- MODULE RegimeDetector ---------------------------
(***************************************************************************)
(* What a coin's market looks like to the engine: the FeatureStore         *)
(* (src/features/store.py), which caches one feature snapshot per coin for *)
(* a time-to-live on the wall clock, and the RegimeDetector                *)
(* (src/regime/detector.py), which classifies a snapshot and lets a regime *)
(* change only after three equal readings.                                 *)
(*                                                                         *)
(* A snapshot is computed from the events received so far; market[c] is    *)
(* what would be computed now.  Ratios are in hundredths and volatility in *)
(* thousandths of a percent, so the thresholds are exact.                  *)
(***************************************************************************)
EXTENDS Integers, Sequences, FiniteSetsExt

CONSTANTS
    Coins,
    CacheTtl,     \* cache_ttl_ms, in ticks of the wall clock
    MaxHistory,   \* RegimeDetector._max_history
    Weekend,      \* the ticks that fall on a Saturday or Sunday
    None

ASSUME DetectorAssumption ==
    /\ CacheTtl \in Nat
    /\ MaxHistory \in Nat /\ MaxHistory >= 3
    /\ Weekend \subseteq Nat

VARIABLES
    now,          \* the wall clock, time.time()
    market,       \* [Coins -> the features of the events received so far]
    cache,        \* [Coins -> FeatureStore._cache]
    history       \* [Coins -> RegimeDetector._history]

detector == <<market, cache, history>>

Regimes == {"trending_up", "trending_down", "choppy", "high_vol", "quiet"}

ASSUME NoneAssumption == None \notin Regimes

(* What the computers return for a coin without events: zero for everything,*)
(* of which a zero buy pressure is some momentum for SHORT.                 *)
Cold ==
    [strength |-> 0, r2 |-> 0, consistency |-> 0, vol |-> 0, volRatio |-> 0,
     intensity |-> 0, atr |-> 0, imbalance |-> 0, tradeImbalance |-> 0,
     spread |-> 0, momentum |-> [LONG |-> 0, SHORT |-> 20]]

DetectorInit ==
    /\ now = 0
    /\ market = [c \in Coins |-> Cold]
    /\ cache = [c \in Coins |-> None]
    /\ history = [c \in Coins |-> << >>]

(* Mutant of Fresh: the time-to-live is never looked at.                    *)
CachedForever(c) == cache[c] # None

Fresh(c) == cache[c] # None /\ now - cache[c].at < CacheTtl

(* get_snapshot: the cached snapshot while it is fresh, else a new one,     *)
(* whose temporal features read the wall clock.                             *)
Snapshot(c) ==
    IF Fresh(c) THEN cache[c]
    ELSE [at |-> now, features |-> market[c], weekend |-> now \in Weekend]

Direction(f) == IF f.strength > 0 THEN "trending_up" ELSE "trending_down"
Strength(f) == Max({f.strength, -f.strength})

(* _classify, in its order of priority.                                     *)
Reading(f) ==
    IF f.vol > 150 /\ f.volRatio > 150 THEN "high_vol"
    ELSE IF \/ Strength(f) > 35 /\ f.r2 > 50
            \/ Strength(f) > 12 /\ f.consistency > 65 THEN Direction(f)
    ELSE IF f.vol < 20 /\ f.intensity < 100 THEN "quiet"
    ELSE "choppy"

(* The history after one more reading.                                      *)
Push(h, r) ==
    IF Len(h) < MaxHistory THEN Append(h, r) ELSE Append(Tail(h), r)

(* Mutant of Confirmed: the search takes the oldest run.                    *)
OldestConfirmed(h) ==
    LET runs == {i \in 1..Len(h) - 2 : h[i] = h[i + 1] /\ h[i + 1] = h[i + 2]} IN
    IF runs = {} THEN h[Len(h)] ELSE h[Min(runs)]

(* _apply_persistence: the latest regime with three readings in a row, or   *)
(* the current reading if the history holds none.                           *)
Confirmed(h) ==
    LET runs == {i \in 1..Len(h) - 2 : h[i] = h[i + 1] /\ h[i + 1] = h[i + 2]} IN
    IF runs = {} THEN h[Len(h)] ELSE h[Max(runs)]

(* The history of c after one call of detect, and after two on one snapshot.*)
OneReading(c) == Push(history[c], Reading(Snapshot(c).features))
TwoReadings(c) == Push(OneReading(c), Reading(Snapshot(c).features))

(* Features f replace what was known about c before.                        *)
Observe(c, f) == market' = [market EXCEPT ![c] = f]

(* The side effects of reading c: the snapshot is cached, the history grows.*)
Remember(c, readings) ==
    /\ cache' = [cache EXCEPT ![c] = Snapshot(c)]
    /\ history' = [history EXCEPT ![c] = readings]
    /\ UNCHANGED market

=============================================================================
