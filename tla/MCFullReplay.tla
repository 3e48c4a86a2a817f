---------------------------- MODULE MCFullReplay ----------------------------
(* Small replays.  A trade shows one of three markets: a clean trend up or  *)
(* down, and a violent one.                                                 *)
EXTENDS FullReplay

CONSTANTS btc, eth

NoMomentum == [LONG |-> 0, SHORT |-> 0]

Trend(side, strength) ==
    [strength |-> IF side = "LONG" THEN strength ELSE -strength,
     r2 |-> 80, consistency |-> 80, vol |-> 80, volRatio |-> 100, intensity |-> 200,
     atr |-> 0, tradeImbalance |-> IF side = "LONG" THEN 60 ELSE -60,
     momentum |-> [NoMomentum EXCEPT ![side] = 40]]
Up == Trend("LONG", 60)
Down == Trend("SHORT", 60)
Violent == [Up EXCEPT !.vol = 300, !.volRatio = 200, !.atr = 40]

Trade(c, p, shows) == [coin |-> c, type |-> "trade", price |-> p, shows |-> shows]
Book(c, imbalance) ==
    [coin |-> c, type |-> "l2_book", price |-> 1000,
     shows |-> [imbalance |-> imbalance, spread |-> 2]]

(* A coin that rises to where its stop trails, falls back from there, meets *)
(* a stop exactly, and jumps over a stop or a target; and another one that  *)
(* competes with it for the positions and the exposure.                     *)
TwoCoinFeed ==
    {Trade(btc, 1000, Up), Trade(btc, 1006, Violent), Trade(btc, 1020, Up),
     Trade(btc, 995, Down), Book(btc, 60),
     Trade(eth, 500, Up), Trade(eth, 490, Down)}

=============================================================================
