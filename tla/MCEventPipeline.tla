--------------------------- MODULE MCEventPipeline ---------------------------
(* Small instances of EventPipeline: a trade stream of BTC that crosses an  *)
(* hour, and a book stream of ETH.                                          *)
EXTENDS EventPipeline

MCKey == [b1 |-> "trade/BTC", b2 |-> "trade/BTC", b3 |-> "trade/BTC",
          e1 |-> "book/ETH"]
MCEvents == DOMAIN MCKey
MCHour == [e \in MCEvents |-> IF e = "b2" THEN 11 ELSE 10]

=============================================================================
