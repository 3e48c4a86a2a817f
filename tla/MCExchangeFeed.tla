--------------------------- MODULE MCExchangeFeed ---------------------------
(* Three coins: one may be added while the other is being removed.            *)
EXTENDS ExchangeFeed

=============================================================================
