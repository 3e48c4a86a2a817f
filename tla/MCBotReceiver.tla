---------------------------- MODULE MCBotReceiver ----------------------------
(* Small instances of BotReceiver.  An event is named by its kind: s for a  *)
(* signal, t for a trade, m a marker, g a regime label, p a position        *)
(* snapshot; x is a signal whose event_id is not a UUID, u a signal that    *)
(* carries none.                                                            *)
EXTENDS BotReceiver, TLC

CONSTANTS r1, r2, r3

MCKind == [s1 |-> "signal", s2 |-> "signal", u |-> "signal", x |-> "signal",
           t1 |-> "trade", t2 |-> "trade", m |-> "marker", g |-> "regime",
           p |-> "snapshot"]
MCEvents == DOMAIN MCKind
MCIdentified == MCEvents \ {"u", "p"}
MCMalformed == {"x"}
MCEntered == {"s1", "s2"}
MCUser == [e \in MCEvents |-> IF e \in {"s2", "x"} THEN 2 ELSE 1]
MCScope == [e \in MCEvents |-> IF e \in {"u", "x"} THEN "other" ELSE "btc_long"]
MCEntryTime == [t1 |-> 1, t2 |-> 2]

One(e) == [to |-> MCKind[e], events |-> <<e>>]
Batch(list) == [to |-> "signals", events |-> list]

(* Deliveries of single events, of every kind, and of batches that overlap  *)
(* in both orders, that repeat an event inside, and that carry a payload to *)
(* refuse.                                                                  *)
MixedMessages ==
    {One(e) : e \in {"s1", "t1", "m", "p", "u", "x", "g"}}
    \cup {Batch(<<"s1", "s2">>), Batch(<<"s2", "s1">>), Batch(<<"s1", "u", "s1">>),
          Batch(<<"s1", "x">>)}

(* Two signals, stored together or apart, that two trades may both explain. *)
LinkMessages == {One(e) : e \in {"s1", "s2", "t1", "t2"}} \cup {Batch(<<"s1", "s2">>)}

TrustAndOneUser == {None, {1}}
TrustMode == {None}

RequestSymmetry == Permutations(Requests)

=============================================================================
