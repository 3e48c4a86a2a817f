-------------------------- MODULE ExactlyOnceIngest --------------------------
(***************************************************************************)
(* What the bot-ingest endpoints promise the outbox of the bot: rows are   *)
(* only ever added, an event with an event_id gets at most one, and an     *)
(* event the bot may forget has one.  An event without event_id is stored  *)
(* as often as it is delivered.                                            *)
(***************************************************************************)
CONSTANTS
    Events,      \* what the bot has to report
    Identified,  \* the events that carry an event_id
    Row          \* the possible rows; w.ev is the event a row stores

VARIABLES
    table,       \* the rows stored
    acked        \* the events the bot has forgotten

Init == table = {} /\ acked = {}

Unique(S) == \A v, w \in S : v.ev = w.ev /\ v.ev \in Identified => v = w

(* One transaction adds some rows; none repeats an identified event.        *)
Store ==
    /\ table \subseteq table' /\ table' \subseteq Row
    /\ Unique(table')
    /\ UNCHANGED acked

(* The bot reads ok replies; the events they answered are stored.           *)
Forget ==
    /\ acked \subseteq acked' /\ acked' \subseteq acked \cup {w.ev : w \in table}
    /\ UNCHANGED table

Next == Store \/ Forget

Spec == Init /\ [][Next]_<<table, acked>>

=============================================================================
