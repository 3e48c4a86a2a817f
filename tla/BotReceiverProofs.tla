-------------------------- MODULE BotReceiverProofs --------------------------
(***************************************************************************)
(* Proofs about BotReceiver, for any set of events, of bodies, of requests *)
(* and any bound on the clock: its types, one row per identified event, an *)
(* ok reply only for what is stored, the refinement of ExactlyOnceIngest,  *)
(* and that a trade is linked to one signal at most, which it can explain. *)
(***************************************************************************)
EXTENDS BotReceiver, FiniteSetTheorems, TLAPS

(* A request that has arrived holds a body with at least one payload.       *)
HasBody(r) ==
    /\ msg[r] \in Bodies
    /\ msg[r].events # << >>
    /\ msg[r].to # "signals" => Len(msg[r].events) = 1

BodyHeld == \A r \in Requests : phase[r] # "idle" => HasBody(r)

(* Only a handler that has ended has replied.                               *)
RepliesAtEnd == \A r \in Requests : reply[r] # "none" => phase[r] = "done"

(* The records a handler has yet to insert are positions of its body.       *)
LeftInBody ==
    \A r \in Requests :
        left[r] \subseteq IF phase[r] = "idle" THEN {} ELSE DOMAIN msg[r].events

TypeInv == TypeOK /\ BodyHeld /\ RepliesAtEnd /\ LeftInBody

-----------------------------------------------------------------------------
(* The body a request keeps of a message.                                   *)
LEMMA MessageBody ==
    ASSUME NEW m \in Messages, NEW allowed \in AllowLists
    PROVE  /\ [to |-> m.to, events |-> m.events, allowed |-> allowed] \in Bodies
           /\ m.events \in Seq(Events)
           /\ m.events # << >>
           /\ m.to # "signals" => Len(m.events) = 1
<1>1. IsMessage(m)
  BY MessageAssumption
<1>2. m.events \in Seq(Events) /\ m.events # << >>
  BY <1>1 DEF IsMessage
<1>3. m.events[1] \in Events
  BY <1>2
<1>4. m.to \in Kinds \cup {"signals"}
  BY <1>1, <1>3, EventAssumption DEF IsMessage
<1>5. m.to # "signals" => Len(m.events) = 1
  BY <1>1 DEF IsMessage
<1> QED
  BY <1>2, <1>4, <1>5 DEF Bodies

(* What a request that holds a body may read from it.                       *)
LEMMA BodyParts ==
    ASSUME NEW r \in Requests, HasBody(r)
    PROVE  /\ msg[r].events \in Seq(Events)
           /\ Len(msg[r].events) \in Nat \ {0}
           /\ DOMAIN msg[r].events = 1..Len(msg[r].events)
           /\ \A i \in DOMAIN msg[r].events : msg[r].events[i] \in Events
           /\ msg[r].events[1] \in Events
           /\ EventsOf(r) \subseteq Events
<1>1. msg[r].events \in Seq(Events) /\ msg[r].events # << >>
  BY DEF HasBody, Bodies
<1>2. Len(msg[r].events) \in Nat \ {0} /\ DOMAIN msg[r].events = 1..Len(msg[r].events)
  BY <1>1
<1>3. \A i \in DOMAIN msg[r].events : msg[r].events[i] \in Events
  BY <1>1
<1> QED
  BY <1>1, <1>2, <1>3 DEF EventsOf

(* The positions of a body are finitely many.                               *)
LEMMA PositionsFinite ==
    ASSUME NEW r \in Requests, HasBody(r), NEW S \in SUBSET DOMAIN msg[r].events
    PROVE  Cardinality(S) \in Nat
<1> DEFINE n == Len(msg[r].events)
<1>1. n \in Nat /\ DOMAIN msg[r].events = 1..n
  BY BodyParts
<1>2. IsFiniteSet(1..n)
  BY <1>1, FS_Interval, SMT
<1> QED
  BY <1>1, <1>2, FS_Subset, FS_CardinalityType

-----------------------------------------------------------------------------
LEMMA TypeInit == Init => TypeInv
<1> SUFFICES ASSUME Init PROVE TypeInv
  OBVIOUS
<1>1. up \in BOOLEAN
  BY DEF Init
<1>2. ServerTypes
  BY TimeAssumption DEF Init, ServerTypes
<1>3. HandlerTypes
  BY DEF Init, HandlerTypes, Phases, Replies
<1>4. RequestTypes
  BY TimeAssumption DEF Init, RequestTypes
<1>5. BodyHeld /\ RepliesAtEnd /\ LeftInBody
  BY DEF Init, BodyHeld, RepliesAtEnd, LeftInBody
<1> QED
  BY <1>1, <1>2, <1>3, <1>4, <1>5 DEF TypeInv, TypeOK

(* What all steps of a request have in common: it ends with a reply and no  *)
(* open transaction, or it goes on and has not replied.                     *)
Ends(r) ==
    \E answer \in Replies \ {"none"} :
        /\ phase' = [phase EXCEPT ![r] = "done"]
        /\ reply' = [reply EXCEPT ![r] = answer]
        /\ own' = [own EXCEPT ![r] = {}]

GoesOn(r) ==
    /\ \E next \in Phases \ {"idle", "done"} : phase' = [phase EXCEPT ![r] = next]
    /\ UNCHANGED reply

RequestStep(r) ==
    Step(r) \/ DbError(r) \/ DeadlockVictim(r) \/ CommitUnconfirmed(r)

LEMMA RequestFrame ==
    ASSUME TypeInv, NEW r \in Requests, RequestStep(r)
    PROVE  /\ UNCHANGED <<up, now, acked, msg>>
           /\ Active(r)
           /\ HasBody(r)
           /\ Ends(r) \/ GoesOn(r)
<1> USE DEF Active, Ends, GoesOn, Finish, Goto, Replies, OkReplies, Phases
<1>1. CASE LookupOne(r)
  <2>1. UNCHANGED <<up, now, acked, msg>> /\ Active(r)
    BY <1>1 DEF LookupOne
  <2>2. Ends(r) \/ GoesOn(r)
    BY <1>1 DEF LookupOne
  <2> QED
    BY <2>1, <2>2 DEF TypeInv, BodyHeld
<1>2. CASE LookupBatch(r)
  <2>1. UNCHANGED <<up, now, acked, msg>> /\ Active(r)
    BY <1>2 DEF LookupBatch
  <2>2. Ends(r) \/ GoesOn(r)
    BY <1>2 DEF LookupBatch
  <2> QED
    BY <2>1, <2>2 DEF TypeInv, BodyHeld
<1>3. CASE InsertRow(r)
  <2>1. UNCHANGED <<up, now, acked, msg>> /\ Active(r)
    BY <1>3 DEF InsertRow
  <2>2. Ends(r) \/ GoesOn(r)
    BY <1>3 DEF InsertRow
  <2> QED
    BY <2>1, <2>2 DEF TypeInv, BodyHeld
<1>4. CASE InsertConflict(r)
  <2>1. UNCHANGED <<up, now, acked, msg>> /\ Active(r)
    BY <1>4 DEF InsertConflict
  <2>2. Ends(r) \/ GoesOn(r)
    BY <1>4 DEF InsertConflict
  <2> QED
    BY <2>1, <2>2 DEF TypeInv, BodyHeld
<1>5. CASE Refetch(r)
  <2>1. UNCHANGED <<up, now, acked, msg>> /\ Active(r)
    BY <1>5 DEF Refetch
  <2>2. Ends(r) \/ GoesOn(r)
    BY <1>5 DEF Refetch
  <2> QED
    BY <2>1, <2>2 DEF TypeInv, BodyHeld
<1>6. CASE PickSignal(r)
  <2>1. UNCHANGED <<up, now, acked, msg>> /\ Active(r)
    BY <1>6 DEF PickSignal
  <2>2. Ends(r) \/ GoesOn(r)
    BY <1>6 DEF PickSignal
  <2> QED
    BY <2>1, <2>2 DEF TypeInv, BodyHeld
<1>7. CASE UpdateLink(r)
  <2>1. UNCHANGED <<up, now, acked, msg>> /\ Active(r)
    BY <1>7 DEF UpdateLink
  <2>2. Ends(r) \/ GoesOn(r)
    BY <1>7 DEF UpdateLink
  <2> QED
    BY <2>1, <2>2 DEF TypeInv, BodyHeld
<1>8. CASE Commit(r)
  <2>1. UNCHANGED <<up, now, acked, msg>> /\ Active(r)
    BY <1>8 DEF Commit
  <2>2. PICK answer \in {"batch", "stored"} : Finish(r, answer)
    BY <1>8 DEF Commit
  <2> QED
    BY <2>1, <2>2 DEF TypeInv, BodyHeld
<1>9. CASE FallbackInsert(r)
  <2>1. UNCHANGED <<up, now, acked, msg>> /\ Active(r)
    BY <1>9 DEF FallbackInsert
  <2>2. Ends(r) \/ GoesOn(r)
    BY <1>9 DEF FallbackInsert
  <2> QED
    BY <2>1, <2>2 DEF TypeInv, BodyHeld
<1>10. CASE FallbackSkip(r)
  <2>1. UNCHANGED <<up, now, acked, msg>> /\ Active(r)
    BY <1>10 DEF FallbackSkip, TypeInv, TypeOK, HandlerTypes
  <2>2. Ends(r) \/ GoesOn(r)
    BY <1>10 DEF FallbackSkip, TypeInv, TypeOK, HandlerTypes
  <2> QED
    BY <2>1, <2>2 DEF TypeInv, BodyHeld
<1>11. CASE FallbackCommit(r)
  <2>1. UNCHANGED <<up, now, acked, msg>> /\ Active(r)
    BY <1>11 DEF FallbackCommit
  <2>2. Ends(r) \/ GoesOn(r)
    BY <1>11 DEF FallbackCommit
  <2> QED
    BY <2>1, <2>2 DEF TypeInv, BodyHeld
<1>12. CASE DbError(r)
  <2>1. UNCHANGED <<up, now, acked, msg>> /\ Active(r)
    BY <1>12 DEF DbError, Abort
  <2>2. Ends(r) \/ GoesOn(r)
    BY <1>12 DEF DbError, Abort
  <2> QED
    BY <2>1, <2>2 DEF TypeInv, BodyHeld
<1>13. CASE DeadlockVictim(r)
  <2>1. UNCHANGED <<up, now, acked, msg>> /\ Active(r)
    BY <1>13 DEF DeadlockVictim, Abort, Deadlocked, WaitsFor, Wants
  <2>2. Ends(r) \/ GoesOn(r)
    BY <1>13 DEF DeadlockVictim, Abort, Deadlocked, WaitsFor, Wants
  <2> QED
    BY <2>1, <2>2 DEF TypeInv, BodyHeld
<1>14. CASE CommitUnconfirmed(r)
  <2>1. UNCHANGED <<up, now, acked, msg>> /\ Active(r)
    BY <1>14 DEF CommitUnconfirmed
  <2>2. Ends(r) \/ GoesOn(r)
    BY <1>14 DEF CommitUnconfirmed
  <2> QED
    BY <2>1, <2>2 DEF TypeInv, BodyHeld
<1> QED
  BY <1>1, <1>2, <1>3, <1>4, <1>5, <1>6, <1>7, <1>8, <1>9, <1>10, <1>11, <1>12, <1>13, <1>14 DEF RequestStep, Step

(* What a transaction makes durable are rows, and links between rows.       *)
LEMMA PersistTypes ==
    ASSUME TypeInv, NEW r \in Requests, HasBody(r), Persist(r)
    PROVE  rows' \subseteq Row /\ link' \in [Row -> Row \cup {None}]
<1>1. msg[r].events[1] \in Events
  BY BodyParts
<1>2. rows' \subseteq Row
  BY DEF TypeInv, TypeOK, ServerTypes, HandlerTypes, Persist, Row
<1>3. [req |-> r, ev |-> msg[r].events[1]] \in Row
  BY <1>1 DEF Row
<1>4. link' \in [Row -> Row \cup {None}]
  BY <1>3 DEF TypeInv, TypeOK, ServerTypes, Persist
<1> QED
  BY <1>2, <1>4

(* The variables the steps of a request treat differently.                  *)
DataTypes ==
    /\ rows \subseteq Row
    /\ link \in [Row -> Row \cup {None}]
    /\ own \in [Requests -> SUBSET Events]
    /\ left \in [Requests -> SUBSET Nat]
    /\ RequestTypes

LEMMA RequestData ==
    ASSUME TypeInv, NEW r \in Requests, RequestStep(r)
    PROVE  DataTypes'
<1>1. DataTypes /\ now \in 0..MaxTime
  BY DEF TypeInv, TypeOK, ServerTypes, HandlerTypes, DataTypes
<1>2. HasBody(r)
  BY RequestFrame
<1> USE <1>1 DEF DataTypes, RequestTypes, Finish, Goto, table, tally
<1>3. CASE LookupOne(r)
  <2>1. \A e : FindByEventId(e) \subseteq Row
    BY DEF FindByEventId, RowsOf
  <2> QED
    BY <1>3, <2>1 DEF LookupOne
<1>4. CASE LookupBatch(r)
  <2> DEFINE known == {e \in EventsOf(r) : FindByEventId(e) # {}}
             gone == Cardinality(DOMAIN msg[r].events \ Records(r, known))
  <2>1. known \in SUBSET Events /\ Records(r, known) \in SUBSET Nat /\ gone \in Nat
    BY <1>2, BodyParts, PositionsFinite DEF Records
  <2>2. /\ existing' = [existing EXCEPT ![r] = known]
        /\ left' = [left EXCEPT ![r] = Records(r, known)]
        /\ skipped' = [skipped EXCEPT ![r] = gone]
        /\ stamp' = [stamp EXCEPT ![r] = now]
        /\ own' = [own EXCEPT ![r] = {}] \/ own' = own
        /\ UNCHANGED <<rows, link, pick, inserted, named>>
    BY <1>4 DEF LookupBatch
  <2> QED
    BY <2>1, <2>2
<1>5. CASE InsertRow(r)
  <2>1. PICK p \in left[r] :
           /\ own' = [own EXCEPT ![r] = @ \cup {msg[r].events[p]}]
           /\ left' = [left EXCEPT ![r] = @ \ {p}]
    BY <1>5 DEF InsertRow
  <2>2. msg[r].events[p] \in Events
    BY <1>2, <2>1, BodyParts, RequestFrame DEF TypeInv, LeftInBody, Active
  <2> QED
    BY <1>5, <2>1, <2>2 DEF InsertRow
<1>6. CASE InsertConflict(r)
  <2>1. Records(r, existing[r]) \in SUBSET Nat
    BY <1>2, BodyParts DEF Records
  <2> QED
    BY <1>6, <2>1 DEF InsertConflict
<1>7. CASE Refetch(r)
  <2>1. FindByEventId(msg[r].events[1]) \subseteq Row
    BY DEF FindByEventId, RowsOf
  <2> QED
    BY <1>7, <2>1 DEF Refetch
<1>8. CASE PickSignal(r)
  <2>1. Closest(msg[r].events[1]) \subseteq Row
    BY DEF Closest, Candidates
  <2> QED
    BY <1>8, <2>1 DEF PickSignal
<1>9. CASE UpdateLink(r)
  BY <1>9 DEF UpdateLink
<1>10. CASE Commit(r)
  <2>1. RecordCount(r) \in Nat
    BY <1>2, PositionsFinite DEF RecordCount, Records
  <2>2. rows' \subseteq Row /\ link' \in [Row -> Row \cup {None}]
    BY <1>2, <1>10, PersistTypes DEF Commit
  <2> QED
    BY <1>10, <2>1, <2>2 DEF Commit
<1>11. CASE FallbackInsert(r)
  <2>1. PICK p \in left[r] :
           /\ own' = [own EXCEPT ![r] = {msg[r].events[p]}]
           /\ left' = [left EXCEPT ![r] = @ \ {p}]
    BY <1>11 DEF FallbackInsert
  <2>2. msg[r].events[p] \in Events
    BY <1>2, <2>1, BodyParts, RequestFrame DEF TypeInv, LeftInBody, Active
  <2> QED
    BY <1>11, <2>1, <2>2 DEF FallbackInsert
<1>12. CASE FallbackSkip(r)
  BY <1>12 DEF FallbackSkip
<1>13. CASE FallbackCommit(r)
  <2>1. rows' \subseteq Row /\ link' \in [Row -> Row \cup {None}]
    BY <1>2, <1>13, PersistTypes DEF FallbackCommit
  <2> QED
    BY <1>13, <2>1 DEF FallbackCommit
<1>14. CASE DbError(r) \/ DeadlockVictim(r)
  BY <1>14 DEF DbError, DeadlockVictim, Abort
<1>15. CASE CommitUnconfirmed(r)
  <2>1. rows' \subseteq Row /\ link' \in [Row -> Row \cup {None}]
    BY <1>2, <1>15, PersistTypes DEF CommitUnconfirmed
  <2> QED
    BY <1>15, <2>1 DEF CommitUnconfirmed
<1> QED
  BY <1>3, <1>4, <1>5, <1>6, <1>7, <1>8, <1>9, <1>10, <1>11, <1>12, <1>13,
     <1>14, <1>15 DEF RequestStep, Step

(* The records left of a request stay positions of its body.                *)
LEMMA RequestLeft ==
    ASSUME TypeInv, NEW r \in Requests, RequestStep(r)
    PROVE  \E S \in SUBSET DOMAIN msg[r].events : left' = [left EXCEPT ![r] = S]
<1>1. left[r] \in SUBSET DOMAIN msg[r].events /\ left = [left EXCEPT ![r] = left[r]]
  BY RequestFrame DEF TypeInv, TypeOK, HandlerTypes, LeftInBody, Active
<1>2. \A known : Records(r, known) \in SUBSET DOMAIN msg[r].events
  BY DEF Records
<1>3. CASE LookupBatch(r) \/ InsertConflict(r)
  BY <1>1, <1>2, <1>3 DEF LookupBatch, InsertConflict
<1>4. CASE InsertRow(r) \/ FallbackInsert(r) \/ FallbackSkip(r)
  <2>1. PICK p \in left[r] : left' = [left EXCEPT ![r] = @ \ {p}]
    BY <1>4 DEF InsertRow, FallbackInsert, FallbackSkip
  <2> QED
    BY <1>1, <2>1
<1>5. CASE \/ LookupOne(r) \/ Refetch(r) \/ PickSignal(r) \/ UpdateLink(r)
           \/ Commit(r) \/ FallbackCommit(r)
           \/ DbError(r) \/ DeadlockVictim(r) \/ CommitUnconfirmed(r)
  BY <1>1, <1>5 DEF LookupOne, Refetch, PickSignal, UpdateLink, Commit, FallbackCommit,
                    DbError, DeadlockVictim, Abort, CommitUnconfirmed
<1> QED
  BY <1>3, <1>4, <1>5 DEF RequestStep, Step

(* What a request's steps change of the others' variables: nothing.         *)
LEMMA RequestLocal ==
    ASSUME TypeInv, NEW r \in Requests, RequestStep(r), NEW q \in Requests, q # r
    PROVE  own'[q] = own[q] /\ existing'[q] = existing[q] /\ named'[q] = named[q]
<1>1. /\ own \in [Requests -> SUBSET Events] /\ existing \in [Requests -> SUBSET Events]
      /\ named \in [Requests -> Row \cup {None}]
  BY DEF TypeInv, TypeOK, HandlerTypes, RequestTypes
<1> USE <1>1 DEF Finish, Goto
<1>2. CASE LookupOne(r) \/ LookupBatch(r)
  BY <1>2 DEF LookupOne, LookupBatch
<1>3. CASE InsertRow(r) \/ InsertConflict(r) \/ Refetch(r)
  BY <1>3 DEF InsertRow, InsertConflict, Refetch
<1>4. CASE PickSignal(r) \/ UpdateLink(r) \/ Commit(r)
  BY <1>4 DEF PickSignal, UpdateLink, Commit
<1>5. CASE FallbackInsert(r) \/ FallbackSkip(r) \/ FallbackCommit(r)
  BY <1>5 DEF FallbackInsert, FallbackSkip, FallbackCommit
<1>6. CASE DbError(r) \/ DeadlockVictim(r) \/ CommitUnconfirmed(r)
  BY <1>6 DEF DbError, DeadlockVictim, Abort, CommitUnconfirmed
<1> QED
  BY <1>2, <1>3, <1>4, <1>5, <1>6 DEF RequestStep, Step

(* Every step keeps the types.                                              *)
LEMMA TypeStep == TypeInv /\ [Next]_vars => TypeInv'
<1> SUFFICES ASSUME TypeInv, [Next]_vars PROVE TypeInv'
  OBVIOUS
<1>1. ASSUME NEW r \in Requests, NEW m \in Messages, NEW allowed \in AllowLists,
             ReceiveRequest(r, m, allowed)
      PROVE  TypeInv'
  <2>1. /\ msg' = [msg EXCEPT ![r] = [to |-> m.to, events |-> m.events, allowed |-> allowed]]
        /\ \/ Finish(r, "rejected") /\ UNCHANGED left
           \/ /\ Goto(r, "insert") \/ Goto(r, "lookup")
              /\ left' = [left EXCEPT ![r] = DOMAIN m.events]
              /\ UNCHANGED own
        /\ UNCHANGED <<up, now, acked, rows, link, existing, stamp, pick, inserted, skipped, named>>
        /\ phase[r] = "idle"
    BY <1>1 DEF ReceiveRequest, table, tally
  <2>2. up' \in BOOLEAN
    BY <2>1 DEF TypeInv, TypeOK
  <2>3. ServerTypes' /\ RequestTypes'
    BY <2>1 DEF TypeInv, TypeOK, ServerTypes, RequestTypes
  <2>4. DOMAIN m.events \in SUBSET Nat
    <3>1. m.events \in Seq(Events)
      BY MessageBody
    <3> QED
      BY <3>1
  <2>5. HandlerTypes'
    BY <2>1, <2>4, MessageBody
    DEF TypeInv, TypeOK, HandlerTypes, Finish, Goto, Phases, Replies, OkReplies
  <2>6. BodyHeld'
    <3>1. HasBody(r)'
      BY <2>1, MessageBody DEF TypeInv, TypeOK, HandlerTypes, HasBody
    <3>2. \A q \in Requests \ {r} : phase'[q] = phase[q] /\ msg'[q] = msg[q]
      BY <2>1 DEF TypeInv, TypeOK, HandlerTypes, Finish, Goto
    <3> QED
      BY <3>1, <3>2 DEF TypeInv, BodyHeld, HasBody
  <2>7. RepliesAtEnd'
    BY <2>1 DEF TypeInv, TypeOK, HandlerTypes, Finish, Goto, RepliesAtEnd
  <2>8. LeftInBody'
    <3>1. left'[r] \subseteq DOMAIN msg'[r].events
      BY <2>1 DEF TypeInv, TypeOK, HandlerTypes, LeftInBody, Finish, Goto
    <3>2. \A q \in Requests \ {r} :
             phase'[q] = phase[q] /\ msg'[q] = msg[q] /\ left'[q] = left[q]
      BY <2>1 DEF TypeInv, TypeOK, HandlerTypes, Finish, Goto
    <3>3. phase'[r] # "idle"
      BY <2>1 DEF TypeInv, TypeOK, HandlerTypes, Finish, Goto
    <3> QED
      BY <3>1, <3>2, <3>3 DEF TypeInv, LeftInBody
  <2> QED
    BY <2>2, <2>3, <2>5, <2>6, <2>7, <2>8 DEF TypeInv, TypeOK
<1>2. ASSUME NEW r \in Requests, RequestStep(r)
      PROVE  TypeInv'
  <2>1. UNCHANGED <<up, now, acked, msg>> /\ Active(r) /\ HasBody(r)
    BY <1>2, RequestFrame
  <2>2. Ends(r) \/ GoesOn(r)
    BY <1>2, RequestFrame
  <2>3. DataTypes'
    BY <1>2, RequestData
  <2>4. up' \in BOOLEAN
    BY <2>1 DEF TypeInv, TypeOK
  <2>5. ServerTypes' /\ RequestTypes'
    BY <2>1, <2>3 DEF TypeInv, TypeOK, ServerTypes, DataTypes
  <2>6. phase' \in [Requests -> Phases] /\ reply' \in [Requests -> Replies]
    BY <2>2 DEF TypeInv, TypeOK, HandlerTypes, Ends, GoesOn, Phases
  <2>7. HandlerTypes'
    BY <2>1, <2>3, <2>6 DEF TypeInv, TypeOK, HandlerTypes, DataTypes
  <2>8. \A q \in Requests \ {r} : phase'[q] = phase[q] /\ reply'[q] = reply[q]
    BY <2>2 DEF TypeInv, TypeOK, HandlerTypes, Ends, GoesOn
  <2>9. BodyHeld'
    BY <2>1, <2>8 DEF TypeInv, BodyHeld, HasBody
  <2>11. LeftInBody'
    BY <1>2, <2>1, <2>2, <2>8, RequestLeft
    DEF TypeInv, TypeOK, HandlerTypes, LeftInBody, Ends, GoesOn, Active
  <2>10. RepliesAtEnd'
    BY <2>1, <2>2, <2>8 DEF TypeInv, TypeOK, HandlerTypes, Ends, GoesOn, RepliesAtEnd, Active
  <2> QED
    BY <2>4, <2>5, <2>7, <2>9, <2>10, <2>11 DEF TypeInv, TypeOK
<1>3. ASSUME NEW r \in Requests, AckReply(r)
      PROVE  TypeInv'
  <2>1. reply[r] # "none"
    BY <1>3 DEF AckReply, OkReplies
  <2>2. EventsOf(r) \subseteq Events
    BY <2>1, BodyParts DEF TypeInv, RepliesAtEnd, BodyHeld
  <2>3. /\ acked' = acked \cup EventsOf(r)
        /\ UNCHANGED <<up, now, rows, link, phase, msg, existing, left, own, stamp, pick,
                       inserted, skipped, named, reply>>
    BY <1>3 DEF AckReply, table, tally
  <2>4. up' \in BOOLEAN
    BY <2>3 DEF TypeInv, TypeOK
  <2> QED
    BY <2>2, <2>3, <2>4 DEF TypeInv, TypeOK, ServerTypes, HandlerTypes, RequestTypes,
                            BodyHeld, HasBody, RepliesAtEnd, LeftInBody
<1>4. CASE Crash
  <2>1. up' \in BOOLEAN
    BY <1>4 DEF Crash
  <2>2. ServerTypes' /\ RequestTypes'
    BY <1>4 DEF Crash, TypeInv, TypeOK, ServerTypes, RequestTypes, table, tally
  <2>3. HandlerTypes'
    BY <1>4 DEF Crash, TypeInv, TypeOK, HandlerTypes, Phases, Replies
  <2>4. BodyHeld'
    BY <1>4 DEF Crash, TypeInv, BodyHeld, HasBody, Active
  <2>5. RepliesAtEnd' /\ LeftInBody'
    BY <1>4 DEF Crash, TypeInv, RepliesAtEnd, LeftInBody, Active
  <2> QED
    BY <2>1, <2>2, <2>3, <2>4, <2>5 DEF TypeInv, TypeOK
<1>5. CASE Start \/ Tick \/ UNCHANGED vars
  <2>1. up' \in BOOLEAN
    BY <1>5 DEF Start, Tick, vars, TypeInv, TypeOK
  <2>2. now' \in 0..MaxTime
    BY <1>5, TimeAssumption DEF Start, Tick, vars, TypeInv, TypeOK, ServerTypes
  <2>3. UNCHANGED <<acked, rows, link, phase, msg, existing, left, own, stamp, pick,
                    inserted, skipped, named, reply>>
    BY <1>5 DEF Start, Tick, vars, table, tally
  <2> QED
    BY <2>1, <2>2, <2>3 DEF TypeInv, TypeOK, ServerTypes, HandlerTypes, RequestTypes,
                            BodyHeld, HasBody, RepliesAtEnd, LeftInBody
<1> QED
  BY <1>1, <1>2, <1>3, <1>4, <1>5 DEF Next, RequestStep

(* Every variable keeps its type, for every set of events, bodies and       *)
(* concurrent requests.                                                     *)
THEOREM TypeCorrect == Spec => []TypeOK
<1>1. TypeInv => TypeOK
  BY DEF TypeInv
<1> QED
  BY <1>1, TypeInit, TypeStep, PTL DEF Spec

-----------------------------------------------------------------------------
(* An identified event is in at most one open transaction, and not in one   *)
(* once it is stored: what the unique index makes concurrent inserts wait   *)
(* for.                                                                     *)
OwnUnique ==
    \A e \in Identified :
        /\ \A a, b \in Requests : e \in own[a] /\ e \in own[b] => a = b
        /\ \A a \in Requests : e \in own[a] => e \notin Stored

UniqueInv == UniqueEventId /\ OwnUnique

LEMMA UniqueInit == Init => UniqueInv
  BY DEF Init, UniqueInv, UniqueEventId, OwnUnique

(* A step that stores nothing and opens no transaction keeps it.            *)
LEMMA UniqueFrame ==
    ASSUME TypeInv, UniqueInv, UNCHANGED rows,
           \A r \in Requests : own'[r] \subseteq own[r]
    PROVE  UniqueInv'
  BY DEF UniqueInv, UniqueEventId, OwnUnique, Stored

(* An INSERT that neither waits nor conflicts adds an event no one has.     *)
LEMMA UniqueInsert ==
    ASSUME TypeInv, UniqueInv, UNCHANGED rows,
           NEW r \in Requests, NEW e \in Events,
           Wants(r, e), ~Blocked(r), ~Violates(r, e),
           own'[r] \subseteq own[r] \cup {e},
           \A q \in Requests \ {r} : own'[q] = own[q]
    PROVE  UniqueInv'
<1>1. e \in Identified => e \notin Stored
  BY DEF Violates, RowsOf, Stored
<1>2. e \in Identified => \A q \in Requests : e \notin own[q]
  BY DEF Violates, Blocked, WaitsFor
<1>3. Stored' = Stored
  BY DEF Stored
<1>4. OwnUnique'
  BY <1>1, <1>2, <1>3 DEF UniqueInv, OwnUnique
<1> QED
  BY <1>4 DEF UniqueInv, UniqueEventId

(* A commit stores what only its own transaction holds.                     *)
LEMMA UniquePersist ==
    ASSUME TypeInv, UniqueInv, NEW r \in Requests, Persist(r),
           own' = [own EXCEPT ![r] = {}]
    PROVE  UniqueInv'
<1>1. rows' = rows \cup {[req |-> r, ev |-> e] : e \in own[r]}
  BY DEF Persist
<1>2. own'[r] = {} /\ \A q \in Requests \ {r} : own'[q] = own[q]
  BY DEF TypeInv, TypeOK, HandlerTypes
<1>3. UniqueEventId'
  <2> SUFFICES ASSUME NEW v \in rows', NEW w \in rows', v.ev = w.ev, v.ev \in Identified
               PROVE  v = w
    BY DEF UniqueEventId
  <2>1. CASE v \in rows /\ w \in rows
    BY <2>1 DEF UniqueInv, UniqueEventId
  <2>2. CASE v \in rows /\ w \notin rows
    BY <1>1, <2>2 DEF UniqueInv, OwnUnique, Stored
  <2>3. CASE v \notin rows /\ w \in rows
    BY <1>1, <2>3 DEF UniqueInv, OwnUnique, Stored
  <2>4. CASE v \notin rows /\ w \notin rows
    BY <1>1, <2>4
  <2> QED
    BY <2>1, <2>2, <2>3, <2>4
<1>4. Stored' \subseteq Stored \cup own[r]
  <2> SUFFICES ASSUME NEW w \in rows' PROVE w.ev \in Stored \cup own[r]
    BY DEF Stored
  <2>1. CASE w \in rows
    BY <2>1 DEF Stored
  <2>2. CASE w \notin rows
    BY <1>1, <2>2
  <2> QED
    BY <2>1, <2>2
<1>5. OwnUnique'
  BY <1>2, <1>4 DEF UniqueInv, OwnUnique
<1> QED
  BY <1>3, <1>5 DEF UniqueInv

LEMMA UniqueStep == TypeInv /\ UniqueInv /\ [Next]_vars => UniqueInv'
<1> SUFFICES ASSUME TypeInv, UniqueInv, [Next]_vars PROVE UniqueInv'
  OBVIOUS
<1>0. own \in [Requests -> SUBSET Events]
  BY DEF TypeInv, TypeOK, HandlerTypes
<1>1. ASSUME NEW r \in Requests, InsertRow(r) \/ FallbackInsert(r)
      PROVE  UniqueInv'
  <2> DEFINE e(p) == msg[r].events[p]
  <2>1. HasBody(r)
    BY <1>1, RequestFrame DEF RequestStep, Step
  <2>2. PICK p \in left[r] :
           /\ First(r, p)
           /\ ~Violates(r, e(p))
           /\ \/ own' = [own EXCEPT ![r] = @ \cup {e(p)}]
              \/ own' = [own EXCEPT ![r] = {e(p)}]
    BY <1>1 DEF InsertRow, FallbackInsert
  <2>3. e(p) \in Events
    BY <1>1, <2>1, <2>2, BodyParts DEF TypeInv, LeftInBody, InsertRow, FallbackInsert
  <2>4. Wants(r, e(p)) /\ ~Blocked(r) /\ UNCHANGED rows
    BY <1>1, <2>2 DEF Wants, InsertRow, FallbackInsert, table
  <2>5. own'[r] \subseteq own[r] \cup {e(p)} /\ \A q \in Requests \ {r} : own'[q] = own[q]
    BY <1>0, <2>2
  <2> HIDE DEF e
  <2> QED
    BY <2>2, <2>3, <2>4, <2>5, UniqueInsert
<1>2. ASSUME NEW r \in Requests, Commit(r) \/ FallbackCommit(r) \/ CommitUnconfirmed(r)
      PROVE  UniqueInv'
  <2>1. Persist(r) /\ own' = [own EXCEPT ![r] = {}]
    BY <1>2 DEF Commit, FallbackCommit, CommitUnconfirmed, Finish
  <2> QED
    BY <2>1, UniquePersist
<1>3. ASSUME NEW r \in Requests, NEW m \in Messages, NEW allowed \in AllowLists,
             ReceiveRequest(r, m, allowed)
      PROVE  UniqueInv'
  <2>1. UNCHANGED rows /\ (own' = [own EXCEPT ![r] = {}] \/ own' = own)
    BY <1>3 DEF ReceiveRequest, Finish, table
  <2> QED
    BY <1>0, <2>1, UniqueFrame
<1>4. ASSUME NEW r \in Requests,
             \/ LookupOne(r) \/ LookupBatch(r) \/ InsertConflict(r) \/ Refetch(r)
             \/ PickSignal(r) \/ UpdateLink(r) \/ FallbackSkip(r)
             \/ DbError(r) \/ DeadlockVictim(r)
      PROVE  UniqueInv'
  <2>1. UNCHANGED rows /\ (own' = [own EXCEPT ![r] = {}] \/ own' = own)
    BY <1>4 DEF LookupOne, LookupBatch, InsertConflict, Refetch, PickSignal, UpdateLink,
                FallbackSkip, DbError, DeadlockVictim, Abort, Finish, table
  <2> QED
    BY <1>0, <2>1, UniqueFrame
<1>5. ASSUME NEW r \in Requests, AckReply(r)
      PROVE  UniqueInv'
  BY <1>5, UniqueFrame DEF AckReply, table
<1>6. ASSUME NEW r \in Requests, RequestStep(r)
      PROVE  UniqueInv'
  BY <1>1, <1>2, <1>4, <1>6 DEF RequestStep, Step
<1>7. CASE Crash
  <2>1. UNCHANGED rows /\ \A r \in Requests : own'[r] = {}
    BY <1>7 DEF Crash, table
  <2> QED
    BY <2>1, UniqueFrame
<1>8. CASE Start \/ Tick \/ UNCHANGED vars
  BY <1>8, UniqueFrame DEF Start, Tick, vars, table
<1> QED
  BY <1>3, <1>5, <1>6, <1>7, <1>8 DEF Next, RequestStep

(* However often an identified event is delivered, by however many          *)
(* concurrent requests, and whatever fails, one row stores it.              *)
THEOREM ExactlyOnce == Spec => []UniqueEventId
<1>1. UniqueInv => UniqueEventId
  BY DEF UniqueInv
<1> QED
  BY <1>1, TypeInit, TypeStep, UniqueInit, UniqueStep, PTL DEF Spec

-----------------------------------------------------------------------------
(* What an ok reply rests on: until a handler ends, each event of its body  *)
(* is stored, in its open transaction or still to be inserted; the phases   *)
(* say which of these can be left.                                          *)
LeftEvents(r) == {msg[r].events[i] : i \in left[r]}

Accounted(r) ==
    Active(r) => EventsOf(r) \subseteq Stored \cup own[r] \cup LeftEvents(r)

NothingLeft(r) == phase[r] \in {"pick", "update", "commit"} => left[r] = {}

NothingOpen(r) ==
    \/ phase[r] \in {"idle", "lookup", "refetch", "fallback", "done"}
    \/ phase[r] = "insert" /\ msg[r].to # "signals"
    => own[r] = {}

(* A request that lost the race for its one event finds that event stored.  *)
RaceLost(r) ==
    phase[r] = "refetch" =>
        /\ EventsOf(r) \subseteq Stored
        /\ FindByEventId(msg[r].events[1]) # {}

Answered(r) ==
    /\ reply[r] \in OkReplies => EventsOf(r) \subseteq Stored
    /\ reply[r] = "duplicate" /\ msg[r].to \in {"trade", "marker"}
       => named[r] \in RowsOf(msg[r].events[1])

Sound(r) ==
    /\ existing[r] \subseteq Stored
    /\ Accounted(r)
    /\ NothingLeft(r)
    /\ NothingOpen(r)
    /\ RaceLost(r)
    /\ Answered(r)

ReplyInv == acked \subseteq Stored /\ \A r \in Requests : Sound(r)

LEMMA ReplyInit == Init => ReplyInv
  BY DEF Init, ReplyInv, Sound, Accounted, NothingLeft, NothingOpen, RaceLost, Answered,
         Active, OkReplies

(* Rows stay; a commit adds those of its transaction.                       *)
LEMMA RowsGrow == TypeInv /\ [Next]_vars => rows \subseteq rows'
<1> SUFFICES ASSUME TypeInv, [Next]_vars PROVE rows \subseteq rows'
  OBVIOUS
<1>1. ASSUME NEW r \in Requests, Commit(r) \/ FallbackCommit(r) \/ CommitUnconfirmed(r)
      PROVE  rows \subseteq rows'
  BY <1>1 DEF Commit, FallbackCommit, CommitUnconfirmed, Persist
<1>2. ASSUME NEW r \in Requests, NEW m \in Messages, NEW allowed \in AllowLists,
             ReceiveRequest(r, m, allowed)
      PROVE  rows \subseteq rows'
  BY <1>2 DEF ReceiveRequest, table
<1>3. ASSUME NEW r \in Requests,
             \/ LookupOne(r) \/ LookupBatch(r) \/ InsertRow(r) \/ InsertConflict(r)
             \/ Refetch(r) \/ PickSignal(r) \/ UpdateLink(r)
             \/ FallbackInsert(r) \/ FallbackSkip(r)
             \/ DbError(r) \/ DeadlockVictim(r) \/ AckReply(r)
      PROVE  rows \subseteq rows'
  BY <1>3 DEF LookupOne, LookupBatch, InsertRow, InsertConflict, Refetch, PickSignal,
              UpdateLink, FallbackInsert, FallbackSkip, DbError, DeadlockVictim, Abort,
              AckReply, table
<1>4. CASE Crash \/ Start \/ Tick \/ UNCHANGED vars
  BY <1>4 DEF Crash, Start, Tick, vars, table
<1>5. ASSUME NEW r \in Requests, Step(r) PROVE rows \subseteq rows'
  BY <1>1, <1>3, <1>5 DEF Step
<1> QED
  BY <1>1, <1>2, <1>3, <1>4, <1>5 DEF Next

LEMMA StoredGrows ==
    ASSUME rows \subseteq rows'
    PROVE  Stored \subseteq Stored' /\ \A e : RowsOf(e) \subseteq RowsOf(e)'
  BY DEF Stored, RowsOf

LEMMA StoredByPersist ==
    ASSUME NEW r \in Requests, Persist(r)
    PROVE  Stored \cup own[r] \subseteq Stored'
<1>1. rows' = rows \cup {[req |-> r, ev |-> e] : e \in own[r]}
  BY DEF Persist
<1>2. ASSUME NEW e \in own[r] PROVE e \in Stored'
  <2>1. [req |-> r, ev |-> e] \in rows'
    BY <1>1
  <2> QED
    BY <2>1 DEF Stored
<1> QED
  BY <1>1, <1>2 DEF Stored

(* A request keeps what holds of it while others take their steps.          *)
LEMMA SoundKept ==
    ASSUME rows \subseteq rows', NEW q \in Requests, Sound(q),
           phase'[q] = phase[q], reply'[q] = reply[q], msg'[q] = msg[q],
           own'[q] = own[q], left'[q] = left[q], existing'[q] = existing[q],
           named'[q] = named[q]
    PROVE  Sound(q)'
<1>1. Stored \subseteq Stored' /\ \A e : RowsOf(e) \subseteq RowsOf(e)'
  BY StoredGrows
<1>2. EventsOf(q)' = EventsOf(q) /\ LeftEvents(q)' = LeftEvents(q)
  BY DEF EventsOf, LeftEvents
<1>3. \A e : FindByEventId(e) # {} => FindByEventId(e)' # {}
  BY <1>1 DEF FindByEventId
<1>4. existing'[q] \subseteq Stored' /\ Accounted(q)'
  BY <1>1, <1>2 DEF Sound, Accounted, Active
<1>5. NothingLeft(q)' /\ NothingOpen(q)'
  BY DEF Sound, NothingLeft, NothingOpen
<1>6. RaceLost(q)'
  BY <1>1, <1>2, <1>3 DEF Sound, RaceLost
<1>7. Answered(q)'
  BY <1>1, <1>2 DEF Sound, Answered
<1> QED
  BY <1>4, <1>5, <1>6, <1>7 DEF Sound

(* A handler that ends leaves only its answer to be justified.              *)
LEMMA SoundEnd ==
    ASSUME TypeInv, NEW r \in Requests, NEW answer, Finish(r, answer),
           existing'[r] \subseteq Stored',
           answer \in OkReplies => EventsOf(r)' \subseteq Stored',
           answer = "duplicate" /\ msg'[r].to \in {"trade", "marker"}
              => named'[r] \in RowsOf(msg[r].events[1])'
    PROVE  Sound(r)'
<1>1. phase'[r] = "done" /\ own'[r] = {} /\ reply'[r] = answer
  BY DEF TypeInv, TypeOK, HandlerTypes, Finish
<1>2. Accounted(r)' /\ NothingLeft(r)' /\ NothingOpen(r)' /\ RaceLost(r)'
  BY <1>1 DEF Accounted, NothingLeft, NothingOpen, RaceLost, Active
<1>3. Answered(r)'
  BY <1>1 DEF Answered
<1> QED
  BY <1>2, <1>3 DEF Sound

(* The one event of a body that is no batch.                                *)
LEMMA SingleEvent ==
    ASSUME NEW r \in Requests, HasBody(r), msg[r].to # "signals"
    PROVE  EventsOf(r) = {msg[r].events[1]} /\ DOMAIN msg[r].events = {1}
<1>1. Len(msg[r].events) = 1 /\ DOMAIN msg[r].events = 1..Len(msg[r].events)
  BY BodyParts DEF HasBody
<1>2. DOMAIN msg[r].events = {1}
  BY <1>1
<1> QED
  BY <1>2 DEF EventsOf

(* What the dedupe query finds is stored, and what conflicts is stored or   *)
(* in the request's own transaction.                                        *)
LEMMA FoundStored ==
    /\ \A e : FindByEventId(e) # {} => FindByEventId(e) = RowsOf(e) /\ e \in Stored
    /\ \A r \in Requests : \A e : Violates(r, e) /\ e \notin own[r] => FindByEventId(e) # {}
  BY DEF FindByEventId, RowsOf, Stored, Violates

(* The step of a request keeps what its reply rests on.                     *)
LEMMA SoundStep ==
    ASSUME TypeInv, ReplyInv, rows \subseteq rows', NEW r \in Requests, RequestStep(r)
    PROVE  Sound(r)'
<1>1. /\ HasBody(r) /\ Active(r) /\ msg' = msg
      /\ EventsOf(r)' = EventsOf(r)
  BY RequestFrame DEF EventsOf
<1>2. /\ Sound(r) /\ Accounted(r) /\ NothingLeft(r) /\ NothingOpen(r) /\ RaceLost(r)
      /\ existing[r] \subseteq Stored
      /\ EventsOf(r) \subseteq Stored \cup own[r] \cup LeftEvents(r)
      /\ reply[r] = "none"
  BY <1>1 DEF TypeInv, RepliesAtEnd, ReplyInv, Sound, Accounted, Active
<1>3. Stored \subseteq Stored' /\ \A e : RowsOf(e) \subseteq RowsOf(e)'
  BY StoredGrows
<1>4. /\ phase \in [Requests -> Phases] /\ own \in [Requests -> SUBSET Events]
      /\ left \in [Requests -> SUBSET Nat] /\ existing \in [Requests -> SUBSET Events]
      /\ named \in [Requests -> Row \cup {None}]
      /\ left[r] \subseteq DOMAIN msg[r].events
  BY <1>1 DEF TypeInv, TypeOK, HandlerTypes, RequestTypes, LeftInBody, Active
<1>5. CASE LookupOne(r)
  <2> DEFINE found == FindByEventId(msg[r].events[1])
  <2>1. UNCHANGED <<existing, left, msg>> /\ phase[r] = "lookup" /\ msg[r].to # "signals"
    BY <1>5 DEF LookupOne
  <2>2. CASE found # {}
    <3>1. Finish(r, "duplicate") /\ named'[r] \in RowsOf(msg[r].events[1])
      BY <1>4, <1>5, <2>2, FoundStored DEF LookupOne
    <3>2. EventsOf(r) \subseteq Stored
      BY <1>1, <2>1, <2>2, SingleEvent, FoundStored
    <3> QED
      BY <1>1, <1>2, <1>3, <2>1, <3>1, <3>2, SoundEnd
  <2>3. CASE found = {}
    <3>1. phase'[r] = "insert" /\ own'[r] = {} /\ reply'[r] = "none"
      BY <1>2, <1>4, <1>5, <2>1, <2>3 DEF LookupOne, Goto, NothingOpen
    <3>2. LeftEvents(r)' = LeftEvents(r) /\ own[r] = {}
      BY <1>2, <2>1 DEF LeftEvents, NothingOpen
    <3> QED
      BY <1>1, <1>2, <1>3, <2>1, <3>1, <3>2
      DEF Sound, Accounted, NothingLeft, NothingOpen, RaceLost, Answered, OkReplies
  <2> QED
    BY <2>2, <2>3
<1>6. CASE LookupBatch(r)
  <2> DEFINE known == {e \in EventsOf(r) : FindByEventId(e) # {}}
  <2>1. /\ existing'[r] = known
        /\ left'[r] = Records(r, known)
        /\ phase[r] = "lookup"
        /\ \/ Records(r, known) = {} /\ Finish(r, "batch")
           \/ Goto(r, "insert") /\ UNCHANGED own
    BY <1>4, <1>6 DEF LookupBatch
  <2>2. known \subseteq Stored
    BY FoundStored
  <2>3. EventsOf(r) \subseteq known \cup {msg[r].events[i] : i \in Records(r, known)}
    BY DEF EventsOf, Records
  <2> HIDE DEF known
  <2>4. CASE Records(r, known) = {} /\ Finish(r, "batch")
    BY <1>1, <1>3, <2>1, <2>2, <2>3, <2>4, SoundEnd
  <2>5. CASE Goto(r, "insert") /\ UNCHANGED own
    <3>1. phase'[r] = "insert" /\ own'[r] = {} /\ reply'[r] = "none"
      BY <1>2, <1>4, <2>1, <2>5 DEF Goto, NothingOpen
    <3>2. EventsOf(r)' \subseteq Stored' \cup LeftEvents(r)'
      BY <1>1, <1>3, <2>1, <2>2, <2>3 DEF LeftEvents
    <3> QED
      BY <1>3, <2>1, <2>2, <3>1, <3>2
      DEF Sound, Accounted, NothingLeft, NothingOpen, RaceLost, Answered, OkReplies
  <2> QED
    BY <2>1, <2>4, <2>5
<1>7. CASE InsertRow(r)
  <2>1. PICK p \in left[r] :
           /\ own'[r] = own[r] \cup {msg[r].events[p]}
           /\ left'[r] = left[r] \ {p}
           /\ phase'[r] = IF left[r] # {p} THEN "insert"
                          ELSE IF msg[r].to = "trade" THEN "pick" ELSE "commit"
           /\ reply'[r] = "none"
           /\ existing'[r] = existing[r]
    BY <1>2, <1>4, <1>7 DEF InsertRow, Goto
  <2>2. LeftEvents(r) \subseteq {msg[r].events[p]} \cup LeftEvents(r)'
    BY <1>1, <2>1 DEF LeftEvents
  <2>3. EventsOf(r)' \subseteq Stored' \cup own'[r] \cup LeftEvents(r)'
    BY <1>1, <1>2, <1>3, <2>1, <2>2
  <2>4. msg[r].to # "signals" => left[r] = {p}
    BY <1>1, <1>4, <2>1, SingleEvent
  <2> QED
    BY <1>1, <1>2, <1>3, <2>1, <2>3, <2>4
    DEF Sound, Accounted, NothingLeft, NothingOpen, RaceLost, Answered, OkReplies
<1>8. CASE InsertConflict(r)
  <2>1. UNCHANGED existing /\ phase[r] = "insert"
    BY <1>8 DEF InsertConflict
  <2>2. CASE msg[r].to # "signals"
    <3>1. own[r] = {}
      BY <1>2, <2>1, <2>2 DEF NothingOpen
    <3>2. PICK p \in left[r] : Violates(r, msg[r].events[p])
      BY <1>8 DEF InsertConflict
    <3>3. p = 1
      BY <1>1, <1>4, <2>2, <3>2, SingleEvent
    <3>4. FindByEventId(msg[r].events[1]) # {}
      BY <3>1, <3>2, <3>3, FoundStored
    <3>5. EventsOf(r) \subseteq Stored
      BY <1>1, <2>2, <3>4, SingleEvent, FoundStored
    <3>6. CASE Finish(r, "duplicate") /\ msg[r].to \in {"signal", "regime"}
      BY <1>1, <1>2, <1>3, <2>1, <3>5, <3>6, SoundEnd
    <3>7. CASE Goto(r, "refetch") /\ UNCHANGED <<own, left>>
      <4>1. phase'[r] = "refetch" /\ own'[r] = {} /\ reply'[r] = "none"
        BY <1>2, <1>4, <3>1, <3>7 DEF Goto
      <4>2. FindByEventId(msg[r].events[1])' # {}
        BY <1>1, <1>3, <3>4 DEF FindByEventId
      <4> QED
        BY <1>1, <1>2, <1>3, <2>1, <3>5, <4>1, <4>2
        DEF Sound, Accounted, NothingLeft, NothingOpen, RaceLost, Answered, OkReplies
    <3> QED
      BY <1>8, <2>2, <3>6, <3>7 DEF InsertConflict
  <2>3. CASE msg[r].to = "signals"
    <3>1. /\ phase'[r] = "fallback" /\ own'[r] = {} /\ reply'[r] = "none"
          /\ left'[r] = Records(r, existing[r])
      BY <1>2, <1>4, <1>8, <2>3 DEF InsertConflict, Goto
    <3>2. EventsOf(r)' \subseteq Stored' \cup LeftEvents(r)'
      BY <1>1, <1>2, <1>3, <3>1 DEF EventsOf, Records, LeftEvents
    <3> QED
      BY <1>2, <1>3, <2>1, <3>1, <3>2
      DEF Sound, Accounted, NothingLeft, NothingOpen, RaceLost, Answered, OkReplies
  <2> QED
    BY <2>2, <2>3
<1>9. CASE Refetch(r)
  <2> DEFINE found == FindByEventId(msg[r].events[1])
  <2>1. found # {} /\ EventsOf(r) \subseteq Stored
    BY <1>2, <1>9 DEF Refetch, RaceLost
  <2>2. named'[r] \in RowsOf(msg[r].events[1])
    BY <1>4, <1>9, <2>1, FoundStored DEF Refetch
  <2> QED
    BY <1>1, <1>2, <1>3, <1>9, <2>1, <2>2, SoundEnd DEF Refetch
<1>10. CASE PickSignal(r) \/ UpdateLink(r)
  <2>1. /\ phase'[r] \in {"update", "commit"} /\ reply'[r] = "none"
        /\ UNCHANGED <<own, left, existing>>
        /\ phase[r] \in {"pick", "update"}
    BY <1>2, <1>4, <1>10 DEF PickSignal, UpdateLink, Goto
  <2>2. LeftEvents(r)' = LeftEvents(r)
    BY <1>1, <2>1 DEF LeftEvents
  <2> QED
    BY <1>1, <1>2, <1>3, <2>1, <2>2
    DEF Sound, Accounted, NothingLeft, NothingOpen, RaceLost, Answered, OkReplies
<1>11. CASE Commit(r)
  <2>1. left[r] = {} /\ UNCHANGED existing
    BY <1>2, <1>11 DEF Commit, NothingLeft
  <2>2. EventsOf(r) \subseteq Stored'
    BY <1>2, <1>11, <2>1, StoredByPersist DEF Commit, LeftEvents
  <2>3. PICK answer \in {"batch", "stored"} : Finish(r, answer)
    BY <1>11 DEF Commit
  <2> QED
    BY <1>1, <1>2, <1>3, <2>1, <2>2, <2>3, SoundEnd
<1>12. CASE FallbackInsert(r)
  <2>1. PICK p \in left[r] :
           /\ own'[r] = {msg[r].events[p]}
           /\ left'[r] = left[r] \ {p}
           /\ phase'[r] = "fallback_commit" /\ reply'[r] = "none"
           /\ existing'[r] = existing[r]
           /\ own[r] = {}
    BY <1>2, <1>4, <1>12 DEF FallbackInsert, Goto, NothingOpen
  <2>2. LeftEvents(r) \subseteq {msg[r].events[p]} \cup LeftEvents(r)'
    BY <1>1, <2>1 DEF LeftEvents
  <2> QED
    BY <1>1, <1>2, <1>3, <2>1, <2>2
    DEF Sound, Accounted, NothingLeft, NothingOpen, RaceLost, Answered, OkReplies
<1>13. CASE FallbackSkip(r)
  <2>1. PICK p \in left[r] :
           /\ Violates(r, msg[r].events[p])
           /\ left'[r] = left[r] \ {p}
           /\ IF left[r] = {p} THEN Finish(r, "batch") ELSE UNCHANGED <<phase, own, reply>>
           /\ phase[r] = "fallback" /\ UNCHANGED existing
    BY <1>4, <1>13 DEF FallbackSkip
  <2>2. own[r] = {} /\ msg[r].events[p] \in Stored
    BY <1>2, <2>1, FoundStored DEF NothingOpen
  <2>3. LeftEvents(r) \subseteq {msg[r].events[p]} \cup LeftEvents(r)'
    BY <1>1, <2>1 DEF LeftEvents
  <2>4. EventsOf(r) \subseteq Stored' \cup LeftEvents(r)'
    BY <1>2, <1>3, <2>2, <2>3
  <2>5. CASE left[r] = {p}
    <3>1. LeftEvents(r)' = {}
      BY <2>1, <2>5 DEF LeftEvents
    <3> QED
      BY <1>1, <1>2, <1>3, <2>1, <2>4, <2>5, <3>1, SoundEnd
  <2>6. CASE left[r] # {p}
    BY <1>1, <1>2, <1>3, <2>1, <2>2, <2>4, <2>6
    DEF Sound, Accounted, NothingLeft, NothingOpen, RaceLost, Answered, OkReplies
  <2> QED
    BY <2>5, <2>6
<1>14. CASE FallbackCommit(r)
  <2>1. UNCHANGED <<left, existing>> /\ Persist(r)
    BY <1>14 DEF FallbackCommit
  <2>2. LeftEvents(r)' = LeftEvents(r)
    BY <1>1, <2>1 DEF LeftEvents
  <2>3. EventsOf(r) \subseteq Stored' \cup LeftEvents(r)'
    BY <1>2, <2>1, <2>2, StoredByPersist
  <2>4. CASE left[r] = {}
    <3>1. Finish(r, "batch") /\ LeftEvents(r) = {}
      BY <1>14, <2>4 DEF FallbackCommit, LeftEvents
    <3> QED
      BY <1>1, <1>2, <1>3, <2>1, <2>2, <2>3, <3>1, SoundEnd
  <2>5. CASE left[r] # {}
    <3>1. phase'[r] = "fallback" /\ own'[r] = {} /\ reply'[r] = "none"
      BY <1>2, <1>4, <1>14, <2>5 DEF FallbackCommit, Goto
    <3> QED
      BY <1>1, <1>2, <1>3, <2>1, <2>3, <3>1
      DEF Sound, Accounted, NothingLeft, NothingOpen, RaceLost, Answered, OkReplies
  <2> QED
    BY <2>4, <2>5
<1>15. CASE DbError(r) \/ DeadlockVictim(r) \/ CommitUnconfirmed(r)
  <2>1. Finish(r, "error") /\ UNCHANGED existing
    BY <1>15 DEF DbError, DeadlockVictim, Abort, CommitUnconfirmed
  <2> QED
    BY <1>2, <1>3, <2>1, SoundEnd DEF OkReplies
<1> QED
  BY <1>5, <1>6, <1>7, <1>8, <1>9, <1>10, <1>11, <1>12, <1>13, <1>14, <1>15
  DEF RequestStep, Step

LEMMA ReplyStep == TypeInv /\ ReplyInv /\ [Next]_vars => ReplyInv'
<1> SUFFICES ASSUME TypeInv, ReplyInv, [Next]_vars PROVE ReplyInv'
  OBVIOUS
<1>1. rows \subseteq rows' /\ Stored \subseteq Stored'
  BY RowsGrow, StoredGrows
<1>2. /\ phase \in [Requests -> Phases] /\ reply \in [Requests -> Replies]
      /\ own \in [Requests -> SUBSET Events] /\ left \in [Requests -> SUBSET Nat]
      /\ existing \in [Requests -> SUBSET Events]
      /\ named \in [Requests -> Row \cup {None}]
      /\ msg \in [Requests -> Bodies \cup {None}]
  BY DEF TypeInv, TypeOK, HandlerTypes, RequestTypes
<1>3. \A q \in Requests : Sound(q)
  BY DEF ReplyInv
<1>4. ASSUME NEW r \in Requests, NEW m \in Messages, NEW allowed \in AllowLists,
             ReceiveRequest(r, m, allowed)
      PROVE  ReplyInv'
  <2>1. /\ msg'[r].events = m.events /\ phase[r] = "idle"
        /\ UNCHANGED <<acked, existing, named>>
        /\ \/ Finish(r, "rejected") /\ UNCHANGED left
           \/ /\ Goto(r, "insert") \/ Goto(r, "lookup")
              /\ left'[r] = DOMAIN m.events
              /\ UNCHANGED own
    BY <1>2, <1>4 DEF ReceiveRequest
  <2>2. Sound(r)'
    <3>1. existing'[r] \subseteq Stored'
      BY <1>1, <1>3, <2>1 DEF Sound
    <3>2. CASE Finish(r, "rejected")
      BY <3>1, <3>2, SoundEnd DEF OkReplies
    <3>3. CASE (Goto(r, "insert") \/ Goto(r, "lookup")) /\ UNCHANGED own
               /\ left'[r] = DOMAIN m.events
      <4>1. /\ phase'[r] \in {"insert", "lookup"} /\ reply'[r] = "none" /\ own'[r] = {}
        BY <1>2, <1>3, <2>1, <3>3
        DEF Goto, Sound, NothingOpen, TypeInv, RepliesAtEnd
      <4>2. EventsOf(r)' = LeftEvents(r)'
        BY <2>1, <3>3 DEF EventsOf, LeftEvents
      <4> QED
        BY <3>1, <4>1, <4>2
        DEF Sound, Accounted, NothingLeft, NothingOpen, RaceLost, Answered, OkReplies
    <3> QED
      BY <2>1, <3>2, <3>3
  <2>3. ASSUME NEW q \in Requests, q # r PROVE Sound(q)'
    <3>1. /\ phase'[q] = phase[q] /\ reply'[q] = reply[q] /\ msg'[q] = msg[q]
          /\ own'[q] = own[q] /\ left'[q] = left[q]
      BY <1>2, <1>4, <2>3 DEF ReceiveRequest, Finish, Goto
    <3> QED
      BY <1>1, <1>3, <2>1, <3>1, SoundKept
  <2> QED
    BY <1>1, <2>1, <2>2, <2>3 DEF ReplyInv
<1>5. ASSUME NEW r \in Requests, RequestStep(r)
      PROVE  ReplyInv'
  <2>1. Sound(r)' /\ UNCHANGED <<acked, msg>>
    BY <1>1, <1>5, SoundStep, RequestFrame
  <2>2. ASSUME NEW q \in Requests, q # r PROVE Sound(q)'
    <3>1. phase'[q] = phase[q] /\ reply'[q] = reply[q]
      BY <1>2, <1>5, <2>2, RequestFrame DEF Ends, GoesOn
    <3>2. left'[q] = left[q]
      BY <1>2, <1>5, <2>2, RequestLeft
    <3>3. own'[q] = own[q] /\ existing'[q] = existing[q] /\ named'[q] = named[q]
      BY <1>2, <1>5, <2>2, RequestLocal
    <3> QED
      BY <1>1, <1>3, <2>1, <3>1, <3>2, <3>3, SoundKept
  <2> QED
    BY <1>1, <2>1, <2>2 DEF ReplyInv
<1>6. ASSUME NEW r \in Requests, AckReply(r)
      PROVE  ReplyInv'
  <2>1. /\ acked' = acked \cup EventsOf(r) /\ EventsOf(r) \subseteq Stored
        /\ UNCHANGED <<phase, reply, msg, own, left, existing, named>>
    BY <1>3, <1>6 DEF AckReply, Sound, Answered
  <2> QED
    BY <1>1, <1>3, <2>1, SoundKept DEF ReplyInv
<1>7. CASE Crash
  <2>1. UNCHANGED <<acked, msg, left, existing, named>>
    BY <1>7 DEF Crash
  <2>2. ASSUME NEW q \in Requests PROVE Sound(q)'
    <3>1. CASE Active(q)
      <4>1. /\ phase'[q] = "done" /\ reply'[q] = "lost" /\ own'[q] = {}
            /\ existing'[q] \subseteq Stored'
        BY <1>1, <1>3, <1>7, <2>1, <3>1 DEF Crash, Sound
      <4> QED
        BY <4>1
        DEF Sound, Accounted, NothingLeft, NothingOpen, RaceLost, Answered, Active, OkReplies
    <3>2. CASE ~Active(q)
      <4>1. phase'[q] = phase[q] /\ reply'[q] = reply[q] /\ own'[q] = {}
        BY <1>7, <3>2 DEF Crash
      <4>2. own[q] = {}
        BY <1>3, <3>2 DEF Sound, NothingOpen, Active
      <4> QED
        BY <1>1, <1>3, <2>1, <4>1, <4>2, SoundKept
    <3> QED
      BY <3>1, <3>2
  <2> QED
    BY <1>1, <2>1, <2>2 DEF ReplyInv
<1>8. CASE Start \/ Tick \/ UNCHANGED vars
  <2>1. UNCHANGED <<acked, phase, reply, msg, own, left, existing, named>>
    BY <1>8 DEF Start, Tick, vars, tally
  <2> QED
    BY <1>1, <1>3, <2>1, SoundKept DEF ReplyInv
<1> QED
  BY <1>4, <1>5, <1>6, <1>7, <1>8 DEF Next, RequestStep

-----------------------------------------------------------------------------
(* The invariants together.                                                 *)
IInv == TypeInv /\ UniqueInv /\ ReplyInv

LEMMA Inductive == Spec => []IInv
<1>1. Init => IInv
  BY TypeInit, UniqueInit, ReplyInit DEF IInv
<1>2. IInv /\ [Next]_vars => IInv'
  BY TypeStep, UniqueStep, ReplyStep DEF IInv
<1> QED
  BY <1>1, <1>2, PTL DEF Spec

(* An ok reply -- stored, duplicate or a batch with skipped payloads -- is  *)
(* given only when every event of the body is committed, so that the outbox *)
(* of the bot may forget them.                                              *)
THEOREM OkRepliesAreStored == Spec => []OkReplyStored
<1>1. IInv => OkReplyStored
  BY DEF IInv, ReplyInv, Sound, Answered, OkReplyStored
<1> QED
  BY <1>1, Inductive, PTL

(* A trade or marker that is answered as a duplicate names the row that     *)
(* stores it, also when it lost a race: the second query always finds it.   *)
THEOREM DuplicatesNameTheirRow == Spec => []DuplicateNamesRow
<1>1. IInv => DuplicateNamesRow
  BY DEF IInv, ReplyInv, Sound, Answered, DuplicateNamesRow
<1> QED
  BY <1>1, Inductive, PTL

(* The receiver implements ExactlyOnceIngest: every step of it adds rows    *)
(* without repeating an identified event, makes the bot forget stored       *)
(* events, or is none of the outbox's business.                             *)
THEOREM ImplementsIngest == Spec => IngestSpec
<1>1. Init => Ingest!Init
  BY DEF Init, Ingest!Init
<1>2. IInv /\ IInv' /\ [Next]_vars => [Ingest!Next]_<<rows, acked>>
  <2> SUFFICES ASSUME IInv, IInv', [Next]_vars PROVE [Ingest!Next]_<<rows, acked>>
    OBVIOUS
  <2>1. /\ rows \subseteq rows' /\ rows' \subseteq Row /\ Ingest!Unique(rows')
    BY RowsGrow DEF IInv, TypeInv, TypeOK, ServerTypes, UniqueInv, UniqueEventId, Ingest!Unique
  <2>2. ASSUME NEW r \in Requests, AckReply(r) PROVE Ingest!Forget
    BY <2>2 DEF AckReply, table, IInv, ReplyInv, Sound, Answered, Stored, Ingest!Forget
  <2>3. ASSUME NEW r \in Requests, RequestStep(r) PROVE UNCHANGED acked
    BY <2>3, RequestFrame DEF IInv
  <2>4. ASSUME NEW r \in Requests, NEW m \in Messages, NEW allowed \in AllowLists,
               ReceiveRequest(r, m, allowed)
        PROVE  UNCHANGED acked
    BY <2>4 DEF ReceiveRequest
  <2>5. Crash \/ Start \/ Tick \/ UNCHANGED vars => UNCHANGED acked
    BY DEF Crash, Start, Tick, vars
  <2>6. UNCHANGED acked => Ingest!Store
    BY <2>1 DEF Ingest!Store
  <2> QED
    BY <2>2, <2>3, <2>4, <2>5, <2>6 DEF Next, RequestStep, Ingest!Next
<1> QED
  BY <1>1, <1>2, Inductive, PTL DEF Spec, IngestSpec, Ingest!Spec

-----------------------------------------------------------------------------
(* The back-links.                                                          *)

(* A request for one event is posted to the endpoint of its kind.           *)
KindsMatch ==
    \A r \in Requests :
        phase[r] # "idle" /\ msg[r].to # "signals" => Kind[msg[r].events[1]] = msg[r].to

(* A request whose rows are committed is past its dedupe query, so that the *)
(* timestamp of the rows no longer changes.                                 *)
RowsStamped == \A w \in rows : phase[w.req] \notin {"idle", "lookup"}

(* The signal w may be linked to the trade t.                               *)
Explains(w, t) ==
    /\ w \in rows
    /\ w.ev \in Entered /\ Kind[t] = "trade" /\ Scope[w.ev] = Scope[t]
    /\ EntryTime[t] - Before <= stamp[w.req]
    /\ stamp[w.req] <= EntryTime[t] + After

(* A trade selects a signal after its own INSERT, in the same transaction;  *)
(* what it selected stays a signal it explains, linked by then or not.      *)
Picked(r) ==
    /\ phase[r] \in {"pick", "update"} \/ (pick[r] # None /\ phase[r] # "done")
       => /\ phase[r] \in {"pick", "update", "commit"}
          /\ msg[r].to = "trade" /\ msg[r].events[1] \in own[r]
    /\ pick[r] # None /\ phase[r] # "done" => Explains(pick[r], msg[r].events[1])

PickSound == \A r \in Requests : Picked(r)

(* A link is set by the commit that ends its request, so no two signals     *)
(* carry the link of the same request.                                      *)
LinksOnce ==
    /\ \A w \in Row : link[w] # None => phase[link[w].req] = "done"
    /\ \A v, w \in Row : link[v] # None /\ link[v] = link[w] => v = w

LinkInv == KindsMatch /\ RowsStamped /\ PickSound /\ LinksOnce /\ LinkSound

LEMMA LinkInit == Init => LinkInv
  BY DEF Init, LinkInv, KindsMatch, RowsStamped, PickSound, Picked, LinksOnce, LinkSound

(* What a request selected keeps explaining its trade while others step.    *)
LEMMA PickedKept ==
    ASSUME NEW q \in Requests, Picked(q), rows \subseteq rows',
           \A w \in rows : stamp'[w.req] = stamp[w.req],
           phase'[q] = phase[q], msg'[q] = msg[q], own'[q] = own[q], pick'[q] = pick[q]
    PROVE  Picked(q)'
  BY DEF Picked, Explains

(* The links survive a step that sets none and ends or starts no request    *)
(* that has one.                                                            *)
LEMMA LinksKept ==
    ASSUME TypeInv, LinksOnce, LinkSound, rows \subseteq rows', UNCHANGED link,
           \A w \in rows : stamp'[w.req] = stamp[w.req],
           \A q \in Requests : phase[q] = "done" => phase'[q] = "done"
    PROVE  LinksOnce' /\ LinkSound'
<1>1. \A w \in Row : link[w] # None => link[w].req \in Requests
  BY DEF TypeInv, TypeOK, ServerTypes, Row
<1>2. LinksOnce'
  BY <1>1 DEF LinksOnce
<1>3. LinkSound'
  BY DEF LinkSound
<1> QED
  BY <1>2, <1>3

(* The commit of a trade: its row and its link become durable together.     *)
LEMMA LinksPersist ==
    ASSUME TypeInv, LinkInv, NEW r \in Requests, HasBody(r), Persist(r),
           phase[r] \in {"commit", "fallback_commit"}, UNCHANGED stamp,
           \A q \in Requests : phase[q] = "done" => phase'[q] = "done",
           phase[r] = "commit" => phase'[r] = "done"
    PROVE  LinksOnce' /\ LinkSound'
<1>1. rows' = rows \cup {[req |-> r, ev |-> e] : e \in own[r]}
  BY DEF Persist
<1>2. CASE phase[r] = "commit" /\ pick[r] # None
  <2> DEFINE t == msg[r].events[1]
             row == [req |-> r, ev |-> t]
  <2>1. /\ t \in own[r] /\ Explains(pick[r], t)
    BY <1>2 DEF LinkInv, PickSound, Picked
  <2>2. t \in Events /\ row \in Row /\ row \in rows'
    BY <1>1, <2>1, BodyParts DEF Row
  <2>3. link \in [Row -> Row \cup {None}] /\ rows \subseteq Row
    BY DEF TypeInv, TypeOK, ServerTypes
  <2>4. /\ pick[r] \in Row
        /\ link'[pick[r]] = row
        /\ \A w \in Row \ {pick[r]} : link'[w] = link[w]
    BY <1>2, <2>1, <2>2, <2>3 DEF Persist, Explains
  <2>5. \A w \in Row \ {pick[r]} : link[w] # None => link[w].req # r /\ link[w].req \in Requests
    BY <1>2, <2>3 DEF LinkInv, LinksOnce, Row
  <2>6. LinksOnce'
    BY <1>2, <2>2, <2>4, <2>5 DEF LinkInv, LinksOnce
  <2>7. LinkSound'
    <3> SUFFICES ASSUME NEW w \in Row, link'[w] # None
                 PROVE  /\ w \in rows' /\ link'[w] \in rows'
                        /\ w.ev \in Entered /\ Kind[link'[w].ev] = "trade"
                        /\ Scope[w.ev] = Scope[link'[w].ev]
                        /\ EntryTime[link'[w].ev] - Before <= stamp'[w.req]
                        /\ stamp'[w.req] <= EntryTime[link'[w].ev] + After
      BY DEF LinkSound
    <3>1. CASE w = pick[r]
      BY <1>1, <2>1, <2>2, <2>4, <3>1 DEF Explains
    <3>2. CASE w # pick[r]
      BY <1>1, <2>4, <3>2 DEF LinkInv, LinkSound
    <3> QED
      BY <3>1, <3>2
  <2> QED
    BY <2>6, <2>7
<1>3. CASE ~(phase[r] = "commit" /\ pick[r] # None)
  <2>1. UNCHANGED link /\ rows \subseteq rows'
    BY <1>1, <1>3 DEF Persist
  <2> QED
    BY <2>1, LinksKept DEF LinkInv
<1> QED
  BY <1>2, <1>3

(* What the steps of a request do to its timestamp and its selection.       *)
LEMMA RequestPick ==
    ASSUME TypeInv, NEW r \in Requests, RequestStep(r)
    PROVE  /\ \A q \in Requests \ {r} : pick'[q] = pick[q] /\ stamp'[q] = stamp[q]
           /\ phase[r] # "lookup" => stamp' = stamp
           /\ phase[r] # "pick" => pick' = pick
<1>1. pick \in [Requests -> Row \cup {None}] /\ stamp \in [Requests -> 0..MaxTime]
  BY DEF TypeInv, TypeOK, RequestTypes
<1>2. CASE LookupOne(r) \/ LookupBatch(r)
  BY <1>1, <1>2 DEF LookupOne, LookupBatch
<1>3. CASE InsertRow(r) \/ InsertConflict(r) \/ Refetch(r)
  BY <1>3 DEF InsertRow, InsertConflict, Refetch
<1>4. CASE PickSignal(r) \/ UpdateLink(r) \/ Commit(r)
  BY <1>1, <1>4 DEF PickSignal, UpdateLink, Commit
<1>5. CASE FallbackInsert(r) \/ FallbackSkip(r) \/ FallbackCommit(r)
  BY <1>5 DEF FallbackInsert, FallbackSkip, FallbackCommit
<1>6. CASE DbError(r) \/ DeadlockVictim(r) \/ CommitUnconfirmed(r)
  BY <1>6 DEF DbError, DeadlockVictim, Abort, CommitUnconfirmed
<1> QED
  BY <1>2, <1>3, <1>4, <1>5, <1>6 DEF RequestStep, Step

(* The rows a request's step adds are its own, and it is past its query.    *)
LEMMA RequestRows ==
    ASSUME TypeInv, NEW r \in Requests, RequestStep(r)
    PROVE  /\ UNCHANGED <<rows, link>>
              \/ (Persist(r) /\ phase[r] \in {"commit", "fallback_commit"})
           /\ phase[r] = "commit" /\ ~UNCHANGED <<rows, link>> => phase'[r] = "done"
           /\ phase[r] \notin {"lookup", "insert"} => phase'[r] # "insert"
           /\ phase'[r] \notin {"idle", "lookup"}
<1>1. phase \in [Requests -> Phases]
  BY DEF TypeInv, TypeOK, HandlerTypes
<1> USE <1>1 DEF Finish, Goto, table
<1>2. CASE LookupOne(r) \/ LookupBatch(r)
  BY <1>2 DEF LookupOne, LookupBatch
<1>3. CASE InsertRow(r) \/ InsertConflict(r) \/ Refetch(r)
  BY <1>3 DEF InsertRow, InsertConflict, Refetch
<1>4. CASE PickSignal(r) \/ UpdateLink(r) \/ Commit(r)
  BY <1>4 DEF PickSignal, UpdateLink, Commit
<1>5. CASE FallbackInsert(r) \/ FallbackSkip(r) \/ FallbackCommit(r)
  BY <1>5 DEF FallbackInsert, FallbackSkip, FallbackCommit
<1>6. CASE DbError(r) \/ DeadlockVictim(r) \/ CommitUnconfirmed(r)
  BY <1>6 DEF DbError, DeadlockVictim, Abort, CommitUnconfirmed
<1> QED
  BY <1>2, <1>3, <1>4, <1>5, <1>6 DEF RequestStep, Step

(* The step of a request itself keeps what it selected sound.               *)
LEMMA PickedStep ==
    ASSUME TypeInv, LinkInv, NEW r \in Requests, RequestStep(r),
           rows \subseteq rows', \A w \in rows : stamp'[w.req] = stamp[w.req]
    PROVE  Picked(r)'
<1>1. /\ msg' = msg /\ HasBody(r) /\ Active(r)
      /\ phase \in [Requests -> Phases] /\ own \in [Requests -> SUBSET Events]
      /\ left \in [Requests -> SUBSET Nat] /\ pick \in [Requests -> Row \cup {None}]
  BY RequestFrame DEF TypeInv, TypeOK, HandlerTypes, RequestTypes
<1>2. Picked(r)
  BY DEF LinkInv, PickSound
<1>3. CASE phase'[r] = "done"
  BY <1>3 DEF Picked
<1>4. CASE InsertRow(r)
  <2>1. PICK p \in left[r] :
           /\ own' = [own EXCEPT ![r] = @ \cup {msg[r].events[p]}]
           /\ Goto(r, IF left[r] # {p} THEN "insert"
                      ELSE IF msg[r].to = "trade" THEN "pick" ELSE "commit")
    BY <1>4 DEF InsertRow
  <2>2. /\ phase[r] = "insert" /\ UNCHANGED <<rows, link, pick>>
        /\ left[r] \subseteq DOMAIN msg[r].events
    BY <1>4 DEF InsertRow, table, TypeInv, LeftInBody
  <2>3. pick[r] = None
    BY <1>2, <2>2 DEF Picked
  <2>4. msg[r].to = "trade" => p = 1
    BY <1>1, <2>1, <2>2, SingleEvent
  <2> QED
    BY <1>1, <2>1, <2>2, <2>3, <2>4 DEF Picked, Goto
<1>5. CASE PickSignal(r)
  <2>1. /\ phase[r] = "pick" /\ phase'[r] = "update" /\ UNCHANGED <<rows, link, own, stamp>>
        /\ pick'[r] # None => pick'[r] \in Closest(msg[r].events[1])
    BY <1>1, <1>5 DEF PickSignal, Goto, table
  <2>2. msg[r].to = "trade" /\ msg[r].events[1] \in own[r]
    BY <1>2, <2>1 DEF Picked
  <2>3. Kind[msg[r].events[1]] = "trade"
    BY <2>1, <2>2 DEF LinkInv, KindsMatch
  <2>4. pick'[r] # None => Explains(pick'[r], msg[r].events[1])
    BY <2>1, <2>3 DEF Closest, Candidates, Explains
  <2>5. pick'[r] # None => Explains(pick[r], msg[r].events[1])'
    BY <1>1, <2>1, <2>4 DEF Explains
  <2> QED
    BY <1>1, <2>1, <2>2, <2>5 DEF Picked
<1>6. CASE UpdateLink(r)
  <2>1. phase[r] = "update" /\ phase'[r] = "commit" /\ UNCHANGED <<rows, link, own, stamp, pick>>
    BY <1>1, <1>6 DEF UpdateLink, Goto, table
  <2> QED
    BY <1>1, <1>2, <2>1 DEF Picked, Explains
<1>7. CASE \/ LookupOne(r) \/ LookupBatch(r) \/ InsertConflict(r)
           \/ FallbackInsert(r) \/ FallbackSkip(r) \/ FallbackCommit(r)
  <2>1. /\ phase[r] \in {"lookup", "insert", "fallback", "fallback_commit"}
        /\ phase'[r] \notin {"pick", "update"}
        /\ UNCHANGED pick
    BY <1>1, <1>7 DEF LookupOne, LookupBatch, InsertConflict, FallbackInsert, FallbackSkip,
                      FallbackCommit, Goto, Finish
  <2> QED
    BY <1>2, <2>1 DEF Picked
<1>8. CASE Refetch(r) \/ Commit(r) \/ DbError(r) \/ DeadlockVictim(r) \/ CommitUnconfirmed(r)
  BY <1>1, <1>3, <1>8 DEF Refetch, Commit, DbError, DeadlockVictim, Abort,
                          CommitUnconfirmed, Finish
<1> QED
  BY <1>4, <1>5, <1>6, <1>7, <1>8 DEF RequestStep, Step

LEMMA LinkStep == TypeInv /\ LinkInv /\ [Next]_vars => LinkInv'
<1> SUFFICES ASSUME TypeInv, LinkInv, [Next]_vars PROVE LinkInv'
  OBVIOUS
<1>1. rows \subseteq rows'
  BY RowsGrow
<1>2. /\ phase \in [Requests -> Phases] /\ own \in [Requests -> SUBSET Events]
      /\ rows \subseteq Row /\ \A w \in rows : w.req \in Requests
  BY DEF TypeInv, TypeOK, ServerTypes, HandlerTypes, Row
<1>3. ASSUME NEW r \in Requests, RequestStep(r)
      PROVE  LinkInv'
  <2>1. /\ msg' = msg /\ Active(r) /\ HasBody(r) /\ phase'[r] # "idle"
        /\ \A q \in Requests \ {r} : phase'[q] = phase[q] /\ own'[q] = own[q]
    BY <1>2, <1>3, RequestFrame, RequestLocal DEF Ends, GoesOn
  <2>2. \A w \in rows : stamp'[w.req] = stamp[w.req]
    BY <1>2, <1>3, RequestPick DEF LinkInv, RowsStamped
  <2>3. \A q \in Requests : phase[q] = "done" => phase'[q] = "done"
    BY <2>1 DEF Active
  <2>4. KindsMatch'
    BY <2>1 DEF LinkInv, KindsMatch, Active
  <2>5. RowsStamped'
    <3>1. \A w \in rows' : w \in rows \/ w.req = r
      <4>1. rows' = rows \/ rows' = rows \cup {[req |-> r, ev |-> e] : e \in own[r]}
        BY <1>3, RequestRows DEF Persist
      <4> QED
        BY <4>1
    <3> QED
      BY <1>2, <1>3, <2>1, <3>1, RequestRows DEF LinkInv, RowsStamped
  <2>6. PickSound'
    <3>1. ASSUME NEW q \in Requests, q # r PROVE Picked(q)'
      BY <1>1, <1>3, <2>1, <2>2, <3>1, PickedKept, RequestPick DEF LinkInv, PickSound
    <3> QED
      BY <1>1, <1>3, <2>2, <3>1, PickedStep DEF PickSound
  <2>7. LinksOnce' /\ LinkSound'
    <3>1. CASE UNCHANGED <<rows, link>>
      BY <1>1, <2>2, <2>3, <3>1, LinksKept DEF LinkInv
    <3>2. CASE ~UNCHANGED <<rows, link>>
      <4>1. /\ Persist(r) /\ phase[r] \in {"commit", "fallback_commit"}
            /\ phase[r] = "commit" => phase'[r] = "done"
        BY <1>3, <3>2, RequestRows
      <4>2. UNCHANGED stamp
        BY <1>3, <4>1, RequestPick
      <4> QED
        BY <2>1, <2>3, <4>1, <4>2, LinksPersist
    <3> QED
      BY <3>1, <3>2
  <2> QED
    BY <2>4, <2>5, <2>6, <2>7 DEF LinkInv
<1>4. ASSUME NEW r \in Requests, NEW m \in Messages, NEW allowed \in AllowLists,
             ReceiveRequest(r, m, allowed)
      PROVE  LinkInv'
  <2>1. /\ phase[r] = "idle" /\ UNCHANGED <<rows, link, stamp, pick>>
        /\ msg' = [msg EXCEPT ![r] = [to |-> m.to, events |-> m.events, allowed |-> allowed]]
        /\ phase'[r] \in {"done", "insert", "lookup"}
        /\ \A q \in Requests \ {r} : phase'[q] = phase[q] /\ own'[q] = own[q]
    BY <1>2, <1>4 DEF ReceiveRequest, table, Finish, Goto
  <2>2. /\ msg'[r].to = m.to /\ msg'[r].events = m.events
        /\ \A q \in Requests \ {r} : msg'[q] = msg[q]
    BY <2>1 DEF TypeInv, TypeOK, HandlerTypes
  <2>3. KindsMatch'
    <3>1. m.to # "signals" => Kind[m.events[1]] = m.to
      BY MessageAssumption DEF IsMessage
    <3> QED
      BY <2>1, <2>2, <3>1 DEF LinkInv, KindsMatch
  <2>4. RowsStamped'
    BY <1>2, <2>1 DEF LinkInv, RowsStamped
  <2>5. PickSound'
    <3>1. pick[r] = None
      BY <2>1 DEF LinkInv, PickSound, Picked
    <3>2. Picked(r)'
      BY <2>1, <3>1 DEF Picked
    <3>3. ASSUME NEW q \in Requests, q # r PROVE Picked(q)'
      BY <1>1, <2>1, <2>2, <3>3, PickedKept DEF LinkInv, PickSound
    <3> QED
      BY <3>2, <3>3 DEF PickSound
  <2>6. LinksOnce' /\ LinkSound'
    BY <1>1, <2>1, LinksKept DEF LinkInv
  <2> QED
    BY <2>3, <2>4, <2>5, <2>6 DEF LinkInv
<1>5. CASE Crash
  <2>1. /\ UNCHANGED <<rows, link, stamp, pick, msg>>
        /\ \A q \in Requests : phase'[q] = IF Active(q) THEN "done" ELSE phase[q]
    BY <1>5 DEF Crash, table
  <2>2. KindsMatch' /\ RowsStamped'
    BY <1>2, <2>1 DEF LinkInv, KindsMatch, RowsStamped, Active
  <2>3. PickSound'
    BY <2>1 DEF LinkInv, PickSound, Picked, Active
  <2>4. LinksOnce' /\ LinkSound'
    BY <1>1, <2>1, LinksKept DEF LinkInv, Active
  <2> QED
    BY <2>2, <2>3, <2>4 DEF LinkInv
<1>6. CASE Start \/ Tick \/ UNCHANGED vars \/ \E r \in Requests : AckReply(r)
  <2>1. UNCHANGED <<rows, link, phase, msg, own, stamp, pick>>
    BY <1>6 DEF Start, Tick, vars, AckReply, table
  <2> QED
    BY <2>1 DEF LinkInv, KindsMatch, RowsStamped, PickSound, Picked, Explains, LinksOnce,
                LinkSound
<1> QED
  BY <1>3, <1>4, <1>5, <1>6 DEF Next, RequestStep

LEMMA LinkInductive == Spec => [](TypeInv /\ UniqueInv /\ LinkInv)
  BY TypeInit, UniqueInit, LinkInit, TypeStep, UniqueStep, LinkStep, PTL DEF Spec

(* A trade explains at most one signal, although the bot delivers it again: *)
(* its row and its link commit together or not at all, and the row is one.  *)
THEOREM TradeExplainsOneSignal == Spec => []OneSignalPerTrade
<1>1. TypeInv /\ UniqueInv /\ LinkInv => OneSignalPerTrade
  <2> SUFFICES ASSUME TypeInv, UniqueInv, LinkInv, NEW v \in rows, NEW w \in rows,
                      link[v] # None, link[w] # None,
                      link[v].ev = link[w].ev, link[v].ev \in Identified
               PROVE  v = w
    BY DEF OneSignalPerTrade
  <2>1. v \in Row /\ w \in Row
    BY DEF TypeInv, TypeOK, ServerTypes
  <2>2. link[v] \in rows /\ link[w] \in rows
    BY <2>1 DEF LinkInv, LinkSound
  <2>3. link[v] = link[w]
    BY <2>2 DEF UniqueInv, UniqueEventId
  <2> QED
    BY <2>1, <2>3 DEF LinkInv, LinksOnce
<1> QED
  BY <1>1, LinkInductive, PTL

(* A link joins a committed ENTER signal and a committed trade of the same  *)
(* user, coin and side, with the signal inside the window of the entry, for *)
(* every width of that window.                                              *)
THEOREM LinksAreSound == Spec => []LinkSound
<1>1. LinkInv => LinkSound
  BY DEF LinkInv
<1> QED
  BY <1>1, LinkInductive, PTL

=============================================================================
