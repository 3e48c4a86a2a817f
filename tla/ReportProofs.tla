----------------------------- MODULE ReportProofs -----------------------------
(***************************************************************************)
(* Proofs about what the platform reports: the score of the audit, for any *)
(* checks, requests and observations (AuditRunner); the verdict on a       *)
(* configuration, for any history of trades (Validation); the executive    *)
(* summary, for any trades and signals and whatever arrives between its    *)
(* reads (ExecutiveSummary).                                               *)
(***************************************************************************)
EXTENDS AuditRunner, Validation, ExecutiveSummary, FoldLemmas, SequenceTheorems, TLAPS

-----------------------------------------------------------------------------
(* The minimum of a set of numbers that holds a lower bound of its own.     *)
LEMMA MinIs ==
  ASSUME NEW A \in SUBSET Int, NEW m \in A, \A y \in A : m <= y
  PROVE  Min(A) = m
<1>1. \A x \in A : (\A y \in A : x <= y) => x = m
  <2> SUFFICES ASSUME NEW x \in A, \A y \in A : x <= y PROVE x = m
    OBVIOUS
  <2>1. x \in Int /\ m \in Int /\ x <= m /\ m <= x
    OBVIOUS
  <2> QED BY <2>1
<1> QED BY <1>1 DEF Min

-----------------------------------------------------------------------------
(* What the audit's checks make of what they saw.                           *)

Codes == {"BOT_UNREACHABLE", "NO_TRADES_RECEIVED", "TRADE_COUNT_DRIFT", "NO_SIGNALS_RECEIVED",
          "DUPLICATE_TRADES", "NET_PNL", "GROSS_PNL", "FEES", "WIN_COUNT_DRIFT", "NET_GT_GROSS",
          "NULL_FIELDS", "FUTURE_TIMESTAMPS", "NO_RECENT_SNAPSHOTS", "PNL_OUTLIERS",
          "DISK_CRITICAL", "DISK_HIGH", "DISK_WARNING", "MISSING_YESTERDAY"}
FindingTypes == [severity : {"info", "warning", "error", "critical"}, code : Codes]

SeveritiesOf(findings) == {findings[i].severity : i \in DOMAIN findings}
StatusFor(severities) == IF severities \cap {"error", "critical"} # {} THEN "ERROR"
                         ELSE IF "warning" \in severities THEN "WARNING" ELSE "OK"
ScoreFor(severities) == IF severities \cap {"error", "critical"} # {} THEN 40
                        ELSE IF "warning" \in severities THEN 75 ELSE 100

(* Results whose status and score are those of their worst finding.         *)
Graded ==
    {r \in [status : {"OK", "WARNING", "ERROR"}, score : {40, 75, 100}, findings : Seq(FindingTypes)] :
        /\ r.status = StatusFor(SeveritiesOf(r.findings))
        /\ r.score = ScoreFor(SeveritiesOf(r.findings))}

LEMMA AddGrades ==
  ASSUME NEW r \in Graded, NEW f \in FindingTypes PROVE add_finding(r, f) \in Graded
<1> DEFINE q == add_finding(r, f)
           s == SeveritiesOf(r.findings)
<1>1. /\ r.status = StatusFor(s) /\ r.score = ScoreFor(s) /\ r.findings \in Seq(FindingTypes)
      /\ r.score \in {40, 75, 100} /\ r.status \in {"OK", "WARNING", "ERROR"}
      /\ f.severity \in {"info", "warning", "error", "critical"}
  BY DEF Graded, FindingTypes
<1>2. q.findings = Append(r.findings, f) /\ q.findings \in Seq(FindingTypes)
  BY <1>1 DEF add_finding
<1>3. SeveritiesOf(q.findings) = s \cup {f.severity}
  <2> DEFINE n == Len(r.findings)
  <2>1. /\ n \in Nat /\ DOMAIN r.findings = 1..n /\ DOMAIN q.findings = 1..n + 1
        /\ \A i \in 1..n : q.findings[i] = r.findings[i]
        /\ q.findings[n + 1] = f
    BY <1>1, <1>2
  <2>2. \A i \in 1..n + 1 : i \in 1..n \/ i = n + 1
    BY <2>1
  <2>3. n + 1 \in 1..n + 1 /\ \A i \in 1..n : i \in 1..n + 1
    BY <2>1
  <2> HIDE DEF n, q
  <2> QED BY <2>1, <2>2, <2>3 DEF SeveritiesOf
<1>4. q.status = StatusFor(s \cup {f.severity}) /\ q.status \in {"OK", "WARNING", "ERROR"}
  <2> HIDE DEF s
  <2>1. q.status = IF f.severity \in {"error", "critical"} THEN "ERROR"
                   ELSE IF f.severity = "warning" /\ r.status # "ERROR" THEN "WARNING"
                   ELSE r.status
    BY DEF add_finding
  <2> HIDE DEF q
  <2> QED BY <1>1, <2>1 DEF StatusFor
<1>5. q.score = ScoreFor(s \cup {f.severity}) /\ q.score \in {40, 75, 100}
  <2> HIDE DEF s
  <2>1. q.score = IF f.severity \in {"error", "critical"}
                    THEN IF r.score < 40 THEN r.score ELSE 40
                  ELSE IF f.severity = "warning" /\ r.status # "ERROR"
                    THEN IF r.score < 75 THEN r.score ELSE 75
                  ELSE r.score
    BY DEF add_finding
  <2> HIDE DEF q
  <2> QED BY <1>1, <2>1 DEF StatusFor, ScoreFor
<1>6. q = [status |-> q.status, score |-> q.score, findings |-> q.findings]
  BY DEF add_finding
<1>7. /\ q.status = StatusFor(SeveritiesOf(q.findings))
      /\ q.score = ScoreFor(SeveritiesOf(q.findings))
  BY <1>3, <1>4, <1>5
<1>8. q \in [status : {"OK", "WARNING", "ERROR"}, score : {40, 75, 100}, findings : Seq(FindingTypes)]
  <2> HIDE DEF q
  <2> QED BY <1>2, <1>4, <1>5, <1>6
<1> HIDE DEF q, s
<1>9. q \in Graded
  BY <1>7, <1>8 DEF Graded
<1> QED BY <1>9 DEF q

LEMMA ResultGraded ==
  ASSUME NEW list \in Seq(FindingTypes) PROVE Result(list) \in Graded
<1> DEFINE n == Len(list)
           D == 1..n
           step == [w \in D \X Graded |-> add_finding(w[2], list[w[1]])]
           last_ == [s \in SUBSET D |-> Max(s)]
           next(it, s) == IF s = {} THEN NoFindings
                          ELSE add_finding(it[s \ {Max(s)}], list[Max(s)])
           Equals(it) == it = [s \in SUBSET D |-> next(it, s)]
           iter == CHOOSE it : Equals(it)
<1>1. n \in Nat /\ DOMAIN list = D /\ IsFiniteSet(D) /\ \A i \in D : list[i] \in FindingTypes
  BY FS_Interval
<1>2. Result(list) = iter[D]
  BY <1>1 DEF Result, FoldLeft, MapThenFoldSet
<1>3. \A s \in SUBSET D : s # {} => Max(s) \in s
  <2> SUFFICES ASSUME NEW s \in SUBSET D, s # {} PROVE Max(s) \in s
    OBVIOUS
  <2>1. s \in SUBSET Nat /\ \A i \in s : i <= n
    BY <1>1
  <2> HIDE DEF n
  <2> QED BY <1>1, <2>1, LargestOf
<1>4. NoFindings \in Graded
  BY DEF NoFindings, Graded, StatusFor, ScoreFor, SeveritiesOf
<1>5. PICK it : Folds(it, D, Graded, NoFindings, step, last_)
  <2>1. step \in [D \X Graded -> Graded]
    <3>1. ASSUME NEW w \in D \X Graded PROVE step[w] \in Graded
      BY <1>1, AddGrades
    <3> QED BY <3>1
  <2>2. Picks(last_, D)
    BY <1>3 DEF Picks
  <2> HIDE DEF step, last_, D
  <2> QED BY <1>1, <1>4, <2>1, <2>2, FoldExists
<1>6. it \in [SUBSET D -> Graded]
  BY <1>5 DEF Folds
<1>7. Equals(it)
  <2>1. ASSUME NEW s \in SUBSET D, s # {} PROVE it[s] = next(it, s)
    <3>1. Max(s) \in D /\ s \ {Max(s)} \in SUBSET D /\ last_[s] = Max(s)
      BY <1>3, <2>1
    <3>2. it[s \ {Max(s)}] \in Graded
      BY <1>6, <3>1
    <3>3. it[s] = step[<<Max(s), it[s \ {Max(s)}]>>]
      <4> HIDE DEF step, last_
      <4> QED BY <1>5, <2>1, <3>1 DEF Folds
    <3>4. step[<<Max(s), it[s \ {Max(s)}]>>] = add_finding(it[s \ {Max(s)}], list[Max(s)])
      BY <3>1, <3>2
    <3> QED BY <2>1, <3>3, <3>4
  <2>2. it[{}] = NoFindings
    BY <1>5 DEF Folds
  <2> QED BY <1>6, <2>1, <2>2
<1>8. Equals(iter)
  <2> HIDE DEF Equals
  <2> QED BY <1>7
<1>9. \A s \in SUBSET D : iter[s] = next(iter, s)
  <2> HIDE DEF iter, next
  <2> QED BY <1>8
<1>10. D \in {s \in SUBSET D : iter[s] \in Graded}
  <2> DEFINE C == {s \in SUBSET D : iter[s] \in Graded}
  <2>1. \A s \in SUBSET D : s \in C <=> iter[s] \in Graded
    OBVIOUS
  <2>2. \A s \in SUBSET D : s # {} => Max(s) \in s /\ list[Max(s)] \in FindingTypes
    BY <1>1, <1>3
  <2> HIDE DEF iter, C
  <2>3. {} \in C
    BY <1>4, <1>9, <2>1
  <2>4. ASSUME NEW s \in SUBSET D, s # {}, \A x \in s : s \ {x} \in C PROVE s \in C
    <3>1. Max(s) \in s /\ list[Max(s)] \in FindingTypes
      BY <2>2, <2>4
    <3>2. s \ {Max(s)} \in SUBSET D /\ s \ {Max(s)} \in C
      BY <2>4, <3>1
    <3>3. iter[s \ {Max(s)}] \in Graded
      BY <2>1, <3>2
    <3>4. iter[s] = add_finding(iter[s \ {Max(s)}], list[Max(s)])
      BY <1>9, <2>4
    <3> QED BY <2>1, <3>1, <3>3, <3>4, AddGrades
  <2> HIDE DEF D
  <2>5. D \in C
    BY <1>1, <2>3, <2>4, SubsetInduction
  <2> QED BY <2>5 DEF C
<1> HIDE DEF iter
<1> QED BY <1>2, <1>10

LEMMA FindingType ==
  ASSUME NEW cond, NEW severity \in {"info", "warning", "error", "critical"}, NEW code \in Codes
  PROVE  Finding(cond, severity, code) \in Seq(FindingTypes)
<1> DEFINE f == [severity |-> severity, code |-> code]
<1>1. f \in FindingTypes
  BY DEF FindingTypes
<1>2. CASE cond
  <2>1. Finding(cond, severity, code) = <<f>>
    BY <1>2 DEF Finding
  <2> HIDE DEF f
  <2> QED BY <1>1, <2>1
<1>3. CASE ~cond
  <2>1. Finding(cond, severity, code) = << >>
    BY <1>3 DEF Finding
  <2> QED BY <2>1
<1> QED BY <1>2, <1>3

LEMMA FindingsType ==
  ASSUME NEW check \in Checks, NEW reply, NEW o
  PROVE  Findings(check, reply, o) \in Seq(FindingTypes)
<1> DEFINE S == Seq(FindingTypes)
<1>1. \A a, b \in S : a \o b \in S
  BY ConcatProperties
<1>2. \A cond : \A code \in Codes :
         /\ Finding(cond, "info", code) \in S /\ Finding(cond, "warning", code) \in S
         /\ Finding(cond, "error", code) \in S /\ Finding(cond, "critical", code) \in S
  BY FindingType
<1> HIDE DEF S
<1>3. Integration(reply, o) \in S
  BY <1>1, <1>2 DEF Integration, Codes
<1>4. \A field \in Codes : \A x, y : Compared(field, x, y) \in S
  BY <1>1, <1>2 DEF Compared
<1>5. Consistency(reply, o) \in S
  BY <1>1, <1>2, <1>4 DEF Consistency, Codes
<1>6. DataQuality(o) \in S
  BY <1>1, <1>2 DEF DataQuality, Codes
<1>7. Storage(o) \in S
  BY <1>1, <1>2 DEF Storage, Codes
<1> QED BY <1>3, <1>5, <1>6, <1>7 DEF Findings, Checks, S

-----------------------------------------------------------------------------
(* The audit: the records are of their type, every stored result is graded, *)
(* and a score that waits for no update is the lowest of the last results.  *)

Phases == {"idle", "begin", "login", "ask", "query", "persist", "sleep", "ended"}
RunTypes == [phase : Phases, at : 1..Len(checks), reply : BotReplies \cup {Unreachable}, of : Int]
Shown == {NoResult} \cup Graded

ChecksOK == checks \in Seq(Checks) /\ checks # <<>>
RunOK == /\ run \in [Executions -> RunTypes]
         /\ token \in [of : Int, young : BOOLEAN] /\ bot \in Int
LastOK == last \in [Loops -> Shown]
Counted == score = WorstScore(last)
ScoreOK == Settled => Counted
AuditInv == ChecksOK /\ RunOK /\ LastOK /\ ScoreOK

LEMMA ShownScore ==
  ASSUME NEW r \in Shown
  PROVE  /\ r.score = ScoreFor(SeveritiesOf(r.findings)) /\ r.score \in {40, 75, 100}
         /\ r # NoResult => r.status = StatusFor(SeveritiesOf(r.findings))
<1>1. CASE r \in Graded
  BY <1>1 DEF Graded
<1>2. CASE r = NoResult
  <2>1. r.findings = <<>> /\ r.score = 100
    BY <1>2 DEF NoResult
  <2>2. SeveritiesOf(r.findings) = {}
    BY <2>1 DEF SeveritiesOf
  <2> QED BY <1>2, <2>1, <2>2 DEF ScoreFor
<1> QED BY <1>1, <1>2 DEF Shown

LEMMA LoopsNotEmpty ==
  ASSUME ChecksOK PROVE Loops # {} /\ Loops \subseteq Checks /\ Len(checks) \in Nat \ {0}
<1>1. Len(checks) \in Nat /\ Len(checks) # 0 /\ DOMAIN checks = 1..Len(checks)
  BY EmptySeq DEF ChecksOK
<1>2. 1 \in DOMAIN checks /\ \A i \in DOMAIN checks : checks[i] \in Checks
  BY <1>1 DEF ChecksOK
<1> QED BY <1>1, <1>2 DEF Loops, Range

LEMMA NameIsLoop ==
  ASSUME ChecksOK, RunOK, NEW e \in Executions PROVE NameOf(e) \in Loops
<1>1. DOMAIN checks = 1..Len(checks)
  BY DEF ChecksOK
<1>2. run[e].at \in 1..Len(checks)
  BY DEF RunOK, RunTypes
<1> QED BY <1>1, <1>2 DEF NameOf, Executions, Loops, Range

LEMMA AuditStarts == AuditInit => AuditInv
<1> SUFFICES ASSUME AuditInit PROVE AuditInv
  OBVIOUS
<1>1. ChecksOK
  BY AuditAssumption DEF AuditInit, ChecksOK
<1>2. Len(checks) \in Nat \ {0} /\ Loops # {}
  BY <1>1, LoopsNotEmpty
<1>3. At("idle", 1) \in RunTypes /\ At("begin", 1) \in RunTypes
  BY <1>2 DEF At, RunTypes, Phases
<1>4. RunOK
  BY <1>3 DEF AuditInit, RunOK, NoToken
<1>5. LastOK
  BY DEF AuditInit, LastOK, Shown
<1>6. WorstScore(last) = 100
  <2>1. {last[c].score : c \in Loops} = {100}
    BY <1>2 DEF AuditInit, NoResult
  <2>2. Min({100}) = 100
    BY MinIs
  <2> QED BY <2>1, <2>2 DEF WorstScore
<1>7. ScoreOK
  BY <1>6 DEF AuditInit, ScoreOK, Counted
<1> QED BY <1>1, <1>4, <1>5, <1>7 DEF AuditInv

(* What a step may do to the executions: one of them moves on.              *)
LEMMA Moves ==
  ASSUME AuditInv, checks' = checks, NEW e \in Executions, NEW r \in RunTypes,
         run' = [run EXCEPT ![e] = r], token' \in [of : Int, young : BOOLEAN], bot' \in Int
  PROVE  /\ RunOK' /\ ChecksOK' /\ Loops' = Loops /\ Executions' = Executions
         /\ run'[e] = r /\ \A x \in Executions : x # e => run'[x] = run[x]
<1>1. Loops' = Loops /\ Executions' = Executions
  BY DEF Loops, Executions
<1>2. RunTypes' = RunTypes
  BY DEF RunTypes
<1>3. run \in [Executions -> RunTypes]
  BY DEF AuditInv, RunOK
<1>4. run' \in [Executions -> RunTypes]
  BY <1>3
<1> QED BY <1>1, <1>2, <1>3, <1>4 DEF RunOK, ChecksOK, AuditInv

(* A step that leaves results and score alone, whose execution was and is   *)
(* in no phase that waits to be counted.                                    *)
LEMMA KeepsScore ==
  ASSUME AuditInv, checks' = checks, NEW e \in Executions, NEW r \in RunTypes,
         run' = [run EXCEPT ![e] = r], token' \in [of : Int, young : BOOLEAN], bot' \in Int,
         last' = last, score' = score,
         \/ run[e].phase # "persist" /\ e \notin Requests
         \/ e \in Requests /\ r.phase # "idle"
         \/ e \in Requests /\ run[e].phase = "idle"
  PROVE  AuditInv'
<1>1. /\ RunOK' /\ ChecksOK' /\ Loops' = Loops /\ Executions' = Executions
      /\ run'[e] = r /\ \A x \in Executions : x # e => run'[x] = run[x]
  BY Moves
<1>2. LastOK'
  BY <1>1 DEF AuditInv, LastOK
<1>3. WorstScore(last)' = WorstScore(last)
  BY <1>1 DEF WorstScore
<1>4. Settled' => Settled
  <2> SUFFICES ASSUME Settled', NEW x \in Executions
               PROVE  run[x].phase # "persist" /\ (x \in Requests => run[x].phase = "idle")
    BY DEF Settled
  <2>1. run'[x].phase # "persist" /\ (x \in Requests => run'[x].phase = "idle")
    BY <1>1 DEF Settled
  <2>2. run'[e].phase # "persist" /\ (e \in Requests => r.phase = "idle")
    BY <1>1 DEF Settled
  <2> QED BY <1>1, <2>1, <2>2
<1>5. ScoreOK'
  BY <1>3, <1>4 DEF AuditInv, ScoreOK, Counted
<1> QED BY <1>1, <1>2, <1>5 DEF AuditInv

(* A step after which the score is that of the results, or still awaited.   *)
LEMMA CountsScore ==
  ASSUME AuditInv, Counted', checks' = checks, NEW e \in Executions, NEW r \in RunTypes,
         run' = [run EXCEPT ![e] = r], token' = token, bot' = bot, last' \in [Loops -> Shown]
  PROVE  AuditInv'
<1>1. RunOK' /\ ChecksOK' /\ Loops' = Loops
  BY Moves DEF AuditInv, RunOK
<1>2. LastOK'
  BY <1>1 DEF LastOK, Shown, Graded
<1>3. ScoreOK'
  BY DEF ScoreOK
<1> QED BY <1>1, <1>2, <1>3 DEF AuditInv

LEMMA AwaitsScore ==
  ASSUME AuditInv, checks' = checks, NEW e \in Executions, NEW r \in RunTypes,
         run' = [run EXCEPT ![e] = r], token' = token, bot' = bot, last' \in [Loops -> Shown],
         r.phase = "persist" \/ (e \in Requests /\ r.phase # "idle")
  PROVE  AuditInv'
<1>1. RunOK' /\ ChecksOK' /\ Loops' = Loops /\ Executions' = Executions /\ run'[e] = r
  BY Moves DEF AuditInv, RunOK
<1>2. LastOK'
  BY <1>1 DEF LastOK, Shown, Graded
<1>3. ~Settled'
  BY <1>1 DEF Settled
<1>4. ScoreOK'
  BY <1>3 DEF ScoreOK
<1> QED BY <1>1, <1>2, <1>4 DEF AuditInv

(* The records the steps leave behind.                                      *)
LEMMA LeavesType ==
  ASSUME AuditInv, NEW e \in Executions, NEW p \in Phases
  PROVE  At(p, NextAt(e)) \in RunTypes
<1> DEFINE n == Len(checks)
<1>1. n \in Nat \ {0} /\ run[e].at \in 1..n
  BY LoopsNotEmpty DEF AuditInv, RunOK, RunTypes
<1>2. NextAt(e) \in 1..n
  <2>1. (run[e].at % n) + 1 \in 1..n
    <3> HIDE DEF n
    <3> QED BY <1>1
  <2>2. 1 \in 1..n
    <3> HIDE DEF n
    <3> QED BY <1>1
  <2> QED BY <2>1, <2>2 DEF NextAt
<1> HIDE DEF n
<1> QED BY <1>2 DEF At, RunTypes, n

LEMMA AfterPhase ==
  ASSUME NEW e
  PROVE  /\ After(e) \in Phases /\ AfterFailure(e) \in Phases
         /\ e \notin Requests => After(e) = "persist" /\ AfterFailure(e) \in {"sleep", "ended"}
         /\ e \in Requests /\ ~Concludes(e) => After(e) = "begin" /\ AfterFailure(e) = "begin"
BY DEF After, AfterFailure, Concludes, Phases

LEMMA StoreStep ==
  ASSUME AuditInv, NEW e \in Executions, NEW result \in Graded, Store(e, result),
         UNCHANGED <<checks, running, token, bot>>
  PROVE  AuditInv'
<1> DEFINE r == At(After(e), NextAt(e))
<1>1. run' = [run EXCEPT ![e] = r] /\ last' = [last EXCEPT ![NameOf(e)] = result]
      /\ score' = IF Concludes(e) THEN WorstScore(last') ELSE score
  BY DEF Store, Leave
<1>2. r \in RunTypes /\ r.phase = After(e)
  BY LeavesType, AfterPhase DEF At
<1>3. last' \in [Loops -> Shown]
  BY <1>1, NameIsLoop DEF AuditInv, LastOK, Shown
<1> HIDE DEF r
<1>4. CASE Concludes(e)
  <2>1. Counted'
    BY <1>1, <1>4 DEF Counted, WorstScore, Loops
  <2> QED BY <1>1, <1>2, <1>3, <2>1, CountsScore
<1>5. CASE ~Concludes(e)
  BY <1>1, <1>2, <1>3, <1>5, AfterPhase, AwaitsScore
<1> QED BY <1>4, <1>5

LEMMA QueryStep ==
  ASSUME AuditInv, NEW e \in Executions, Query(e) PROVE AuditInv'
<1>1. NameOf(e) \in Checks
  BY NameIsLoop, LoopsNotEmpty DEF AuditInv
<1>2. Result(Finding(TRUE, "warning", "BOT_UNREACHABLE")) \in Graded
  BY FindingType, ResultGraded DEF Codes
<1>3. \A o : Result(Findings(NameOf(e), run[e].reply, o)) \in Graded
  BY <1>1, FindingsType, ResultGraded
<1> QED BY <1>2, <1>3, StoreStep DEF Query

LEMMA QueryFailsStep ==
  ASSUME AuditInv, NEW e \in Executions, QueryFails(e) PROVE AuditInv'
<1> DEFINE r == At(AfterFailure(e), NextAt(e))
<1>1. /\ run' = [run EXCEPT ![e] = r] /\ run[e].phase = "query"
      /\ score' = IF Concludes(e) THEN WorstScore(last) ELSE score
      /\ UNCHANGED <<checks, running, last, token, bot, outdated>>
  BY DEF QueryFails, Leave
<1>2. r \in RunTypes /\ r.phase = AfterFailure(e)
  BY LeavesType, AfterPhase DEF At
<1>3. last' \in [Loops -> Shown] /\ token' \in [of : Int, young : BOOLEAN] /\ bot' \in Int
  BY <1>1 DEF AuditInv, LastOK, RunOK
<1> HIDE DEF r
<1>4. CASE Concludes(e)
  <2>1. Counted'
    BY <1>1, <1>4 DEF Counted, WorstScore, Loops
  <2> QED BY <1>1, <1>2, <1>3, <2>1, CountsScore
<1>5. CASE ~Concludes(e) /\ e \in Requests
  BY <1>1, <1>2, <1>3, <1>5, AfterPhase, AwaitsScore
<1>6. CASE e \notin Requests
  <2>1. score' = score
    BY <1>1, <1>6 DEF Concludes
  <2> QED BY <1>1, <1>2, <1>3, <1>6, <2>1, KeepsScore
<1> QED BY <1>4, <1>5, <1>6

LEMMA PersistStep ==
  ASSUME AuditInv, NEW e \in Executions, Persist(e) PROVE AuditInv'
<1> DEFINE r == [run[e] EXCEPT !.phase = IF running THEN "sleep" ELSE "ended"]
<1>1. run' = [run EXCEPT ![e] = r]
  BY DEF Persist, Phase
<1>2. r \in RunTypes
  BY DEF AuditInv, RunOK, RunTypes, Phases
<1>3. /\ score' = WorstScore(last') /\ last' \in [Loops -> Shown] /\ checks' = checks
      /\ UNCHANGED <<token, bot>>
  BY DEF Persist, AuditInv, LastOK
<1>4. Counted'
  BY <1>3 DEF Counted, WorstScore, Loops, Persist
<1> HIDE DEF r
<1> QED BY <1>1, <1>2, <1>3, <1>4, CountsScore

(* The steps that neither store a result nor count one.                     *)
LEMMA OtherSteps ==
  ASSUME AuditInv, NEW e \in Executions,
         Begin(e) \/ LoggedIn(e) \/ LoginFails(e) \/ AskBot(e) \/ Wake(e) \/ RunAllNow(e)
  PROVE  AuditInv'
<1>1. /\ run[e] \in RunTypes /\ run \in [Executions -> RunTypes]
      /\ token \in [of : Int, young : BOOLEAN] /\ bot \in Int
  BY DEF AuditInv, RunOK
<1>2. UNCHANGED <<checks, last, score, bot>>
  BY DEF Begin, LoggedIn, LoginFails, AskBot, Wake, RunAllNow
<1>3. token' \in [of : Int, young : BOOLEAN]
  <2>1. CASE LoggedIn(e)
    BY <1>1, <2>1 DEF LoggedIn
  <2>2. CASE ~LoggedIn(e)
    BY <1>1, <2>2 DEF Begin, LoginFails, AskBot, Wake, RunAllNow
  <2> QED BY <2>1, <2>2
<1>4. run[e].phase # "persist" /\ (e \in Requests => run'[e].phase # "idle")
      /\ run'[e] \in RunTypes /\ run' = [run EXCEPT ![e] = run'[e]]
  <2>1. CASE Begin(e)
    BY <1>1, <2>1 DEF Begin, RunTypes, Phases
  <2>2. CASE LoggedIn(e)
    BY <1>1, <2>2 DEF LoggedIn, RunTypes, Phases
  <2>3. CASE LoginFails(e)
    BY <1>1, <2>3 DEF LoginFails, RunTypes, Phases
  <2>4. CASE AskBot(e)
    <3>1. PICK reply \in BotReplies \cup {Unreachable} :
             run' = [run EXCEPT ![e] = [phase |-> "query", at |-> run[e].at,
                                        reply |-> reply, of |-> -1]]
      BY <2>4 DEF AskBot
    <3>2. [phase |-> "query", at |-> run[e].at, reply |-> reply, of |-> -1] \in RunTypes
      BY <1>1 DEF RunTypes, Phases
    <3>3. run[e].phase = "ask"
      BY <2>4 DEF AskBot
    <3> QED BY <1>1, <3>1, <3>2, <3>3
  <2>5. CASE Wake(e)
    BY <1>1, <2>5 DEF Wake, Phase, RunTypes, Phases
  <2>6. CASE RunAllNow(e)
    BY <1>1, <2>6 DEF RunAllNow, Phase, RunTypes, Phases
  <2> QED BY <2>1, <2>2, <2>3, <2>4, <2>5, <2>6
<1> QED BY <1>1, <1>2, <1>3, <1>4, KeepsScore

LEMMA AuditStep == AuditInv /\ [AuditNext]_auditVars => AuditInv'
<1> SUFFICES ASSUME AuditInv, [AuditNext]_auditVars PROVE AuditInv'
  OBVIOUS
<1>1. ASSUME NEW e \in Executions, Step(e) \/ RunAllNow(e) PROVE AuditInv'
  BY <1>1, QueryStep, QueryFailsStep, PersistStep, OtherSteps DEF Step
<1>2. CASE Stop \/ TokenAges \/ BotRefuses \/ UNCHANGED auditVars
  <2>1. UNCHANGED <<checks, run, last, score>>
    BY <1>2 DEF Stop, TokenAges, BotRefuses, auditVars
  <2>2. token' \in [of : Int, young : BOOLEAN] /\ bot' \in Int
    <3>1. token \in [of : Int, young : BOOLEAN] /\ bot \in Int
      BY DEF AuditInv, RunOK
    <3>2. CASE TokenAges
      BY <3>1, <3>2 DEF TokenAges
    <3>3. CASE BotRefuses
      BY <3>1, <3>3 DEF BotRefuses
    <3>4. CASE UNCHANGED <<token, bot>>
      BY <3>1, <3>4
    <3> QED BY <1>2, <3>2, <3>3, <3>4 DEF Stop, auditVars
  <2>3. Loops' = Loops /\ Executions' = Executions /\ RunTypes' = RunTypes
        /\ (Settled' <=> Settled) /\ WorstScore(last)' = WorstScore(last)
    BY <2>1 DEF Loops, Executions, RunTypes, Settled, WorstScore
  <2> QED BY <2>1, <2>2, <2>3 DEF AuditInv, ChecksOK, RunOK, LastOK, ScoreOK, Counted
<1> QED BY <1>1, <1>2 DEF AuditNext

LEMMA ScoreFollows == AuditInv => ScoreIsWorst
<1> SUFFICES ASSUME AuditInv, Settled
             PROVE  /\ \A c \in Loops : last[c] # NoResult =>
                         last[c].status = IF Failed(c) THEN "ERROR"
                                          ELSE IF Warned(c) THEN "WARNING" ELSE "OK"
                    /\ score = IF \E c \in Loops : Failed(c) THEN 40
                               ELSE IF \E c \in Loops : Warned(c) THEN 75 ELSE 100
  BY DEF ScoreIsWorst
<1> DEFINE A == {last[c].score : c \in Loops}
<1>1. ASSUME NEW c \in Loops
      PROVE  /\ last[c].score = IF Failed(c) THEN 40 ELSE IF Warned(c) THEN 75 ELSE 100
             /\ last[c] # NoResult =>
                  last[c].status = IF Failed(c) THEN "ERROR"
                                   ELSE IF Warned(c) THEN "WARNING" ELSE "OK"
  <2>1. last[c] \in Shown
    BY DEF AuditInv, LastOK
  <2>2. Severities(c) = SeveritiesOf(last[c].findings)
    BY DEF Severities, SeveritiesOf
  <2> QED BY <2>1, <2>2, ShownScore DEF Failed, Warned, ScoreFor, StatusFor
<1>2. score = Min(A)
  BY DEF AuditInv, ScoreOK, Counted, WorstScore
<1>3. A \in SUBSET Int /\ \A a \in A : 40 <= a
  BY <1>1
<1>4. CASE \E c \in Loops : Failed(c)
  <2>1. 40 \in A
    BY <1>1, <1>4
  <2> HIDE DEF A
  <2> QED BY <1>1, <1>2, <1>3, <1>4, <2>1, MinIs
<1>5. CASE (\A c \in Loops : ~Failed(c)) /\ \E c \in Loops : Warned(c)
  <2>1. 75 \in A /\ \A a \in A : 75 <= a
    BY <1>1, <1>5
  <2> HIDE DEF A
  <2> QED BY <1>1, <1>2, <1>3, <1>5, <2>1, MinIs
<1>6. CASE (\A c \in Loops : ~Failed(c)) /\ (\A c \in Loops : ~Warned(c))
  <2>1. 100 \in A /\ \A a \in A : 100 <= a
    BY <1>1, <1>6, LoopsNotEmpty DEF AuditInv
  <2> HIDE DEF A
  <2> QED BY <1>1, <1>2, <1>3, <1>6, <2>1, MinIs
<1> QED BY <1>1, <1>4, <1>5, <1>6

(* Whatever checks run in whatever order, from their loops and from any     *)
(* number of requests, and whatever they find: once nothing waits to be     *)
(* counted the global score is that of the worst finding there is, and a    *)
(* check's status is that of its own (AuditRunner._update_global_score,     *)
(* run_all_now, CheckResult.add_finding).                                   *)
THEOREM GlobalScoreIsWorst == AuditSpec => []ScoreIsWorst
<1> QED BY AuditStarts, AuditStep, ScoreFollows, PTL DEF AuditSpec

-----------------------------------------------------------------------------
(* The validation of configurations: what compute returns has its types.    *)

(* The largest number of a set.                                             *)
LEMMA MaxType ==
  ASSUME NEW A, NEW m \in A, \A x \in A : m >= x PROVE Max(A) \in A
BY DEF Max

(* Profits by trade, over a finite set of trades.                           *)
ProfitsOver(p, D) == IsFiniteSet(D) /\ p \in [D -> Int]

LEMMA DrawdownType ==
  ASSUME NEW D, D # {}, NEW p, ProfitsOver(p, D), D \subseteq Int PROVE MaxDrawdown(p) \in Int
<1> DEFINE Fall(i, j) == -SumFunctionOnSet(p, {k \in DOMAIN p : i < k /\ k <= j})
           A == {Fall(i, j) : i, j \in DOMAIN p}
<1>1. DOMAIN p = D /\ IsFiniteSet(D) /\ \A k \in D : p[k] \in Int
  BY DEF ProfitsOver
<1>2. ASSUME NEW i \in D, NEW j \in D PROVE Fall(i, j) \in Int
  <2> DEFINE S == {k \in DOMAIN p : i < k /\ k <= j}
  <2>1. IsFiniteSet(S) /\ \A k \in S : p[k] \in Int
    BY <1>1, FS_Subset
  <2> HIDE DEF S
  <2>2. SumFunctionOnSet(p, S) \in Int
    BY <2>1, SumType
  <2> QED BY <2>2 DEF S
<1> DEFINE row == [i \in D |-> [j \in D |-> Fall(i, j)]]
           top == [i \in D |-> CHOOSE m \in D : \A x \in D : row[i][x] <= row[i][m]]
           most == [i \in D |-> row[i][top[i]]]
<1>3. \A i, j \in D : row[i][j] = Fall(i, j) /\ row[i][j] \in Int
  <2> HIDE DEF Fall
  <2> QED BY <1>2
<1>4. ASSUME NEW i \in D PROVE top[i] \in D /\ \A x \in D : row[i][x] <= row[i][top[i]]
  <2> DEFINE f == row[i]
  <2>1. \A x \in D : f[x] \in Int
    BY <1>3
  <2>2. top[i] = CHOOSE m \in D : \A x \in D : f[x] <= f[m]
    OBVIOUS
  <2> HIDE DEF f, row, top
  <2>3. \E m \in D : \A x \in D : f[x] <= f[m]
    BY <1>1, <2>1, LargestValue
  <2>4. top[i] \in D /\ \A x \in D : f[x] <= f[top[i]]
    BY <2>2, <2>3
  <2> QED BY <2>4 DEF f
<1> HIDE DEF top, row, Fall
<1>5. \A i \in D : most[i] = row[i][top[i]] /\ most[i] \in Int
  BY <1>3, <1>4
<1> HIDE DEF most
<1>6. PICK m \in D : \A x \in D : most[x] <= most[m]
  BY <1>1, <1>5, LargestValue
<1>7. \A i, j \in D : row[i][j] <= row[m][top[m]]
  <2> SUFFICES ASSUME NEW i \in D, NEW j \in D PROVE row[i][j] <= row[m][top[m]]
    OBVIOUS
  <2>1. row[i][j] <= most[i] /\ most[i] <= most[m] /\ most[m] = row[m][top[m]]
    BY <1>4, <1>5, <1>6
  <2>2. row[i][j] \in Int /\ most[i] \in Int /\ most[m] \in Int
    BY <1>3, <1>5
  <2> QED BY <2>1, <2>2
<1>8. (\A i, j \in D : row[i][j] \in A) /\ \A x \in A : \E i, j \in D : x = row[i][j]
  <2>1. ASSUME NEW i \in D, NEW j \in D PROVE row[i][j] \in A
    BY <1>1, <1>3
  <2>2. ASSUME NEW x \in A PROVE \E i, j \in D : x = row[i][j]
    <3>1. PICK i, j \in D : x = Fall(i, j)
      BY <1>1
    <3> QED BY <1>3, <3>1
  <2> QED BY <2>1, <2>2
<1> HIDE DEF A
<1>9. row[m][top[m]] \in A
  BY <1>4, <1>8
<1>10. \A x \in A : x \in Int /\ row[m][top[m]] >= x
  <2> SUFFICES ASSUME NEW x \in A PROVE x \in Int /\ row[m][top[m]] >= x
    OBVIOUS
  <2>1. PICK i, j \in D : x = row[i][j]
    BY <1>8
  <2>2. row[i][j] \in Int /\ row[m][top[m]] \in Int /\ row[i][j] <= row[m][top[m]]
    BY <1>3, <1>4, <1>7
  <2> QED BY <2>1, <2>2
<1>11. Max(A) \in Int
  BY <1>9, <1>10, MaxType
<1> QED BY <1>11 DEF MaxDrawdown, A, Fall

Outcomes == [trades : Nat, expectancy : Int, pf : Int \cup {None}, winrate : Int,
             net : Int, dd : Int]

LEMMA RoundedType == ASSUME NEW a \in Int, NEW b \in Nat \ {0} PROVE Rounded(a, b) \in Int
BY DEF Rounded

LEMMA MagnitudeIs == ASSUME NEW a \in Int PROVE Magnitude(a) \in Nat /\ (Magnitude(a) = a \/ Magnitude(a) = -a)
BY DEF Magnitude

LEMMA SumOver ==
  ASSUME NEW D, NEW p, ProfitsOver(p, D)
  PROVE  /\ SumFunction(p) \in Int
         /\ \A S \in SUBSET D : SumFunctionOnSet(p, S) \in Int
<1>1. DOMAIN p = D /\ \A k \in D : p[k] \in Int
  BY DEF ProfitsOver
<1>2. ASSUME NEW S \in SUBSET D PROVE SumFunctionOnSet(p, S) \in Int
  <2>1. IsFiniteSet(S) /\ \A k \in S : p[k] \in Int
    BY <1>1, FS_Subset DEF ProfitsOver
  <2> QED BY <2>1, SumType
<1>3. SumFunction(p) = SumFunctionOnSet(p, D)
  BY <1>1 DEF SumFunction
<1> QED BY <1>2, <1>3

LEMMA ComputeType ==
  ASSUME NEW D, D \subseteq Int, NEW p, ProfitsOver(p, D)
  PROVE  compute(p) \in Outcomes /\ compute(p).trades = Cardinality(D)
<1> DEFINE n == Cardinality(D)
<1>1. DOMAIN p = D /\ IsFiniteSet(D) /\ n \in Nat
  BY FS_CardinalityType DEF ProfitsOver
<1>2. CASE n = 0
  BY <1>1, <1>2 DEF compute, Outcomes
<1>3. CASE n # 0
  <2>1. D # {}
    BY <1>1, <1>3, FS_EmptySet
  <2>2. MaxDrawdown(p) \in Int
    BY <2>1, DrawdownType
  <2>3. SumFunction(p) \in Int
    BY SumOver
  <2>4. ProfitFactor(p) \in Int \cup {None}
    <3> DEFINE lost == SumFunctionOnSet(p, Losses(p))
               gained == SumFunctionOnSet(p, Gains(p))
    <3>1. lost \in Int /\ gained \in Int
      BY <1>1, SumOver DEF Losses, Gains
    <3>2. ProfitFactor(p) = IF Magnitude(lost) > 0 THEN Rounded(10000 * gained, Magnitude(lost)) ELSE None
      BY DEF ProfitFactor
    <3> HIDE DEF lost, gained
    <3>3. Magnitude(lost) > 0 => Rounded(10000 * gained, Magnitude(lost)) \in Int
      BY <3>1, MagnitudeIs, RoundedType
    <3> QED BY <3>2, <3>3
  <2>5. Cardinality(Gains(p)) \in Nat
    <3>1. IsFiniteSet(Gains(p))
      BY <1>1, FS_Subset DEF Gains
    <3> QED BY <3>1, FS_CardinalityType
  <2>6. Rounded(10 * SumFunction(p), n) \in Int /\ Rounded(10000 * Cardinality(Gains(p)), n) \in Int
    <3> HIDE DEF n
    <3> QED BY <1>1, <1>3, <2>3, <2>5, RoundedType
  <2>7. compute(p) = [trades |-> n, expectancy |-> Rounded(10 * SumFunction(p), n),
                      pf |-> ProfitFactor(p),
                      winrate |-> Rounded(10000 * Cardinality(Gains(p)), n),
                      net |-> 10 * SumFunction(p), dd |-> 10 * MaxDrawdown(p)]
    BY <1>1, <1>3 DEF compute
  <2> HIDE DEF n
  <2> QED BY <1>1, <2>2, <2>3, <2>4, <2>6, <2>7 DEF Outcomes, n
<1> QED BY <1>2, <1>3

-----------------------------------------------------------------------------
(* The batches: every configuration is one, the threshold on the score      *)
(* rises along its batch and so does the one on the ratio from the second   *)
(* configuration of its own.                                                *)

ConfigTypes == [scoreMin : Int, microMin : Int, sl : Int, tp : Int, partial : Int,
                ratioMax : Int \cup {None}]
Sizes == <<5, 4, 4, 5>>

LEMMA ConfigsAre ==
  /\ \A i \in 1..5 : ScoreConfigs[i] \in ConfigTypes /\ RatioConfigs[i] \in ConfigTypes
  /\ \A i \in 1..4 : TrailingConfigs[i] \in ConfigTypes /\ SlConfigs[i] \in ConfigTypes
  /\ DOMAIN ScoreConfigs = 1..5 /\ DOMAIN RatioConfigs = 1..5
  /\ DOMAIN TrailingConfigs = 1..4 /\ DOMAIN SlConfigs = 1..4
<1>1. \A i \in 1..5 : ScoreConfigs[i] \in ConfigTypes
  BY DEF ScoreConfigs, Default, ConfigTypes
<1>2. \A i \in 1..5 : RatioConfigs[i] \in ConfigTypes
  BY DEF RatioConfigs, Default, ConfigTypes
<1>3. \A i \in 1..4 : TrailingConfigs[i] \in ConfigTypes
  BY DEF TrailingConfigs, Default, ConfigTypes
<1>4. \A i \in 1..4 : SlConfigs[i] \in ConfigTypes
  <2> SUFFICES ASSUME NEW i \in 1..4 PROVE SlConfigs[i] \in ConfigTypes
    OBVIOUS
  <2>1. /\ <<40, 50, 60, 55>>[i] \in Int /\ <<45, 45, 45, 60>>[i] \in Int
    OBVIOUS
  <2>2. SlConfigs[i] = [scoreMin |-> 55, microMin |-> 35, sl |-> <<40, 50, 60, 55>>[i],
                        tp |-> <<45, 45, 45, 60>>[i], partial |-> 30, ratioMax |-> None]
    BY DEF SlConfigs, Default
  <2> QED BY <2>1, <2>2 DEF ConfigTypes
<1>5. DOMAIN ScoreConfigs = 1..5 /\ DOMAIN RatioConfigs = 1..5
      /\ DOMAIN TrailingConfigs = 1..4 /\ DOMAIN SlConfigs = 1..4
  BY DEF ScoreConfigs, RatioConfigs, TrailingConfigs, SlConfigs
<1> QED BY <1>1, <1>2, <1>3, <1>4, <1>5

LEMMA ConfigOf ==
  ASSUME NEW k \in 1..4
  PROVE  LET list == Configs(Batches[k]) IN
         /\ list \in Seq(ConfigTypes)
         /\ Batches[k] = "score_threshold" => list = ScoreConfigs /\ Len(list) = 5
         /\ Batches[k] = "ratio_filter" => list = RatioConfigs /\ Len(list) = 5
<1>1. /\ Batches[1] = "score_threshold" /\ Batches[2] = "trailing_optimization"
      /\ Batches[3] = "sl_fees" /\ Batches[4] = "ratio_filter"
  BY DEF Batches
<1>2. /\ Configs("score_threshold") = ScoreConfigs /\ Configs("sl_fees") = SlConfigs
      /\ Configs("trailing_optimization") = TrailingConfigs
      /\ Configs("ratio_filter") = RatioConfigs
  BY DEF Configs
<1>3. /\ ScoreConfigs \in Seq(ConfigTypes) /\ Len(ScoreConfigs) = 5
      /\ RatioConfigs \in Seq(ConfigTypes) /\ Len(RatioConfigs) = 5
  BY ConfigsAre, SeqDef DEF ScoreConfigs, RatioConfigs
<1>4. TrailingConfigs \in Seq(ConfigTypes) /\ SlConfigs \in Seq(ConfigTypes)
  BY ConfigsAre, SeqDef DEF TrailingConfigs, SlConfigs
<1>5. CASE k = 1
  BY <1>1, <1>2, <1>3, <1>5
<1>6. CASE k = 2
  BY <1>1, <1>2, <1>4, <1>6
<1>7. CASE k = 3
  BY <1>1, <1>2, <1>4, <1>7
<1>8. CASE k = 4
  BY <1>1, <1>2, <1>3, <1>8
<1> QED BY <1>5, <1>6, <1>7, <1>8

LEMMA ConfigIs ==
  ASSUME batch \in 1..4
  PROVE  /\ Config \in Seq(ConfigTypes)
         /\ Batches[batch] = "score_threshold" => Config = ScoreConfigs /\ Len(Config) = 5
         /\ Batches[batch] = "ratio_filter" => Config = RatioConfigs /\ Len(Config) = 5
BY ConfigOf DEF Config

LEMMA ScoreRises ==
  ASSUME NEW i \in 1..5, NEW j \in 1..5, i < j
  PROVE  /\ ScoreConfigs[i].scoreMin <= ScoreConfigs[j].scoreMin
         /\ ScoreConfigs[i].microMin = ScoreConfigs[j].microMin
         /\ ScoreConfigs[i].ratioMax = ScoreConfigs[j].ratioMax
BY DEF ScoreConfigs, Default

LEMMA RatioRises ==
  ASSUME NEW i \in 1..5, NEW j \in 1..5, i < j
  PROVE  /\ RatioConfigs[i].scoreMin = RatioConfigs[j].scoreMin
         /\ RatioConfigs[i].microMin = RatioConfigs[j].microMin
         /\ i = 1 => RatioConfigs[i].ratioMax = None
         /\ i > 1 => /\ RatioConfigs[i].ratioMax \in Int /\ RatioConfigs[j].ratioMax \in Int
                     /\ RatioConfigs[i].ratioMax <= RatioConfigs[j].ratioMax
BY DEF RatioConfigs, Default

LEMMA SimulatedType ==
  ASSUME NEW t \in Trades, NEW c \in ConfigTypes PROVE Simulated(t, c) \in Int
<1>1. /\ t.mfe \in Int /\ t.fee \in Int /\ t.pnl \in Int
      /\ c.sl \in Int /\ c.tp \in Int /\ c.partial \in Int
  BY DEF Trades, ConfigTypes
<1>2. 30 * c.tp * c.partial \in Int /\ 18 * t.mfe * (100 - c.partial) \in Int
  BY <1>1
<1>3. (30 * c.tp * c.partial + 18 * t.mfe * (100 - c.partial)) \div 100 \in Int
  BY <1>2
<1> QED BY <1>1, <1>3 DEF Simulated

LEMMA ExperimentType ==
  ASSUME trades \in Seq(Trades), NEW c \in ConfigTypes
  PROVE  /\ Experiment(c) \in Outcomes /\ IsFiniteSet(Accepted(c))
         /\ Experiment(c).trades = Cardinality(Accepted(c))
<1> DEFINE p == [i \in Accepted(c) |-> Simulated(trades[i], c)]
<1>1. DOMAIN trades = 1..Len(trades) /\ Len(trades) \in Nat
  OBVIOUS
<1>2. Accepted(c) \subseteq 1..Len(trades) /\ IsFiniteSet(Accepted(c)) /\ Accepted(c) \subseteq Int
  <2>1. Accepted(c) \in SUBSET (1..Len(trades)) /\ IsFiniteSet(1..Len(trades))
    BY <1>1, FS_Interval DEF Accepted
  <2> QED BY <2>1, FS_Subset
<1>3. p \in [Accepted(c) -> Int]
  <2>1. ASSUME NEW i \in Accepted(c) PROVE Simulated(trades[i], c) \in Int
    BY <1>1, <1>2, SimulatedType
  <2> QED BY <2>1
<1> HIDE DEF p
<1>4. compute(p) \in Outcomes /\ compute(p).trades = Cardinality(Accepted(c))
  BY <1>2, <1>3, ComputeType DEF ProfitsOver
<1> QED BY <1>2, <1>4 DEF Experiment, p

LEMMA BaselineType == ASSUME trades \in Seq(Trades) PROVE Baseline \in Outcomes
<1> DEFINE p == [i \in DOMAIN trades |-> trades[i].pnl]
           D == 1..Len(trades)
<1>1. IsFiniteSet(D) /\ D \subseteq Int /\ DOMAIN trades = D
  BY FS_Interval
<1>2. p \in [D -> Int]
  <2>1. ASSUME NEW i \in D PROVE trades[i].pnl \in Int
    <3>1. trades[i] \in Trades
      BY <1>1
    <3> QED BY <3>1 DEF Trades
  <2> QED BY <1>1, <2>1
<1> HIDE DEF p, D
<1>3. compute(p) \in Outcomes
  BY <1>1, <1>2, ComputeType DEF ProfitsOver
<1> QED BY <1>3 DEF Baseline, p

(* A stricter configuration accepts no more trades.                         *)
LEMMA Stricter ==
  ASSUME trades \in Seq(Trades), NEW c \in ConfigTypes, NEW d \in ConfigTypes,
         \A t \in Trades : WouldAccept(t, d) => WouldAccept(t, c)
  PROVE  Experiment(d).trades <= Experiment(c).trades
<1>1. Accepted(d) \in SUBSET Accepted(c)
  BY DEF Accepted
<1> QED BY <1>1, ExperimentType, FS_Subset

-----------------------------------------------------------------------------
(* The validation: the results so far are those of the batch's own          *)
(* configurations on the trades it was given, none of them without a profit *)
(* factor, and best is the first of the admissible ones that no admissible  *)
(* one exceeds.                                                             *)

Plan == [i \in DOMAIN Config |-> Experiment(Config[i])]
Verdicts == {"BLOCKED_BY_DATA_QUALITY", "INCONCLUSIVE", "TEST_LIVE", "REJECT", "ADOPT"}

SampleOK == trades \in Seq(Trades) /\ batch \in 1..4 /\ report \in Seq(Verdicts)
ResultsOK == /\ results \in Seq(Outcomes) /\ Len(results) <= Len(Config)
             /\ \A i \in 1..Len(results) : results[i] = Plan[i] /\ results[i].pf # None
BestOK ==
    /\ best \in 0..Len(results)
    /\ best = 0 => \A i \in 1..Len(results) : ~Admissible(results[i])
    /\ best # 0 =>
         /\ Admissible(results[best])
         /\ \A i \in 1..Len(results) : Admissible(results[i]) =>
               /\ results[i].expectancy <= results[best].expectancy
               /\ i < best => results[i].expectancy < results[best].expectancy
ValidationInv == SampleOK /\ ResultsOK /\ BestOK

LEMMA PlanIs ==
  ASSUME SampleOK
  PROVE  /\ DOMAIN Plan = 1..Len(Config) /\ Len(Config) \in Nat
         /\ \A i \in 1..Len(Config) :
               /\ Plan[i] = Experiment(Config[i]) /\ Plan[i] \in Outcomes
               /\ Plan[i].trades = Cardinality(Accepted(Config[i]))
<1>1. Config \in Seq(ConfigTypes)
  BY ConfigIs DEF SampleOK
<1>2. DOMAIN Config = 1..Len(Config) /\ Len(Config) \in Nat
      /\ \A i \in 1..Len(Config) : Config[i] \in ConfigTypes
  BY <1>1
<1> QED BY <1>2, ExperimentType DEF SampleOK, Plan

LEMMA ValidationStarts == ValidationInit => ValidationInv
<1> SUFFICES ASSUME ValidationInit PROVE ValidationInv
  OBVIOUS
<1>1. SampleOK
  BY ValidationAssumption DEF ValidationInit, SampleOK
<1>2. results = <<>> /\ Len(results) = 0 /\ best = 0
  BY DEF ValidationInit
<1>3. ResultsOK
  BY <1>1, <1>2, PlanIs DEF ResultsOK
<1>4. BestOK
  BY <1>2 DEF BestOK
<1> QED BY <1>1, <1>3, <1>4 DEF ValidationInv

LEMMA SamePlan ==
  ASSUME trades' = trades, batch' = batch
  PROVE  /\ Plan' = Plan /\ Config' = Config /\ Baseline' = Baseline
         /\ \A e : Admissible(e)' <=> Admissible(e)
<1>1. Config' = Config
  BY DEF Config
<1>2. Baseline' = Baseline
  BY DEF Baseline
<1>3. Plan' = Plan
  BY <1>1 DEF Plan, Experiment, Accepted
<1>4. \A e : Admissible(e)' <=> Admissible(e)
  BY <1>2 DEF Admissible, Valid, DdOk
<1> QED BY <1>1, <1>2, <1>3, <1>4

LEMMA ExperimentStep ==
  ASSUME ValidationInv, RunExperiment PROVE ValidationInv'
<1> DEFINE n == Len(results)
           e == Experiment(Config[n + 1])
<1>1. Plan' = Plan /\ Config' = Config /\ Baseline' = Baseline
      /\ \A x : Admissible(x)' <=> Admissible(x)
  BY SamePlan DEF RunExperiment
<1>2. SampleOK'
  BY DEF ValidationInv, SampleOK, RunExperiment
<1>3. n \in Nat /\ n < Len(Config) /\ Len(Config) \in Nat
      /\ DOMAIN results = 1..n /\ results \in Seq(Outcomes)
  BY PlanIs DEF ValidationInv, ResultsOK, RunExperiment
<1>4. CASE RaisesTypeError(e)
  <2>1. UNCHANGED <<results, best>>
    BY <1>4 DEF RunExperiment
  <2> QED BY <1>1, <1>2, <2>1 DEF ValidationInv, ResultsOK, BestOK
<1>5. CASE ~RaisesTypeError(e)
  <2>1. results' = Append(results, e)
        /\ best' = IF Admissible(e) /\ Better(e) THEN Len(results') ELSE best
    BY <1>5 DEF RunExperiment, Admissible
  <2>2. e = Plan[n + 1] /\ e \in Outcomes /\ e.pf # None
        /\ e.expectancy \in Int
    <3>1. n + 1 \in 1..Len(Config)
      BY <1>3
    <3>2. e = Plan[n + 1] /\ e \in Outcomes
      BY <3>1, PlanIs DEF ValidationInv
    <3> HIDE DEF e, n
    <3> QED BY <1>5, <3>2 DEF RaisesTypeError, Outcomes
  <2> HIDE DEF e
  <2>3. /\ results' \in Seq(Outcomes) /\ Len(results') = n + 1 /\ results'[n + 1] = e
        /\ \A i \in 1..n : results'[i] = results[i]
    BY <1>3, <2>1, <2>2
  <2>4. \A i \in 1..n + 1 : i \in 1..n \/ i = n + 1
    BY <1>3
  <2>5. \A i \in 1..n : results[i].expectancy \in Int
    <3>1. \A i \in 1..n : results[i] \in Outcomes
      BY <1>3
    <3> HIDE DEF n
    <3> QED BY <3>1 DEF Outcomes
  <2>6. best \in 0..n
    BY DEF ValidationInv, BestOK
  <2> HIDE DEF n
  <2>7. ResultsOK'
    <3>1. \A i \in 1..n : results[i] = Plan[i] /\ results[i].pf # None
      BY DEF ValidationInv, ResultsOK, n
    <3>2. \A i \in 1..Len(results') : results'[i] = Plan'[i] /\ results'[i].pf # None
      BY <1>1, <2>2, <2>3, <2>4, <3>1
    <3>3. Len(results') <= Len(Config')
      BY <1>1, <1>3, <2>3
    <3> QED BY <2>3, <3>2, <3>3 DEF ResultsOK
  <2>8. BestOK'
    <3>1. /\ best = 0 => \A i \in 1..n : ~Admissible(results[i])
          /\ best # 0 =>
               /\ Admissible(results[best])
               /\ \A i \in 1..n : Admissible(results[i]) =>
                     /\ results[i].expectancy <= results[best].expectancy
                     /\ i < best => results[i].expectancy < results[best].expectancy
      BY DEF ValidationInv, BestOK, n
    <3>2. CASE Admissible(e) /\ Better(e)
      <4>1. best' = n + 1 /\ best' \in 0..Len(results') /\ best' # 0 /\ results'[best'] = e
        BY <1>3, <2>1, <2>3, <3>2
      <4>2. ASSUME NEW i \in 1..n, Admissible(results[i])
            PROVE  results[i].expectancy < e.expectancy
        <5>1. best # 0 /\ results[i].expectancy <= results[best].expectancy
          BY <3>1, <4>2
        <5>2. results[best].expectancy < e.expectancy /\ results[best].expectancy \in Int
          BY <2>5, <2>6, <3>2, <5>1 DEF Better
        <5> QED BY <2>2, <2>5, <5>1, <5>2
      <4>3. \A i \in 1..Len(results') : Admissible(results'[i]) =>
               /\ results'[i].expectancy <= results'[best'].expectancy
               /\ i < best' => results'[i].expectancy < results'[best'].expectancy
        <5> SUFFICES ASSUME NEW i \in 1..n + 1, Admissible(results'[i])
                     PROVE  /\ results'[i].expectancy <= e.expectancy
                            /\ i < n + 1 => results'[i].expectancy < e.expectancy
          BY <2>3, <4>1
        <5>1. CASE i \in 1..n
          <6>1. results[i].expectancy < e.expectancy
            BY <2>3, <4>2, <5>1
          <6> QED BY <2>2, <2>3, <2>5, <5>1, <6>1
        <5>2. CASE i = n + 1
          BY <1>3, <2>2, <2>3, <5>2
        <5> QED BY <2>4, <5>1, <5>2
      <4> QED BY <1>1, <2>2, <3>2, <4>1, <4>3 DEF BestOK
    <3>3. CASE ~(Admissible(e) /\ Better(e))
      <4>1. best' = best /\ best' \in 0..Len(results')
        BY <1>3, <2>1, <2>3, <2>6, <3>3
      <4>2. CASE best = 0
        <5>1. ~Admissible(e)
          BY <3>3, <4>2 DEF Better
        <5>2. \A i \in 1..Len(results') : ~Admissible(results'[i])
          BY <2>3, <2>4, <3>1, <4>2, <5>1
        <5> QED BY <1>1, <4>1, <4>2, <5>2 DEF BestOK
      <4>3. CASE best # 0
        <5>1. best \in 1..n /\ results'[best] = results[best] /\ results[best].expectancy \in Int
          BY <1>3, <2>3, <2>5, <2>6, <4>3
        <5>2. Admissible(e) => e.expectancy <= results[best].expectancy
          BY <2>2, <3>3, <4>3, <5>1 DEF Better
        <5>3. ASSUME NEW i \in 1..n + 1, Admissible(results'[i])
              PROVE  /\ results'[i].expectancy <= results[best].expectancy
                     /\ i < best => results'[i].expectancy < results[best].expectancy
          <6>1. CASE i \in 1..n
            BY <2>3, <3>1, <4>3, <5>3, <6>1
          <6>2. CASE i = n + 1
            <7>1. ~(i < best)
              BY <1>3, <5>1, <6>2
            <7> QED BY <2>3, <5>2, <5>3, <6>2, <7>1
          <6> QED BY <2>4, <6>1, <6>2
        <5> QED BY <1>1, <2>2, <2>3, <3>1, <4>1, <4>3, <5>1, <5>3 DEF BestOK
      <4> QED BY <4>2, <4>3
    <3> QED BY <3>2, <3>3
  <2> QED BY <1>2, <2>7, <2>8 DEF ValidationInv
<1> QED BY <1>4, <1>5

LEMMA VerdictType == Verdict \in Verdicts
BY DEF Verdict, VerdictOf, Verdicts

LEMMA EndBatchStep ==
  ASSUME ValidationInv, EndBatch PROVE ValidationInv'
<1>1. trades' = trades /\ report' \in Seq(Verdicts)
  BY VerdictType DEF EndBatch, ValidationInv, SampleOK
<1>2. CASE batch = Len(Batches)
  <2>1. UNCHANGED <<batch, results, best>>
    BY <1>2 DEF EndBatch
  <2> QED BY <1>1, <2>1, SamePlan DEF ValidationInv, SampleOK, ResultsOK, BestOK
<1>3. CASE batch # Len(Batches)
  <2>1. batch' = batch + 1 /\ results' = <<>> /\ best' = 0
    BY <1>3 DEF EndBatch, NoResults
  <2>2. Len(Batches) = 4
    BY DEF Batches
  <2>3. SampleOK'
    BY <1>1, <1>3, <2>1, <2>2 DEF ValidationInv, SampleOK
  <2>4. Len(Config') \in Nat
    <3>1. batch' \in 1..4
      BY <2>3 DEF SampleOK
    <3>2. Configs(Batches[batch']) \in Seq(ConfigTypes)
      BY <3>1, ConfigOf
    <3> QED BY <3>2 DEF Config
  <2>5. ResultsOK' /\ BestOK'
    BY <2>1, <2>4 DEF ResultsOK, BestOK
  <2> QED BY <2>3, <2>5 DEF ValidationInv
<1> QED BY <1>2, <1>3

LEMMA ValidationStep == ValidationInv /\ [ValidationNext]_validationVars => ValidationInv'
<1> SUFFICES ASSUME ValidationInv, [ValidationNext]_validationVars PROVE ValidationInv'
  OBVIOUS
<1>1. CASE UNCHANGED validationVars
  BY <1>1, SamePlan DEF validationVars, ValidationInv, SampleOK, ResultsOK, BestOK
<1> QED BY <1>1, ExperimentStep, EndBatchStep DEF ValidationNext

LEMMA FiltersFollow == ValidationInv => FiltersNest
<1> SUFFICES ASSUME ValidationInv, NEW i \in DOMAIN results, NEW j \in DOMAIN results, i < j
             PROVE  /\ Batches[batch] = "score_threshold" => results[j].trades <= results[i].trades
                    /\ Batches[batch] = "ratio_filter" =>
                         IF i = 1 THEN results[j].trades <= results[i].trades
                                  ELSE results[i].trades <= results[j].trades
  BY DEF FiltersNest
<1> DEFINE c == Config[i]
           d == Config[j]
<1>1. /\ Len(Config) \in Nat /\ i \in 1..Len(Config) /\ j \in 1..Len(Config)
      /\ results[i] = Plan[i] /\ results[j] = Plan[j]
  BY PlanIs DEF ValidationInv, ResultsOK
<1>2. results[i] = Experiment(c) /\ results[j] = Experiment(d)
  BY <1>1, PlanIs DEF ValidationInv
<1>3. Config \in Seq(ConfigTypes) /\ c \in ConfigTypes /\ d \in ConfigTypes
  BY <1>1, ConfigIs DEF ValidationInv, SampleOK
<1>4. trades \in Seq(Trades)
  BY DEF ValidationInv, SampleOK
<1>5. \A t \in Trades : t.score \in Int /\ (t.ratio # None => t.ratio \in Int)
  BY DEF Trades
<1>6. CASE Batches[batch] = "score_threshold"
  <2>1. /\ i \in 1..5 /\ j \in 1..5 /\ c.scoreMin <= d.scoreMin
        /\ c.microMin = d.microMin /\ c.ratioMax = d.ratioMax
    BY <1>1, <1>6, ConfigIs, ScoreRises DEF ValidationInv, SampleOK
  <2>2. c.scoreMin \in Int /\ d.scoreMin \in Int
    BY <1>3 DEF ConfigTypes
  <2> HIDE DEF c, d
  <2>3. \A t \in Trades : WouldAccept(t, d) => WouldAccept(t, c)
    BY <1>5, <2>1, <2>2 DEF WouldAccept, ScorePasses
  <2> QED BY <1>2, <1>3, <1>4, <1>6, <2>3, Stricter
<1>7. CASE Batches[batch] = "ratio_filter"
  <2>1. /\ i \in 1..5 /\ j \in 1..5 /\ c.scoreMin = d.scoreMin /\ c.microMin = d.microMin
        /\ i = 1 => c.ratioMax = None
        /\ i > 1 => c.ratioMax \in Int /\ d.ratioMax \in Int /\ c.ratioMax <= d.ratioMax
    BY <1>1, <1>7, ConfigIs, RatioRises DEF ValidationInv, SampleOK
  <2> HIDE DEF c, d
  <2>2. CASE i = 1
    <3>1. \A t \in Trades : WouldAccept(t, d) => WouldAccept(t, c)
      BY <2>1, <2>2 DEF WouldAccept, ScorePasses
    <3> QED BY <1>2, <1>3, <1>4, <1>7, <2>2, <3>1, Stricter
  <2>3. CASE i # 1
    <3>1. \A t \in Trades : WouldAccept(t, c) => WouldAccept(t, d)
      BY <1>5, <2>1, <2>3, ValidationAssumption DEF WouldAccept, ScorePasses
    <3> QED BY <1>2, <1>3, <1>4, <1>7, <2>3, <3>1, Stricter
  <2> QED BY <2>2, <2>3
<1> QED BY <1>6, <1>7

(* For any trades: a stricter threshold never lets more of them through     *)
(* (configs.get_batches, ExperimentEngine._would_accept).                   *)
THEOREM ThresholdsNest == ValidationSpec => []FiltersNest
<1> QED BY ValidationStarts, ValidationStep, FiltersFollow, PTL DEF ValidationSpec

LEMMA AdoptStep ==
  ASSUME ValidationInv, [ValidationNext]_validationVars, report' # report,
         Last(report') = "ADOPT"
  PROVE  LET a == results[best]
             b == Baseline
         IN  /\ Admissible(a) /\ a.trades >= MinTrades
             /\ \A e \in Range(results) : Admissible(e) => e.expectancy <= a.expectancy
             /\ Admissible(results[1]) => results[1].expectancy < a.expectancy
             /\ 20 * (a.expectancy - b.expectancy) > 3 * Magnitude(b.expectancy)
             /\ b.dd > 0 => 5 * (a.dd - b.dd) < Larger(b.dd, 100)
             /\ a.expectancy < 0 => a.pf >= 8000
<1> DEFINE a == results[best]
           b == Baseline
           n == Len(results)
<1>1. EndBatch
  BY DEF ValidationNext, RunExperiment, validationVars
<1>2. Verdict = "ADOPT"
  <2>1. report' = Append(report, Verdict) /\ report \in Seq(Verdicts) /\ Verdict \in Verdicts
    BY <1>1, VerdictType DEF EndBatch, ValidationInv, SampleOK
  <2>2. report'[Len(report')] = Verdict
    BY <2>1
  <2> QED BY <2>2 DEF Last
<1>3. best \notin {0, 1} /\ VerdictOf(a) = "ADOPT"
  BY <1>2 DEF Verdict
<1>4. /\ ~(a.trades < MinTrades) /\ ~Unhealthy(a)
      /\ ExpChange(a) > 150 /\ DdChange(a) < 200
  <2> HIDE DEF a
  <2> QED BY <1>3 DEF VerdictOf
<1>5. n \in Nat /\ best \in 2..n /\ a \in Outcomes /\ b \in Outcomes /\ a.pf # None
      /\ DOMAIN results = 1..n
  BY <1>3, BaselineType DEF ValidationInv, SampleOK, ResultsOK, BestOK
<1>6. /\ Admissible(a)
      /\ \A i \in 1..n : Admissible(results[i]) =>
            /\ results[i].expectancy <= a.expectancy
            /\ i < best => results[i].expectancy < a.expectancy
  BY <1>3 DEF ValidationInv, BestOK
<1> HIDE DEF a, b, n
<1>7. a.expectancy \in Int /\ a.dd \in Int /\ a.pf \in Int /\ b.expectancy \in Int /\ b.dd \in Int
      /\ a.trades \in Nat
  BY <1>5 DEF Outcomes
<1>8. 20 * (a.expectancy - b.expectancy) > 3 * Magnitude(b.expectancy)
  <2> DEFINE x == a.expectancy - b.expectancy
             m == Magnitude(b.expectancy)
  <2>1. ExpChange(a) = IF b.expectancy = 0 THEN 0 ELSE Rounded(1000 * x, m)
    BY DEF ExpChange, b
  <2>2. b.expectancy # 0 /\ Rounded(1000 * x, m) > 150
    BY <1>4, <2>1
  <2>3. x \in Int /\ m \in Nat /\ m # 0
    BY <1>7, <2>2, MagnitudeIs
  <2> HIDE DEF x, m
  <2>4. (2 * (1000 * x) + m) \div (2 * m) > 150
    BY <2>2 DEF Rounded
  <2>5. 2 * (1000 * x) + m >= 151 * (2 * m)
    BY <2>3, <2>4
  <2>6. 20 * x > 3 * m
    BY <2>3, <2>5
  <2> QED BY <2>6 DEF x, m
<1>9. b.dd > 0 => 5 * (a.dd - b.dd) < Larger(b.dd, 100)
  <2> SUFFICES ASSUME b.dd > 0 PROVE 5 * (a.dd - b.dd) < Larger(b.dd, 100)
    OBVIOUS
  <2> DEFINE x == a.dd - b.dd
             m == Larger(b.dd, 100)
  <2>1. DdChange(a) = Rounded(1000 * x, m)
    BY <1>7 DEF DdChange, b
  <2>2. x \in Int /\ m \in Nat /\ m # 0
    BY <1>7, MaxOf DEF Larger
  <2> HIDE DEF x, m
  <2>3. (2 * (1000 * x) + m) \div (2 * m) < 200
    BY <1>4, <2>1 DEF Rounded
  <2>4. 2 * (1000 * x) + m < 200 * (2 * m)
    BY <2>2, <2>3
  <2>5. 5 * x < m
    BY <2>2, <2>4
  <2> QED BY <2>5 DEF x, m
<1>10. a.expectancy < 0 => a.pf >= 8000
  BY <1>4, <1>7 DEF Unhealthy
<1>11. \A e \in Range(results) : Admissible(e) => e.expectancy <= a.expectancy
  BY <1>5, <1>6 DEF Range
<1>12. Admissible(results[1]) => results[1].expectancy < a.expectancy
  <2>1. 1 \in 1..n /\ 1 < best
    BY <1>5
  <2> QED BY <1>6, <2>1
<1>13. a.trades >= MinTrades
  BY <1>4, <1>7, ValidationAssumption
<1> QED BY <1>6, <1>8, <1>9, <1>10, <1>11, <1>12, <1>13 DEF a, b

(* For any trades: a batch whose verdict is ADOPT has a best experiment     *)
(* that no admissible one exceeds, that is better than the current          *)
(* configuration, gains more than 15% on the trades as they happened, adds  *)
(* at most 20% of drawdown, rests on enough trades and does not lose        *)
(* (runner._run_batch, _generate_verdict).                                  *)
THEOREM AdoptedIsSound == ValidationSpec => AdoptIsSound
<1>1. ValidationInv /\ [ValidationNext]_validationVars =>
        [report' # report /\ Last(report') = "ADOPT" =>
          LET a == results[best]
              b == Baseline
          IN  /\ Admissible(a) /\ a.trades >= MinTrades
              /\ \A e \in Range(results) : Admissible(e) => e.expectancy <= a.expectancy
              /\ Admissible(results[1]) => results[1].expectancy < a.expectancy
              /\ 20 * (a.expectancy - b.expectancy) > 3 * Magnitude(b.expectancy)
              /\ b.dd > 0 => 5 * (a.dd - b.dd) < Larger(b.dd, 100)
              /\ a.expectancy < 0 => a.pf >= 8000]_validationVars
  BY AdoptStep
<1> QED BY <1>1, ValidationStarts, ValidationStep, PTL DEF ValidationSpec, AdoptIsSound

-----------------------------------------------------------------------------
(* Bags of rows: their parts, and what is counted in them.                  *)
LEMMA BagPart ==
  ASSUME NEW d, IsBag(d), NEW S \in SUBSET DOMAIN d
  PROVE  IsFiniteSet(S) /\ (\A k \in S : d[k] \in Nat) /\ SumFunctionOnSet(d, S) \in Nat
<1>1. IsFiniteSet(S) /\ \A k \in S : d[k] \in Nat
  BY FS_Subset DEF IsBag
<1> QED BY <1>1, SumNat

LEMMA PartIs ==
  ASSUME NEW d, IsBag(d), NEW S \in SUBSET DOMAIN d, NEW r, r = [k \in S |-> d[k]]
  PROVE  /\ IsBag(r) /\ DOMAIN r = S
         /\ Size(r) = SumFunctionOnSet(d, S)
         /\ \A U \in SUBSET S : SumFunctionOnSet(r, U) = SumFunctionOnSet(d, U)
<1>1. IsFiniteSet(S) /\ \A k \in S : d[k] \in Nat
  BY BagPart
<1>2. DOMAIN r = S /\ IsBag(r)
  BY <1>1 DEF IsBag
<1>3. ASSUME NEW U \in SUBSET S PROVE SumFunctionOnSet(r, U) = SumFunctionOnSet(d, U)
  <2>1. IsFiniteSet(U) /\ \A i \in U : r[i] = d[i] /\ r[i] \in Int
    BY <1>1, FS_Subset
  <2> QED BY <2>1, SumSame
<1>4. Size(r) = SumFunctionOnSet(d, S)
  BY <1>2, <1>3 DEF Size, SumFunction
<1> QED BY <1>2, <1>3, <1>4

LEMMA SizeType == ASSUME NEW d, IsBag(d) PROVE Size(d) \in Nat
  BY BagPart DEF Size, SumFunction

(* A part outside which nothing is counted is as large as the whole.        *)
LEMMA WholePart ==
  ASSUME NEW d, IsBag(d), NEW S \in SUBSET DOMAIN d, \A k \in DOMAIN d \ S : d[k] = 0
  PROVE  SumFunctionOnSet(d, S) = Size(d)
<1>1. IsFiniteSet(DOMAIN d) /\ \A k \in DOMAIN d : d[k] \in Int
  BY BagPart
<1> QED BY <1>1, SumWithoutZeros DEF Size, SumFunction

LEMMA EmptyPart ==
  ASSUME NEW d, IsBag(d), NEW S \in SUBSET DOMAIN d, \A k \in S : d[k] = 0
  PROVE  SumFunctionOnSet(d, S) = 0
<1>1. IsFiniteSet(S) /\ \A k \in S : d[k] \in Int
  BY BagPart
<1>2. {} \in SUBSET S /\ \A k \in S \ {} : d[k] = 0
  OBVIOUS
<1>3. SumFunctionOnSet(d, S) = SumFunctionOnSet(d, {})
  BY <1>1, <1>2, SumWithoutZeros
<1> QED BY <1>3, SumEmpty

-----------------------------------------------------------------------------
(* Percentages.                                                             *)
LEMMA PctType == ASSUME NEW a \in Nat, NEW b \in Nat \ {0} PROVE Pct(a, b) \in Nat
  BY DEF Pct

LEMMA PctWhole == ASSUME NEW a \in Nat \ {0} PROVE Pct(a, a) = 1000 /\ Pct(0, a) = 0
<1>1. (1000 * a) \div a = 1000 /\ (1000 * a) % a = 0
  OBVIOUS
<1>2. (1000 * 0) \div a = 0 /\ (1000 * 0) % a = 0
  OBVIOUS
<1>3. Pct(a, a) = 1000
  BY <1>1 DEF Pct
<1>4. Pct(0, a) = 0
  BY <1>2 DEF Pct
<1> QED BY <1>3, <1>4

-----------------------------------------------------------------------------
(* What the queries on the scores return.                                   *)
TradeRowTypes == [total : Nat, signal : Nat, trend : Nat, micro : Nat, zero : Nat, all : Nat]
SignalRowTypes == [total : Nat, zero : Nat, all : Nat]
LabelledRowTypes == [total : Nat, all : Nat]

TypedTrades(d) == IsBag(d) /\ \A t \in DOMAIN d : TradeType(t)
TypedSignals(d) == IsBag(d) /\ \A s \in DOMAIN d : SignalType(s)

LEMMA TradeRowType ==
  ASSUME NEW d, IsBag(d) PROVE TradeRow(d) \in TradeRowTypes
<1> DEFINE of == Only(d, Driven)
<1>1. of = [k \in {x \in DOMAIN d : Driven(x)} |-> d[k]] /\ {x \in DOMAIN d : Driven(x)} \in SUBSET DOMAIN d
  BY DEF Only
<1>2. IsBag(of)
  <2> HIDE DEF of
  <2> QED BY <1>1, PartIs
<1> HIDE DEF of
<1>3. Size(of) \in Nat
  BY <1>2, SizeType
<1>4. Count(of, LAMBDA t : t.total > 0) \in Nat
  BY <1>2, BagPart DEF Count
<1>5. Count(of, LAMBDA t : t.trend > 0) \in Nat
  BY <1>2, BagPart DEF Count
<1>6. Count(of, LAMBDA t : t.micro > 0) \in Nat
  BY <1>2, BagPart DEF Count
<1>7. Count(of, Unscored) \in Nat
  BY <1>2, BagPart DEF Count
<1>8. Count(of, Scored) \in Nat
  BY <1>2, BagPart DEF Count
<1>9. TradeRow(d) =
         [total |-> Size(of), signal |-> Count(of, LAMBDA t : t.total > 0),
          trend |-> Count(of, LAMBDA t : t.trend > 0), micro |-> Count(of, LAMBDA t : t.micro > 0),
          zero |-> Count(of, Unscored), all |-> Count(of, Scored)]
  BY DEF TradeRow, of
<1> QED BY <1>3, <1>4, <1>5, <1>6, <1>7, <1>8, <1>9 DEF TradeRowTypes

LEMMA SignalRowType ==
  ASSUME NEW d, IsBag(d) PROVE SignalRow(d) \in SignalRowTypes
<1> DEFINE of == Only(d, Reached)
<1>1. of = [k \in {x \in DOMAIN d : Reached(x)} |-> d[k]] /\ {x \in DOMAIN d : Reached(x)} \in SUBSET DOMAIN d
  BY DEF Only
<1>2. IsBag(of)
  <2> HIDE DEF of
  <2> QED BY <1>1, PartIs
<1> HIDE DEF of
<1>3. Size(of) \in Nat
  BY <1>2, SizeType
<1>4. Count(of, LAMBDA s : s.scores = {}) \in Nat
  BY <1>2, BagPart DEF Count
<1>5. Count(of, LAMBDA s : s.scores = AllScores) \in Nat
  BY <1>2, BagPart DEF Count
<1>6. SignalRow(d) = [total |-> Size(of), zero |-> Count(of, LAMBDA s : s.scores = {}),
                      all |-> Count(of, LAMBDA s : s.scores = AllScores)]
  BY DEF SignalRow, of
<1> QED BY <1>3, <1>4, <1>5, <1>6 DEF SignalRowTypes

LEMMA LabelledTradeRowType ==
  ASSUME NEW d, IsBag(d) PROVE LabelledTradeRow(d) \in LabelledRowTypes
<1> DEFINE S == {x \in DOMAIN d : x.labelled}
           of == Only(d, LAMBDA t : t.labelled)
<1>1. of = [k \in S |-> d[k]] /\ S \in SUBSET DOMAIN d
  BY DEF Only
<1>2. IsBag(of)
  <2> HIDE DEF of, S
  <2> QED BY <1>1, PartIs
<1> HIDE DEF of, S
<1>3. Size(of) \in Nat
  BY <1>2, SizeType
<1>4. Count(of, Scored) \in Nat
  BY <1>2, BagPart DEF Count
<1>5. LabelledTradeRow(d) = [total |-> Size(of), all |-> Count(of, Scored)]
  BY DEF LabelledTradeRow, of
<1> QED BY <1>3, <1>4, <1>5 DEF LabelledRowTypes

LEMMA LabelledSignalRowType ==
  ASSUME NEW d, IsBag(d) PROVE LabelledSignalRow(d) \in SignalRowTypes
<1> DEFINE S == {x \in DOMAIN d : x.labelled}
           of == Only(d, LAMBDA s : s.labelled)
<1>1. of = [k \in S |-> d[k]] /\ S \in SUBSET DOMAIN d
  BY DEF Only
<1>2. IsBag(of)
  <2> HIDE DEF of, S
  <2> QED BY <1>1, PartIs
<1>3. LabelledSignalRow(d) = SignalRow(of)
  BY DEF LabelledSignalRow
<1> HIDE DEF of, S
<1> QED BY <1>2, <1>3, SignalRowType

(* No trade of the bot's own lacks a score, no signal that got so far does. *)
AllScored(d) == ~\E t \in DOMAIN d : d[t] > 0 /\ Bot(t) /\ 0 \in {t.total, t.trend, t.micro}
AllEvaluated(d) == ~\E s \in DOMAIN d : d[s] > 0 /\ Reached(s) /\ s.scores # AllScores
LossMade(d) == \E t \in DOMAIN d : d[t] > 0 /\ Bot(t) /\ t.pnl < 0

CompleteTrades(row) == /\ row.zero = 0
                       /\ row.all = row.total /\ row.signal = row.total
                       /\ row.trend = row.total /\ row.micro = row.total
CompleteSignals(row) == row.all = row.total

LEMMA ScoredRow ==
  ASSUME NEW d, TypedTrades(d), AllScored(d)
  PROVE  CompleteTrades(TradeRow(d))
<1> DEFINE S == {x \in DOMAIN d : Driven(x)}
           of == Only(d, Driven)
<1>1. of = [k \in S |-> d[k]] /\ S \in SUBSET DOMAIN d /\ IsBag(d)
  BY DEF Only, TypedTrades
<1>2. IsBag(of) /\ DOMAIN of = S
  <2> HIDE DEF of, S
  <2> QED BY <1>1, PartIs
<1>3. \A t \in S : of[t] \in Nat /\ {t.total, t.trend, t.micro} \subseteq Nat /\ Bot(t) /\ of[t] = d[t]
  <2> SUFFICES ASSUME NEW t \in S
               PROVE  /\ of[t] \in Nat /\ {t.total, t.trend, t.micro} \subseteq Nat
                      /\ Bot(t) /\ of[t] = d[t]
    OBVIOUS
  <2>1. t \in DOMAIN d /\ Driven(t) /\ of[t] = d[t]
    BY <1>1
  <2>2. TradeType(t)
    BY <2>1 DEF TypedTrades
  <2>3. t.tag \in {"", "adopted", "manual", "backfill"} /\ {t.total, t.trend, t.micro} \subseteq Nat
    BY <2>2 DEF TradeType
  <2>4. Bot(t)
    BY <2>1, <2>3 DEF Driven, Bot
  <2>5. d[t] \in Nat
    BY <1>1, <2>1, BagPart
  <2> HIDE DEF of, S
  <2> QED BY <2>1, <2>3, <2>4, <2>5
<1>4. \A t \in S : of[t] # 0 => t.total > 0 /\ t.trend > 0 /\ t.micro > 0
  <2> SUFFICES ASSUME NEW t \in S, of[t] # 0 PROVE t.total > 0 /\ t.trend > 0 /\ t.micro > 0
    OBVIOUS
  <2>1. of[t] \in Nat /\ t.total \in Nat /\ t.trend \in Nat /\ t.micro \in Nat /\ Bot(t)
        /\ of[t] = d[t] /\ t \in DOMAIN d
    BY <1>3
  <2>2. d[t] > 0
    <3> HIDE DEF of
    <3> QED BY <2>1
  <2>3. t.total # 0 /\ t.trend # 0 /\ t.micro # 0
    BY <2>1, <2>2 DEF AllScored
  <2> HIDE DEF of
  <2> QED BY <2>1, <2>3
<1>5. TradeRow(d) =
         [total |-> Size(of), signal |-> Count(of, LAMBDA t : t.total > 0),
          trend |-> Count(of, LAMBDA t : t.trend > 0), micro |-> Count(of, LAMBDA t : t.micro > 0),
          zero |-> Count(of, Unscored), all |-> Count(of, Scored)]
  BY DEF TradeRow
<1> HIDE DEF of, S
<1>6. \A U \in SUBSET S : (\A t \in S \ U : of[t] = 0) => SumFunctionOnSet(of, U) = Size(of)
  BY <1>2, WholePart
<1>7. Count(of, LAMBDA t : t.total > 0) = Size(of)
  BY <1>2, <1>4, <1>6 DEF Count
<1>8. Count(of, LAMBDA t : t.trend > 0) = Size(of)
  BY <1>2, <1>4, <1>6 DEF Count
<1>9. Count(of, LAMBDA t : t.micro > 0) = Size(of)
  BY <1>2, <1>4, <1>6 DEF Count
<1>10. Count(of, Scored) = Size(of)
  BY <1>2, <1>4, <1>6 DEF Count, Scored
<1>11. Count(of, Unscored) = 0
  <2> DEFINE U == {t \in S : Unscored(t)}
  <2>1. \A t \in U : of[t] = 0
    BY <1>3, <1>4 DEF Unscored
  <2>2. Count(of, Unscored) = SumFunctionOnSet(of, U)
    BY <1>2 DEF Count
  <2>3. U \in SUBSET DOMAIN of
    BY <1>2
  <2> HIDE DEF U
  <2> QED BY <1>2, <2>1, <2>2, <2>3, EmptyPart
<1> QED BY <1>5, <1>7, <1>8, <1>9, <1>10, <1>11 DEF CompleteTrades

LEMMA EvaluatedRow ==
  ASSUME NEW d, TypedSignals(d), AllEvaluated(d)
  PROVE  CompleteSignals(SignalRow(d))
<1> DEFINE S == {x \in DOMAIN d : Reached(x)}
           of == Only(d, Reached)
<1>1. of = [k \in S |-> d[k]] /\ S \in SUBSET DOMAIN d /\ IsBag(d)
  BY DEF Only, TypedSignals
<1>2. IsBag(of) /\ DOMAIN of = S
  <2> HIDE DEF of, S
  <2> QED BY <1>1, PartIs
<1>3. \A s \in S : of[s] \in Nat /\ of[s] = d[s]
  BY <1>1, <1>2, BagPart
<1>4. \A s \in S : of[s] # 0 => s.scores = AllScores
  <2> SUFFICES ASSUME NEW s \in S, of[s] # 0 PROVE s.scores = AllScores
    OBVIOUS
  <2>1. of[s] \in Nat /\ of[s] = d[s] /\ s \in DOMAIN d /\ Reached(s)
    BY <1>3
  <2>2. d[s] > 0
    <3> HIDE DEF of
    <3> QED BY <2>1
  <2> QED BY <2>1, <2>2 DEF AllEvaluated
<1>5. SignalRow(d) = [total |-> Size(of), zero |-> Count(of, LAMBDA s : s.scores = {}),
                      all |-> Count(of, LAMBDA s : s.scores = AllScores)]
  BY DEF SignalRow
<1> HIDE DEF of, S
<1>6. Count(of, LAMBDA s : s.scores = AllScores) = Size(of)
  <2> DEFINE U == {k \in S : k.scores = AllScores}
  <2>1. Count(of, LAMBDA s : s.scores = AllScores) = SumFunctionOnSet(of, U)
    BY <1>2 DEF Count
  <2>2. U \in SUBSET DOMAIN of /\ \A k \in DOMAIN of \ U : of[k] = 0
    BY <1>2, <1>4
  <2> HIDE DEF U
  <2> QED BY <1>2, <2>1, <2>2, WholePart
<1> QED BY <1>5, <1>6 DEF CompleteSignals

(* A trade of the bot's own that lost money counts in the trades' row.      *)
LEMMA LossIsCounted ==
  ASSUME NEW d, TypedTrades(d), LossMade(d) PROVE TradeRow(d).total > 0
<1> DEFINE S == {x \in DOMAIN d : Driven(x)}
           of == Only(d, Driven)
<1>1. of = [k \in S |-> d[k]] /\ S \in SUBSET DOMAIN d /\ IsBag(d)
  BY DEF Only, TypedTrades
<1>2. PICK t \in DOMAIN d : d[t] > 0 /\ Bot(t) /\ t.pnl < 0
  BY DEF LossMade
<1>3. t \in S
  <2>1. t.tag \in {"", "adopted", "manual", "backfill"}
    BY <1>2 DEF TypedTrades, TradeType
  <2> QED BY <1>2, <2>1 DEF Driven, Bot
<1>4. Size(of) = SumFunctionOnSet(d, S)
  <2> HIDE DEF of, S
  <2> QED BY <1>1, PartIs
<1>5. IsFiniteSet(S) /\ \A k \in S : d[k] \in Nat
  <2> HIDE DEF S
  <2> QED BY <1>1, BagPart
<1>6. SumFunctionOnSet(d, S) > 0
  <2> HIDE DEF S
  <2> QED BY <1>2, <1>3, <1>5, SumPositive
<1>7. TradeRow(d).total = Size(of)
  BY DEF TradeRow
<1> QED BY <1>4, <1>6, <1>7

-----------------------------------------------------------------------------
(* What MetricsEngine makes of the trades.                                  *)
LEMMA Products ==
  /\ \A a \in Nat, b \in Nat : a * b \in Nat /\ (a > 0 /\ b > 0 => a * b > 0)
  /\ \A a \in Nat, b \in Int : a * b \in Int /\ a * b = -(a * (-b))
<1>1. ASSUME NEW a \in Nat, NEW b \in Nat PROVE a * b \in Nat /\ (a > 0 /\ b > 0 => a * b > 0)
  OBVIOUS
<1>2. ASSUME NEW a \in Nat, NEW b \in Int PROVE a * b \in Int /\ a * b = -(a * (-b))
  OBVIOUS
<1> QED BY <1>1, <1>2

LEMMA GainType ==
  ASSUME NEW d, TypedTrades(d) PROVE Total(Only(d, IsWin), LAMBDA t : t.pnl) \in Nat
<1> DEFINE S == {x \in DOMAIN d : IsWin(x)}
           won == Only(d, IsWin)
           f == [k \in DOMAIN won |-> won[k] * k.pnl]
<1>1. won = [k \in S |-> d[k]] /\ S \in SUBSET DOMAIN d /\ IsBag(d)
  BY DEF Only, TypedTrades
<1>2. IsBag(won) /\ DOMAIN won = S
  <2> HIDE DEF won, S
  <2> QED BY <1>1, PartIs
<1>3. IsFiniteSet(S) /\ \A k \in S : won[k] \in Nat
  <2> HIDE DEF won, S
  <2> QED BY <1>2, BagPart
<1>4. \A k \in S : k.pnl \in Nat
  <2> SUFFICES ASSUME NEW k \in S PROVE k.pnl \in Nat
    OBVIOUS
  <2>1. k \in DOMAIN d /\ IsWin(k)
    OBVIOUS
  <2>2. {k.pnl, k.gross, k.fee, k.hold, k.mfe, k.pnlPct} \subseteq Int
    BY <2>1 DEF TypedTrades, TradeType
  <2>3. k.pnl \in Int
    BY <2>2
  <2> QED BY <2>1, <2>3 DEF IsWin
<1>5. DOMAIN f = S /\ \A k \in S : f[k] \in Nat
  <2> HIDE DEF won, S
  <2> QED BY <1>2, <1>3, <1>4, Products
<1>6. SumFunctionOnSet(f, S) \in Nat
  <2> HIDE DEF f, S
  <2> QED BY <1>3, <1>5, SumNat
<1>7. Total(won, LAMBDA t : t.pnl) = SumFunctionOnSet(f, DOMAIN f)
  BY DEF Total, SumFunction
<1> QED BY <1>5, <1>6, <1>7

LEMMA LossType ==
  ASSUME NEW d, TypedTrades(d)
  PROVE  /\ -Total(Only(d, IsLoss), LAMBDA t : t.pnl) \in Nat
         /\ LossMade(d) => -Total(Only(d, IsLoss), LAMBDA t : t.pnl) > 0
<1> DEFINE S == {x \in DOMAIN d : IsLoss(x)}
           lost == Only(d, IsLoss)
           f == [k \in DOMAIN lost |-> lost[k] * k.pnl]
           g == [k \in DOMAIN lost |-> lost[k] * (-k.pnl)]
<1>1. lost = [k \in S |-> d[k]] /\ S \in SUBSET DOMAIN d /\ IsBag(d)
  BY DEF Only, TypedTrades
<1>2. IsBag(lost) /\ DOMAIN lost = S
  <2> HIDE DEF lost, S
  <2> QED BY <1>1, PartIs
<1>3. IsFiniteSet(S) /\ \A k \in S : lost[k] \in Nat
  <2> HIDE DEF lost, S
  <2> QED BY <1>2, BagPart
<1>4. \A k \in S : k.pnl \in Int /\ -k.pnl \in Nat
  <2> SUFFICES ASSUME NEW k \in S PROVE k.pnl \in Int /\ -k.pnl \in Nat
    OBVIOUS
  <2>1. k \in DOMAIN d /\ IsLoss(k)
    OBVIOUS
  <2>2. {k.pnl, k.gross, k.fee, k.hold, k.mfe, k.pnlPct} \subseteq Int
    BY <2>1 DEF TypedTrades, TradeType
  <2>3. k.pnl \in Int
    BY <2>2
  <2> QED BY <2>1, <2>3 DEF IsLoss
<1>5. /\ DOMAIN f = S
      /\ \A k \in S : g[k] = lost[k] * (-k.pnl)
      /\ \A k \in S : f[k] \in Int /\ g[k] \in Nat /\ f[k] = -g[k]
  <2> HIDE DEF lost, S
  <2> QED BY <1>2, <1>3, <1>4, Products
<1>6. Total(lost, LAMBDA t : t.pnl) = SumFunctionOnSet(f, DOMAIN f)
  BY DEF Total, SumFunction
<1>7. ASSUME LossMade(d) PROVE \E k \in S : g[k] > 0
  <2>1. PICK t \in DOMAIN d : d[t] > 0 /\ t.pnl < 0
    BY <1>7 DEF LossMade
  <2>2. t \in S /\ lost[t] = d[t]
    BY <1>1, <2>1 DEF IsLoss
  <2>3. lost[t] > 0 /\ -t.pnl > 0 /\ lost[t] \in Nat /\ -t.pnl \in Nat
    <3> HIDE DEF lost, S
    <3> QED BY <1>3, <1>4, <2>1, <2>2
  <2>4. g[t] > 0
    <3> HIDE DEF lost, S
    <3>1. g[t] = lost[t] * (-t.pnl)
      BY <1>5, <2>2
    <3> QED BY <2>3, <3>1, Products
  <2> QED BY <2>2, <2>4
<1> HIDE DEF f, g, S, lost
<1>8. SumFunctionOnSet(g, S) \in Nat
  BY <1>3, <1>5, SumNat
<1>9. SumFunctionOnSet(f, S) = -SumFunctionOnSet(g, S)
  <2>1. \A k \in S : g[k] \in Int /\ f[k] = -g[k]
    BY <1>5
  <2> QED BY <1>3, <2>1, SumOpposite
<1>10. ASSUME LossMade(d) PROVE SumFunctionOnSet(g, S) > 0
  <2>1. PICK k \in S : g[k] > 0
    BY <1>7, <1>10
  <2> QED BY <1>3, <1>5, <2>1, SumPositive
<1>11. -Total(lost, LAMBDA t : t.pnl) = SumFunctionOnSet(g, S)
  BY <1>5, <1>6, <1>8, <1>9
<1> QED BY <1>8, <1>10, <1>11 DEF lost

LEMMA MetricsType ==
  ASSUME NEW d, TypedTrades(d)
  PROVE  LET m == Metrics(d) IN
         /\ m.trades = Size(d) /\ m.trades \in Nat /\ m.wins \in Nat
         /\ m.gain \in Nat /\ m.loss \in Nat /\ m.expectancy = m.gain - m.loss
         /\ LossMade(d) => ~m.noFactor
<1> DEFINE S == {x \in DOMAIN d : IsWin(x)}
           won == Only(d, IsWin)
           gain == Total(won, LAMBDA t : t.pnl)
           loss == -Total(Only(d, IsLoss), LAMBDA t : t.pnl)
<1>1. won = [k \in S |-> d[k]] /\ S \in SUBSET DOMAIN d /\ IsBag(d)
  BY DEF Only, TypedTrades
<1>2. IsBag(won)
  <2> HIDE DEF won, S
  <2> QED BY <1>1, PartIs
<1>3. gain \in Nat
  BY GainType
<1>4. loss \in Nat /\ (LossMade(d) => loss > 0)
  BY LossType
<1>5. Metrics(d) = [trades |-> Size(d), wins |-> Size(won), losses |-> Size(d) - Size(won),
                    expectancy |-> gain - loss, gain |-> gain, loss |-> loss,
                    noFactor |-> Size(d) > 0 /\ loss = 0, killed |-> Count(d, FeeKilled)]
  BY DEF Metrics
<1> HIDE DEF won, gain, loss
<1>6. Size(d) \in Nat /\ Size(won) \in Nat
  BY <1>1, <1>2, SizeType
<1> DEFINE m == Metrics(d)
<1>7. /\ m.trades = Size(d) /\ m.wins = Size(won) /\ m.gain = gain /\ m.loss = loss
      /\ m.expectancy = gain - loss /\ m.noFactor = (Size(d) > 0 /\ loss = 0)
  BY <1>5
<1>8. LossMade(d) => ~m.noFactor
  <2> SUFFICES ASSUME LossMade(d) PROVE ~m.noFactor
    OBVIOUS
  <2>1. loss > 0 /\ loss \in Nat
    BY <1>4
  <2>2. ~(Size(d) > 0 /\ loss = 0)
    BY <2>1
  <2> HIDE DEF m
  <2> QED BY <1>7, <2>2
<1> HIDE DEF m
<1>9. /\ m.trades = Size(d) /\ m.trades \in Nat /\ m.wins \in Nat
      /\ m.gain \in Nat /\ m.loss \in Nat /\ m.expectancy = m.gain - m.loss
  BY <1>3, <1>4, <1>6, <1>7
<1> QED BY <1>8, <1>9 DEF m

-----------------------------------------------------------------------------
(* What the parity report makes of the rows.                                *)
LEMMA MeanType ==
  /\ \A a \in Nat, b \in Nat : Mean(a, b) \in Nat
  /\ Mean(1000, 1000) = 1000
<1>1. ASSUME NEW a \in Nat, NEW b \in Nat PROVE Mean(a, b) \in Nat
  BY DEF Mean
<1>2. Mean(1000, 1000) = 1000
  BY DEF Mean
<1> QED BY <1>1, <1>2

LEMMA CoverageType ==
  ASSUME NEW tr, tr.total \in Nat, tr.all \in Nat,
         NEW sg, sg.total \in Nat, sg.all \in Nat
  PROVE  /\ Coverage(tr, sg) \in Nat
         /\ tr.total > 0 /\ tr.all = tr.total /\ sg.all = sg.total => Coverage(tr, sg) = 1000
<1>1. CASE tr.total > 0 /\ sg.total > 0
  <2>1. Coverage(tr, sg) = Mean(Pct(tr.all, tr.total), Pct(sg.all, sg.total))
    BY <1>1 DEF Coverage
  <2>2. Pct(tr.all, tr.total) \in Nat /\ Pct(sg.all, sg.total) \in Nat
    BY <1>1, PctType
  <2>3. Pct(tr.total, tr.total) = 1000 /\ Pct(sg.total, sg.total) = 1000
    BY <1>1, PctWhole
  <2>4. Coverage(tr, sg) \in Nat
    BY <2>1, <2>2, MeanType
  <2>5. ASSUME tr.all = tr.total, sg.all = sg.total PROVE Coverage(tr, sg) = 1000
    BY <2>1, <2>3, <2>5, MeanType
  <2> QED BY <2>4, <2>5
<1>2. CASE tr.total > 0 /\ sg.total = 0
  <2>1. Coverage(tr, sg) = Pct(tr.all, tr.total)
    BY <1>2 DEF Coverage
  <2>2. Pct(tr.all, tr.total) \in Nat /\ Pct(tr.total, tr.total) = 1000
    BY <1>2, PctType, PctWhole
  <2> QED BY <2>1, <2>2
<1>3. CASE tr.total = 0 /\ sg.total > 0
  <2>1. Coverage(tr, sg) = Pct(sg.all, sg.total)
    BY <1>3 DEF Coverage
  <2>2. Pct(sg.all, sg.total) \in Nat
    BY <1>3, PctType
  <2> QED BY <1>3, <2>1, <2>2
<1>4. CASE tr.total = 0 /\ sg.total = 0
  <2>1. Coverage(tr, sg) = 0
    BY <1>4 DEF Coverage
  <2> QED BY <1>4, <2>1
<1>5. (tr.total > 0 \/ tr.total = 0) /\ (sg.total > 0 \/ sg.total = 0)
  OBVIOUS
<1> QED BY <1>1, <1>2, <1>3, <1>4, <1>5

ScoreIssues == Critical \cup {"MISSING_MICRO_SCORE", "MISSING_TREND_SCORE", "COVERAGE"}

(* Rows that lack no score give none of the issues on missing scores.       *)
LEMMA CompleteHasNoIssues ==
  ASSUME NEW tr \in TradeRowTypes, tr.total > 0, CompleteTrades(tr),
         NEW sg \in SignalRowTypes, CompleteSignals(sg), NEW lt, NEW ls
  PROVE  _extract_data_quality_issues(Report(tr, sg, lt, ls)) \cap ScoreIssues = {}
<1> DEFINE p == Report(tr, sg, lt, ls)
<1>1. p.coverage = Coverage(tr, sg) /\ p.anomalies = Anomalies(tr, sg)
  BY DEF Report
<1>2. tr.total \in Nat \ {0} /\ tr.all \in Nat /\ sg.total \in Nat /\ sg.all \in Nat
  BY DEF TradeRowTypes, SignalRowTypes
<1>3. Coverage(tr, sg) = 1000
  BY <1>2, CoverageType DEF CompleteTrades, CompleteSignals
<1>4. /\ Pct(tr.zero, tr.total) = 0 /\ Pct(tr.micro, tr.total) = 1000
      /\ Pct(tr.trend, tr.total) = 1000 /\ Pct(tr.signal, tr.total) = 1000
  <2>1. Pct(tr.total, tr.total) = 1000 /\ Pct(0, tr.total) = 0
    BY <1>2, PctWhole
  <2> QED BY <2>1 DEF CompleteTrades
<1>5. Anomalies(tr, sg) \cap ScoreIssues = {}
  <2>1. Anomalies(tr, sg) \subseteq {"ALL_ZERO_SIGNAL_EVAL", "SCORE_PARITY_MISMATCH"}
    BY <1>4 DEF Anomalies
  <2> QED BY <2>1 DEF ScoreIssues, Critical
<1> HIDE DEF p
<1>6. _extract_data_quality_issues(p) = Anomalies(tr, sg)
  BY <1>1, <1>3 DEF _extract_data_quality_issues
<1> QED BY <1>5, <1>6 DEF p

-----------------------------------------------------------------------------
(* A build, read by read.                                                   *)
ActionRows == [{"ENTER", "BLOCKED"} -> Nat]
RowTypes == ActionRows \cup TradeRowTypes \cup SignalRowTypes \cup LabelledRowTypes

(* What the rows r tell of the trades st and the signals sg that are stored *)
(* now, and of the dataset d: rows arrive after they were read, none goes.  *)
Facts(r, st, sg, d) ==
    /\ r \in Seq(RowTypes)
    /\ Len(r) >= 2 => /\ r[2] \in TradeRowTypes
                      /\ LossMade(d) => r[2].total > 0
                      /\ AllScored(st) => CompleteTrades(r[2])
    /\ Len(r) >= 3 => /\ r[3] \in SignalRowTypes
                      /\ AllEvaluated(sg) => CompleteSignals(r[3])
    /\ Len(r) >= 4 => r[4] \in LabelledRowTypes
    /\ Len(r) >= 5 => r[5] \in SignalRowTypes


StoredOK == /\ TypedTrades(stored) /\ Arriving \subseteq DOMAIN stored
            /\ TypedSignals(signals) /\ ArrivingSignals \subseteq DOMAIN signals
PlaceOK == /\ at \in {"trades", "signals", "scores", "signal scores", "labelled",
                      "labelled signals", "finish", "built", "raised"}
           /\ at = "trades" => Len(rows) = 0
           /\ at = "signals" => Len(rows) = 0
           /\ at = "scores" => Len(rows) = 1
           /\ at = "signal scores" => Len(rows) = 2
           /\ at = "labelled" => Len(rows) = 3
           /\ at = "labelled signals" => Len(rows) = 4
           /\ at \in {"finish", "built", "raised"} => Len(rows) = 5
Below(d, e) == DOMAIN d = DOMAIN e /\ \A t \in DOMAIN d : d[t] <= e[t]
DatasetOK == at # "trades" => TypedTrades(dataset) /\ Below(dataset, stored)
RowsOK == Facts(rows, stored, signals, dataset)
Replays == {"NO_DATA", "DATA_AVAILABLE", "ERROR"}
SummaryOf(d, r, replay) == Summary(d, r[1], Report(r[2], r[3], r[4], r[5]), replay)
EndOK == /\ at = "raised" => Raises(rows[2]) \/ Metrics(dataset).noFactor
         /\ at = "built" => /\ ~Raises(rows[2]) /\ ~Metrics(dataset).noFactor
                            /\ \E replay \in Replays : summary = SummaryOf(dataset, rows, replay)
SummaryInv == StoredOK /\ PlaceOK /\ DatasetOK /\ RowsOK /\ EndOK

LEMMA OneMore ==
  ASSUME NEW d, IsBag(d), NEW x \in DOMAIN d, NEW e, e = [d EXCEPT ![x] = @ + 1]
  PROVE  IsBag(e) /\ Below(d, e)
<1>1. d \in [DOMAIN d -> Nat] /\ IsFiniteSet(DOMAIN d)
  BY DEF IsBag
<1>2. DOMAIN e = DOMAIN d /\ e \in [DOMAIN d -> Nat]
  BY <1>1
<1>3. \A t \in DOMAIN d : d[t] \in Nat /\ e[t] \in Nat /\ (e[t] = d[t] \/ e[t] = d[t] + 1)
  BY <1>1, <1>2
<1>4. \A t \in DOMAIN d : d[t] <= e[t]
  BY <1>3
<1> QED BY <1>1, <1>2, <1>4 DEF IsBag, Below

LEMMA BelowKeeps ==
  ASSUME NEW d, IsBag(d), NEW e, IsBag(e), Below(d, e)
  PROVE  /\ \A t \in DOMAIN d : d[t] > 0 => e[t] > 0
         /\ AllScored(e) => AllScored(d)
         /\ AllEvaluated(e) => AllEvaluated(d)
         /\ LossMade(d) => LossMade(e)
<1>1. \A t \in DOMAIN d : d[t] \in Nat /\ e[t] \in Nat /\ d[t] <= e[t]
  BY DEF IsBag, Below
<1>2. DOMAIN d = DOMAIN e /\ \A t \in DOMAIN d : d[t] > 0 => e[t] > 0
  BY <1>1 DEF Below
<1> QED BY <1>2 DEF AllScored, AllEvaluated, LossMade

LEMMA BelowAll ==
  ASSUME NEW d, IsBag(d), NEW e, IsBag(e), NEW f, IsBag(f), Below(d, e), Below(e, f)
  PROVE  Below(d, f)
<1>1. \A t \in DOMAIN d : d[t] \in Nat /\ e[t] \in Nat /\ f[t] \in Nat /\ d[t] <= e[t] /\ e[t] <= f[t]
  BY DEF IsBag, Below
<1>2. \A t \in DOMAIN d : d[t] <= f[t]
  BY <1>1
<1> QED BY <1>2 DEF Below

LEMMA BelowSelf == ASSUME NEW d, IsBag(d) PROVE Below(d, d)
<1>1. \A t \in DOMAIN d : d[t] \in Nat
  BY DEF IsBag
<1> QED BY <1>1 DEF Below

LEMMA FactsKept ==
  ASSUME NEW r, NEW st, NEW sg, NEW d, Facts(r, st, sg, d), NEW tt, NEW ss,
         AllScored(tt) => AllScored(st), AllEvaluated(ss) => AllEvaluated(sg)
  PROVE  Facts(r, tt, ss, d)
  BY DEF Facts

(* What the k-th row tells of them when it is read.                         *)
Tells(k, row, st, sg, d) ==
    /\ row \in RowTypes
    /\ k = 2 => /\ row \in TradeRowTypes
                /\ LossMade(d) => row.total > 0
                /\ AllScored(st) => CompleteTrades(row)
    /\ k = 3 => row \in SignalRowTypes /\ (AllEvaluated(sg) => CompleteSignals(row))
    /\ k = 4 => row \in LabelledRowTypes
    /\ k = 5 => row \in SignalRowTypes

LEMMA FactsGrow ==
  ASSUME NEW r, NEW st, NEW sg, NEW d, Facts(r, st, sg, d),
         NEW row, Tells(Len(r) + 1, row, st, sg, d)
  PROVE  Facts(Append(r, row), st, sg, d) /\ Len(Append(r, row)) = Len(r) + 1
<1> DEFINE n == Len(r)
           s == Append(r, row)
<1>1. r \in Seq(RowTypes) /\ row \in RowTypes /\ n \in Nat
  BY DEF Facts, Tells
<1>2. s \in Seq(RowTypes) /\ Len(s) = n + 1 /\ s[n + 1] = row /\ \A i \in 1..n : s[i] = r[i]
  BY <1>1
<1> HIDE DEF s, n
<1>3. \A i \in 1..5 : Len(s) >= i => (i = n + 1 /\ s[i] = row) \/ (n >= i /\ s[i] = r[i])
  <2> SUFFICES ASSUME NEW i \in 1..5, Len(s) >= i
               PROVE  (i = n + 1 /\ s[i] = row) \/ (n >= i /\ s[i] = r[i])
    OBVIOUS
  <2>1. CASE i = n + 1
    <3>1. s[n + 1] = row
      BY <1>2
    <3> QED BY <2>1, <3>1
  <2>2. CASE i # n + 1
    <3>1. n >= i /\ i \in 1..n
      BY <1>1, <1>2, <2>2
    <3> QED BY <1>2, <3>1
  <2> QED BY <2>1, <2>2
<1>4. Len(s) >= 2 => /\ s[2] \in TradeRowTypes
                     /\ LossMade(d) => s[2].total > 0
                     /\ AllScored(st) => CompleteTrades(s[2])
  <2> SUFFICES ASSUME Len(s) >= 2
               PROVE  /\ s[2] \in TradeRowTypes
                      /\ LossMade(d) => s[2].total > 0
                      /\ AllScored(st) => CompleteTrades(s[2])
    OBVIOUS
  <2>1. (2 = n + 1 /\ s[2] = row) \/ (n >= 2 /\ s[2] = r[2])
    BY <1>3
  <2> QED BY <2>1 DEF Facts, Tells, n
<1>5. Len(s) >= 3 => /\ s[3] \in SignalRowTypes
                     /\ AllEvaluated(sg) => CompleteSignals(s[3])
  <2> SUFFICES ASSUME Len(s) >= 3
               PROVE  /\ s[3] \in SignalRowTypes
                      /\ AllEvaluated(sg) => CompleteSignals(s[3])
    OBVIOUS
  <2>1. (3 = n + 1 /\ s[3] = row) \/ (n >= 3 /\ s[3] = r[3])
    BY <1>3
  <2> QED BY <2>1 DEF Facts, Tells, n
<1>6. Len(s) >= 4 => s[4] \in LabelledRowTypes
  <2> SUFFICES ASSUME Len(s) >= 4 PROVE s[4] \in LabelledRowTypes
    OBVIOUS
  <2>1. (4 = n + 1 /\ s[4] = row) \/ (n >= 4 /\ s[4] = r[4])
    BY <1>3
  <2> QED BY <2>1 DEF Facts, Tells, n
<1>7. Len(s) >= 5 => s[5] \in SignalRowTypes
  <2> SUFFICES ASSUME Len(s) >= 5 PROVE s[5] \in SignalRowTypes
    OBVIOUS
  <2>1. (5 = n + 1 /\ s[5] = row) \/ (n >= 5 /\ s[5] = r[5])
    BY <1>3
  <2> QED BY <2>1 DEF Facts, Tells, n
<1> QED BY <1>2, <1>4, <1>5, <1>6, <1>7 DEF Facts, s, n

LEMMA SummaryStarts == SummaryInit => SummaryInv
<1> SUFFICES ASSUME SummaryInit PROVE SummaryInv
  OBVIOUS
<1>1. stored \in TradeHistories /\ signals \in SignalHistories /\ at = "trades" /\ rows = << >>
  BY DEF SummaryInit
<1>2. StoredOK
  BY <1>1, SummaryAssumption DEF StoredOK, TypedTrades, TypedSignals
<1>3. Len(rows) = 0 /\ rows \in Seq(RowTypes)
  BY <1>1
<1>4. PlaceOK
  BY <1>1, <1>3 DEF PlaceOK
<1>5. DatasetOK
  BY <1>1 DEF DatasetOK
<1>6. RowsOK
  BY <1>3 DEF RowsOK, Facts
<1>7. EndOK
  BY <1>1 DEF EndOK
<1> QED BY <1>2, <1>4, <1>5, <1>6, <1>7 DEF SummaryInv

LEMMA ArriveStep == SummaryInv /\ Arrive => SummaryInv'
<1> SUFFICES ASSUME SummaryInv, Arrive PROVE SummaryInv'
  OBVIOUS
<1>1. UNCHANGED <<at, dataset, rows, summary>> /\ at \notin {"built", "raised"}
  BY DEF Arrive
<1>2. StoredOK /\ PlaceOK /\ DatasetOK /\ RowsOK
  BY DEF SummaryInv
<1>3. /\ TypedTrades(stored) /\ TypedSignals(signals) /\ IsBag(stored) /\ IsBag(signals)
      /\ Arriving \subseteq DOMAIN stored /\ ArrivingSignals \subseteq DOMAIN signals
  BY <1>2 DEF StoredOK, TypedTrades, TypedSignals
<1>4. /\ IsBag(stored') /\ Below(stored, stored') /\ IsBag(signals') /\ Below(signals, signals')
  <2>1. CASE \E t \in Arriving : stored' = [stored EXCEPT ![t] = @ + 1] /\ UNCHANGED signals
    <3>1. PICK t \in Arriving : stored' = [stored EXCEPT ![t] = @ + 1] /\ signals' = signals
      BY <2>1
    <3>2. t \in DOMAIN stored
      BY <1>3
    <3> QED BY <1>3, <3>1, <3>2, OneMore, BelowSelf
  <2>2. CASE \E s \in ArrivingSignals : signals' = [signals EXCEPT ![s] = @ + 1] /\ UNCHANGED stored
    <3>1. PICK s \in ArrivingSignals : signals' = [signals EXCEPT ![s] = @ + 1] /\ stored' = stored
      BY <2>2
    <3>2. s \in DOMAIN signals
      BY <1>3
    <3> QED BY <1>3, <3>1, <3>2, OneMore, BelowSelf
  <2> QED BY <2>1, <2>2 DEF Arrive
<1>5. StoredOK'
  BY <1>3, <1>4 DEF StoredOK, TypedTrades, TypedSignals, Below
<1>6. PlaceOK'
  BY <1>1, <1>2 DEF PlaceOK
<1>7. DatasetOK'
  BY <1>1, <1>2, <1>3, <1>4, BelowAll DEF DatasetOK, TypedTrades
<1>8. RowsOK'
  <2>1. (AllScored(stored') => AllScored(stored)) /\ (AllEvaluated(signals') => AllEvaluated(signals))
    BY <1>3, <1>4, BelowKeeps
  <2> QED BY <1>1, <1>2, <2>1, FactsKept DEF RowsOK
<1>9. EndOK'
  BY <1>1 DEF EndOK
<1> QED BY <1>5, <1>6, <1>7, <1>8, <1>9 DEF SummaryInv

LEMMA ReadTradesStep == SummaryInv /\ ReadTrades => SummaryInv'
<1> SUFFICES ASSUME SummaryInv, ReadTrades PROVE SummaryInv'
  OBVIOUS
<1>1. /\ at = "trades" /\ at' = "signals" /\ dataset' = stored
      /\ rows' = rows /\ stored' = stored /\ signals' = signals
  BY DEF ReadTrades, Keep
<1>2. StoredOK /\ PlaceOK /\ RowsOK
  BY DEF SummaryInv
<1>3. StoredOK'
  BY <1>1, <1>2 DEF StoredOK
<1>4. PlaceOK' /\ Len(rows) = 0
  BY <1>1, <1>2 DEF PlaceOK
<1>5. DatasetOK'
  BY <1>1, <1>2, BelowSelf DEF DatasetOK, StoredOK, TypedTrades
<1>6. RowsOK'
  BY <1>1, <1>2, <1>4 DEF RowsOK, Facts
<1>7. EndOK'
  BY <1>1 DEF EndOK
<1> QED BY <1>3, <1>4, <1>5, <1>6, <1>7 DEF SummaryInv

(* One read: the row is of its kind, and tells what is stored.              *)
Reading(here, next, n) ==
    /\ here # "trades"
    /\ \/ next = "scores" /\ n = 0
       \/ next = "signal scores" /\ n = 1
       \/ next = "labelled" /\ n = 2
       \/ next = "labelled signals" /\ n = 3
       \/ next = "finish" /\ n = 4

LEMMA ReadStep ==
  ASSUME SummaryInv, NEW here, NEW next, NEW row, ReadRow(here, row, next),
         Reading(here, next, Len(rows)),
         Tells(Len(rows) + 1, row, stored, signals, dataset)
  PROVE  SummaryInv'
<1>1. /\ at = here /\ at' = next /\ rows' = Append(rows, row)
      /\ dataset' = dataset /\ stored' = stored /\ signals' = signals
  BY DEF ReadRow, Keep
<1>2. StoredOK /\ PlaceOK /\ DatasetOK /\ RowsOK
  BY DEF SummaryInv
<1>3. Len(rows) \in Nat
  <2>1. rows \in Seq(RowTypes)
    BY <1>2 DEF RowsOK, Facts
  <2> QED BY <2>1
<1>4. Facts(Append(rows, row), stored, signals, dataset) /\ Len(Append(rows, row)) = Len(rows) + 1
  BY <1>2, FactsGrow DEF RowsOK
<1>5. StoredOK'
  BY <1>1, <1>2 DEF StoredOK
<1>6. PlaceOK'
  <2>1. Len(rows') = Len(rows) + 1 /\ at' = next
    BY <1>1, <1>4
  <2>2. CASE next = "scores" /\ Len(rows) = 0
    <3>1. at' = "scores"
      BY <2>1, <2>2
    <3>2. Len(rows) = 0
      BY <2>2
    <3>3. Len(rows') = 1
      BY <2>1, <3>2
    <3> QED BY <3>1, <3>3 DEF PlaceOK
  <2>3. CASE next = "signal scores" /\ Len(rows) = 1
    <3>1. at' = "signal scores"
      BY <2>1, <2>3
    <3>2. Len(rows) = 1
      BY <2>3
    <3>3. Len(rows') = 2
      BY <2>1, <3>2
    <3> QED BY <3>1, <3>3 DEF PlaceOK
  <2>4. CASE next = "labelled" /\ Len(rows) = 2
    <3>1. at' = "labelled"
      BY <2>1, <2>4
    <3>2. Len(rows) = 2
      BY <2>4
    <3>3. Len(rows') = 3
      BY <2>1, <3>2
    <3> QED BY <3>1, <3>3 DEF PlaceOK
  <2>5. CASE next = "labelled signals" /\ Len(rows) = 3
    <3>1. at' = "labelled signals"
      BY <2>1, <2>5
    <3>2. Len(rows) = 3
      BY <2>5
    <3>3. Len(rows') = 4
      BY <2>1, <3>2
    <3> QED BY <3>1, <3>3 DEF PlaceOK
  <2>6. CASE next = "finish" /\ Len(rows) = 4
    <3>1. at' = "finish"
      BY <2>1, <2>6
    <3>2. Len(rows) = 4
      BY <2>6
    <3>3. Len(rows') = 5
      BY <2>1, <3>2
    <3> QED BY <3>1, <3>3 DEF PlaceOK
  <2> QED BY <2>2, <2>3, <2>4, <2>5, <2>6 DEF Reading
<1>7. DatasetOK'
  <2>1. at # "trades"
    BY <1>1 DEF Reading
  <2> QED BY <1>1, <1>2, <2>1 DEF DatasetOK
<1>8. RowsOK'
  BY <1>1, <1>4 DEF RowsOK
<1>9. EndOK'
  <2>1. at' \notin {"built", "raised"}
    BY <1>1 DEF Reading
  <2> QED BY <2>1 DEF EndOK
<1> QED BY <1>5, <1>6, <1>7, <1>8, <1>9 DEF SummaryInv

LEMMA ReadSignalsStep == SummaryInv /\ ReadSignals => SummaryInv'
<1> SUFFICES ASSUME SummaryInv, ReadSignals PROVE SummaryInv'
  OBVIOUS
<1> DEFINE row == [action \in {"ENTER", "BLOCKED"} |-> Count(signals, LAMBDA s : s.action = action)]
<1>1. ReadRow("signals", row, "scores")
  BY DEF ReadSignals
<1>2. IsBag(signals) /\ Len(rows) = 0
  BY <1>1 DEF SummaryInv, StoredOK, PlaceOK, TypedSignals, ReadRow
<1>3. \A a \in {"ENTER", "BLOCKED"} : Count(signals, LAMBDA s : s.action = a) \in Nat
  BY <1>2, BagPart DEF Count
<1>4. row \in RowTypes
  BY <1>3 DEF RowTypes, ActionRows
<1> HIDE DEF row
<1>5. Tells(Len(rows) + 1, row, stored, signals, dataset) /\ Reading("signals", "scores", Len(rows))
  BY <1>2, <1>4 DEF Tells, Reading
<1> QED BY <1>1, <1>5, ReadStep

LEMMA ReadTradeScoresStep == SummaryInv /\ ReadTradeScores => SummaryInv'
<1> SUFFICES ASSUME SummaryInv, ReadTradeScores PROVE SummaryInv'
  OBVIOUS
<1> DEFINE row == TradeRow(stored)
<1>1. ReadRow("scores", row, "signal scores")
  BY DEF ReadTradeScores
<1>2. /\ TypedTrades(stored) /\ IsBag(stored) /\ Len(rows) = 1
      /\ IsBag(dataset) /\ Below(dataset, stored)
  BY <1>1 DEF SummaryInv, StoredOK, PlaceOK, DatasetOK, TypedTrades, ReadRow
<1>3. row \in TradeRowTypes /\ row \in RowTypes
  BY <1>2, TradeRowType DEF RowTypes
<1>4. LossMade(dataset) => row.total > 0
  BY <1>2, BelowKeeps, LossIsCounted
<1>5. AllScored(stored) => CompleteTrades(row)
  BY <1>2, ScoredRow
<1> HIDE DEF row
<1>6. Tells(Len(rows) + 1, row, stored, signals, dataset) /\ Reading("scores", "signal scores", Len(rows))
  BY <1>2, <1>3, <1>4, <1>5 DEF Tells, Reading
<1> QED BY <1>1, <1>6, ReadStep

LEMMA ReadSignalScoresStep == SummaryInv /\ ReadSignalScores => SummaryInv'
<1> SUFFICES ASSUME SummaryInv, ReadSignalScores PROVE SummaryInv'
  OBVIOUS
<1> DEFINE row == SignalRow(signals)
<1>1. ReadRow("signal scores", row, "labelled")
  BY DEF ReadSignalScores
<1>2. TypedSignals(signals) /\ IsBag(signals) /\ Len(rows) = 2
  BY <1>1 DEF SummaryInv, StoredOK, PlaceOK, TypedSignals, ReadRow
<1>3. row \in SignalRowTypes /\ row \in RowTypes
  BY <1>2, SignalRowType DEF RowTypes
<1>4. AllEvaluated(signals) => CompleteSignals(row)
  BY <1>2, EvaluatedRow
<1> HIDE DEF row
<1>5. /\ Tells(Len(rows) + 1, row, stored, signals, dataset)
      /\ Reading("signal scores", "labelled", Len(rows))
  BY <1>2, <1>3, <1>4 DEF Tells, Reading
<1> QED BY <1>1, <1>5, ReadStep

LEMMA ReadLabelledStep == SummaryInv /\ (ReadLabelledTrades \/ ReadLabelledSignals) => SummaryInv'
<1>1. ASSUME SummaryInv, ReadLabelledTrades PROVE SummaryInv'
  <2> DEFINE row == LabelledTradeRow(stored)
  <2>1. ReadRow("labelled", row, "labelled signals")
    BY <1>1 DEF ReadLabelledTrades
  <2>2. IsBag(stored) /\ Len(rows) = 3
    BY <1>1, <2>1 DEF SummaryInv, StoredOK, PlaceOK, TypedTrades, ReadRow
  <2>3. row \in LabelledRowTypes /\ row \in RowTypes
    BY <2>2, LabelledTradeRowType DEF RowTypes
  <2> HIDE DEF row
  <2>4. /\ Tells(Len(rows) + 1, row, stored, signals, dataset)
        /\ Reading("labelled", "labelled signals", Len(rows))
    BY <2>2, <2>3 DEF Tells, Reading
  <2> QED BY <1>1, <2>1, <2>4, ReadStep
<1>2. ASSUME SummaryInv, ReadLabelledSignals PROVE SummaryInv'
  <2> DEFINE row == LabelledSignalRow(signals)
  <2>1. ReadRow("labelled signals", row, "finish")
    BY <1>2 DEF ReadLabelledSignals
  <2>2. IsBag(signals) /\ Len(rows) = 4
    BY <1>2, <2>1 DEF SummaryInv, StoredOK, PlaceOK, TypedSignals, ReadRow
  <2>3. row \in SignalRowTypes /\ row \in RowTypes
    BY <2>2, LabelledSignalRowType DEF RowTypes
  <2> HIDE DEF row
  <2>4. /\ Tells(Len(rows) + 1, row, stored, signals, dataset)
        /\ Reading("labelled signals", "finish", Len(rows))
    BY <2>2, <2>3 DEF Tells, Reading
  <2> QED BY <1>2, <2>1, <2>4, ReadStep
<1> QED BY <1>1, <1>2

LEMMA FinishStep == SummaryInv /\ Finish => SummaryInv'
<1> SUFFICES ASSUME SummaryInv, Finish PROVE SummaryInv'
  OBVIOUS
<1>1. /\ at = "finish" /\ dataset' = dataset /\ rows' = rows
      /\ stored' = stored /\ signals' = signals
  BY DEF Finish, Keep
<1>2. StoredOK /\ PlaceOK /\ DatasetOK /\ RowsOK
  BY DEF SummaryInv
<1>3. at' \in {"built", "raised"}
  BY DEF Finish
<1>4. StoredOK' /\ RowsOK'
  BY <1>1, <1>2 DEF StoredOK, RowsOK
<1>5. PlaceOK'
  BY <1>1, <1>2, <1>3 DEF PlaceOK
<1>6. DatasetOK'
  BY <1>1, <1>2 DEF DatasetOK
<1>7. at' = "raised" => Raises(rows[2]) \/ Metrics(dataset).noFactor
  BY DEF Finish
<1>8. at' = "built" => /\ ~Raises(rows[2]) /\ ~Metrics(dataset).noFactor
                       /\ \E replay \in Replays : summary' = SummaryOf(dataset, rows, replay)
  BY DEF Finish, Replays, SummaryOf
<1>9. EndOK'
  BY <1>1, <1>7, <1>8 DEF EndOK
<1> QED BY <1>4, <1>5, <1>6, <1>9 DEF SummaryInv

LEMMA SummaryStep == SummaryInv /\ [SummaryNext]_summaryVars => SummaryInv'
<1>1. SummaryInv /\ UNCHANGED summaryVars => SummaryInv'
  BY DEF SummaryInv, StoredOK, PlaceOK, DatasetOK, RowsOK, EndOK, summaryVars
<1> QED BY <1>1, ArriveStep, ReadTradesStep, ReadSignalsStep, ReadTradeScoresStep,
           ReadSignalScoresStep, ReadLabelledStep, FinishStep DEF SummaryNext

LEMMA SummaryInvariant == SummarySpec => []SummaryInv
  BY SummaryStarts, SummaryStep, PTL DEF SummarySpec

-----------------------------------------------------------------------------
LEMMA LossesFollow == SummaryInv => LossesAreSummarised
<1> SUFFICES ASSUME SummaryInv, at = "raised",
                    NEW t \in DOMAIN dataset, dataset[t] > 0, Bot(t), t.pnl < 0
             PROVE  FALSE
  BY DEF LossesAreSummarised
<1>1. LossMade(dataset)
  BY DEF LossMade
<1>2. TypedTrades(dataset) /\ Len(rows) = 5
  BY DEF SummaryInv, DatasetOK, PlaceOK
<1>3. rows[2].total > 0 /\ rows[2] \in TradeRowTypes
  <2>1. Len(rows) >= 2
    BY <1>2
  <2> QED BY <1>1, <2>1 DEF SummaryInv, RowsOK, Facts
<1>4. ~Raises(rows[2])
  BY <1>3 DEF Raises, TradeRowTypes
<1>5. ~Metrics(dataset).noFactor
  BY <1>1, <1>2, MetricsType
<1> QED BY <1>4, <1>5 DEF SummaryInv, EndOK

(* A trade of the bot's own that lost money is enough for a summary: build  *)
(* (executive_summary.py) raises only over a history without a loss, or     *)
(* without a trade of the bot's own, whatever arrives between its reads.    *)
THEOREM LossesGiveSummaries == SummarySpec => []LossesAreSummarised
  BY SummaryInvariant, LossesFollow, PTL

LEMMA BuiltFrom ==
  ASSUME SummaryInv, at = "built"
  PROVE  /\ TypedTrades(dataset) /\ Below(dataset, stored)
         /\ rows[2] \in TradeRowTypes /\ rows[3] \in SignalRowTypes
         /\ rows[4] \in LabelledRowTypes /\ rows[5] \in SignalRowTypes
         /\ rows[2].total > 0
         /\ AllScored(stored) => CompleteTrades(rows[2])
         /\ AllEvaluated(signals) => CompleteSignals(rows[3])
         /\ \E replay \in Replays : summary = SummaryOf(dataset, rows, replay)
<1>1. TypedTrades(dataset) /\ Below(dataset, stored) /\ Len(rows) = 5
  BY DEF SummaryInv, DatasetOK, PlaceOK
<1>2. Len(rows) >= 2 /\ Len(rows) >= 3 /\ Len(rows) >= 4 /\ Len(rows) >= 5
  BY <1>1
<1>3. /\ rows[2] \in TradeRowTypes /\ rows[3] \in SignalRowTypes
      /\ rows[4] \in LabelledRowTypes /\ rows[5] \in SignalRowTypes
      /\ AllScored(stored) => CompleteTrades(rows[2])
      /\ AllEvaluated(signals) => CompleteSignals(rows[3])
  BY <1>2 DEF SummaryInv, RowsOK, Facts
<1>4. ~Raises(rows[2]) /\ \E replay \in Replays : summary = SummaryOf(dataset, rows, replay)
  BY DEF SummaryInv, EndOK
<1>5. rows[2].total > 0
  BY <1>3, <1>4 DEF Raises, TradeRowTypes
<1> QED BY <1>1, <1>3, <1>4, <1>5

LEMMA IssuesFollow == SummaryInv => IssuesMeanMissingScores
<1> SUFFICES ASSUME SummaryInv, at = "built", summary.issues \cap ScoreIssues # {},
                    AllScored(stored), AllEvaluated(signals)
             PROVE  FALSE
  BY DEF IssuesMeanMissingScores, IsBuilt, ScoreIssues, AllScored, AllEvaluated
<1>1. PICK replay \in Replays : summary = SummaryOf(dataset, rows, replay)
  BY BuiltFrom
<1>2. summary.issues = _extract_data_quality_issues(Report(rows[2], rows[3], rows[4], rows[5]))
  BY <1>1 DEF SummaryOf, Summary
<1>3. /\ rows[2] \in TradeRowTypes /\ rows[2].total > 0 /\ CompleteTrades(rows[2])
      /\ rows[3] \in SignalRowTypes /\ CompleteSignals(rows[3])
  BY BuiltFrom
<1> QED BY <1>2, <1>3, CompleteHasNoIssues

(* An issue on missing scores is listed only if a trade of the bot's own,   *)
(* or a signal that reached the last stage, lacks one when it is listed     *)
(* (score_parity.py: adopted and external trades cause none).               *)
THEOREM IssuesAreReal == SummarySpec => []IssuesMeanMissingScores
  BY SummaryInvariant, IssuesFollow, PTL

-----------------------------------------------------------------------------
(* The decisions: what kinds each check finds, and how many of them high.   *)
LEMMA PartTyped ==
  ASSUME NEW d, TypedTrades(d), NEW S \in SUBSET DOMAIN d, NEW r, r = [k \in S |-> d[k]]
  PROVE  TypedTrades(r)
<1>1. IsBag(d)
  BY DEF TypedTrades
<1>2. IsBag(r) /\ DOMAIN r = S
  BY <1>1, PartIs
<1> QED BY <1>2 DEF TypedTrades

LEMMA StatsType ==
  ASSUME NEW d, TypedTrades(d)
  PROVE  Stats(d).n \in Nat /\ Stats(d).total \in Int /\ Stats(d).wr \in Nat
<1>1. IsBag(d) /\ IsFiniteSet(DOMAIN d) /\ \A k \in DOMAIN d : d[k] \in Nat
  BY BagPart DEF TypedTrades
<1>2. Size(d) \in Nat /\ Count(d, IsWin) \in Nat
  BY <1>1, SizeType, BagPart DEF Count
<1>3. Total(d, LAMBDA t : t.pnl) \in Int
  <2> DEFINE f == [k \in DOMAIN d |-> d[k] * k.pnl]
  <2>1. \A k \in DOMAIN d : k.pnl \in Int
    <3> SUFFICES ASSUME NEW k \in DOMAIN d PROVE k.pnl \in Int
      OBVIOUS
    <3>1. {k.pnl, k.gross, k.fee, k.hold, k.mfe, k.pnlPct} \subseteq Int
      BY DEF TypedTrades, TradeType
    <3> QED BY <3>1
  <2>2. DOMAIN f = DOMAIN d /\ \A k \in DOMAIN d : f[k] \in Int
    BY <1>1, <2>1, Products
  <2>3. SumFunctionOnSet(f, DOMAIN d) \in Int
    <3> HIDE DEF f
    <3> QED BY <1>1, <2>2, SumType
  <2> QED BY <2>2, <2>3 DEF Total, SumFunction
<1>4. (IF Size(d) = 0 THEN 0 ELSE Pct(Count(d, IsWin), Size(d))) \in Nat
  BY <1>2, PctType
<1> QED BY <1>2, <1>3, <1>4 DEF Stats

LEMMA MicroTypes ==
  ASSUME NEW d, TypedTrades(d)
  PROVE  LET of == _micro_value(d) IN
         of.high.n \in Nat /\ of.high.wr \in Nat /\ of.low.n \in Nat /\ of.low.wr \in Nat
<1> DEFINE S == {x \in DOMAIN d : HighMicro(x)}
           R == {x \in DOMAIN d : ~HighMicro(x)}
           s == Only(d, HighMicro)
           r == Only(d, LAMBDA t : ~HighMicro(t))
<1>1. s = [k \in S |-> d[k]] /\ S \in SUBSET DOMAIN d
  BY DEF Only
<1>2. r = [k \in R |-> d[k]] /\ R \in SUBSET DOMAIN d
  BY DEF Only
<1>3. _micro_value(d) = [high |-> Stats(s), low |-> Stats(r)]
  BY DEF _micro_value
<1> HIDE DEF s, r, S, R
<1>4. TypedTrades(s) /\ TypedTrades(r)
  BY <1>1, <1>2, PartTyped
<1> QED BY <1>3, <1>4, StatsType

LEMMA WhenIs ==
  ASSUME NEW V, NEW x \in V, NEW c
  PROVE  /\ When(c, x) \in Seq(V)
         /\ Among(When(c, x), High) \in Nat /\ Among(When(c, x), High) <= 1
         /\ x \notin High => Among(When(c, x), High) = 0
<1> DEFINE w == When(c, x)
<1>1. w \in Seq(V) /\ Len(w) \in Nat /\ Len(w) <= 1 /\ \A i \in DOMAIN w : w[i] = x
  BY DEF When
<1> HIDE DEF w
<1>2. Among(w, High) \in Nat /\ Among(w, High) <= Len(w)
  BY <1>1, AmongType
<1>3. ASSUME x \notin High PROVE Among(w, High) = 0
  <2>1. PlacesOf(w, High) = {}
    BY <1>1, <1>3 DEF PlacesOf
  <2> QED BY <2>1, FS_EmptySet DEF Among
<1>4. Among(w, High) <= 1
  BY <1>1, <1>2
<1> QED BY <1>1, <1>2, <1>3, <1>4 DEF w

LEMMA AmongJoined ==
  ASSUME NEW V, NEW a \in Seq(V), NEW b \in Seq(V), NEW m \in Nat, NEW n \in Nat,
         Among(a, High) <= m, Among(b, High) <= n
  PROVE  a \o b \in Seq(V) /\ Among(a \o b, High) <= m + n
<1>1. Among(a \o b, High) <= Among(a, High) + Among(b, High)
  BY AmongBoth
<1>2. Among(a, High) \in Nat /\ Among(b, High) \in Nat
  BY AmongType
<1>3. a \o b \in Seq(V)
  OBVIOUS
<1>4. Among(a \o b, High) \in Nat
  BY <1>3, AmongType
<1> QED BY <1>1, <1>2, <1>3, <1>4

(* The decisions that may be found: the microstructure filter's follow its  *)
(* own comparison.                                                          *)
MicroHurts(d) == LET of == _micro_value(d) IN of.low.wr > of.high.wr + 50
MicroHelps(d) == LET of == _micro_value(d) IN
                 of.high.n >= 3 /\ of.low.n >= 3 /\ of.high.wr > of.low.wr + 150
Findable(d) == {x \in Decisions : /\ x.topic = "micro hurts" => MicroHurts(d)
                                  /\ x.topic = "micro adds" => MicroHelps(d)}

LEMMA IsFindable ==
  ASSUME NEW d, NEW type \in {"recommendation", "warning", "insight"},
         NEW confidence \in {"high", "medium"},
         NEW topic \in {"raise score_min", "score is strong", "micro hurts", "micro adds", "trailing",
              "stop sizing", "block coin", "reduce SHORT", "reduce LONG", "too fast", "too long",
              "fees kill", "fees weigh"},
         topic = "micro hurts" => MicroHurts(d), topic = "micro adds" => MicroHelps(d)
  PROVE  /\ Decision(type, topic, confidence) \in Findable(d)
         /\ confidence = "medium" => Decision(type, topic, confidence) \notin High
  BY DEF Decision, Decisions, Findable, High

LEMMA HighFromIs == \A n, m : HighFrom(n, m) \in {"high", "medium"}
  BY DEF HighFrom

Finds(list, d, n) == list \in Seq(Findable(d)) /\ Among(list, High) <= n

LEMMA FindsScore == ASSUME NEW d PROVE Finds(_check_score_threshold(d), d, 1)
<1> DEFINE of == _score_effectiveness(d)
           x == Decision("recommendation", "raise score_min", HighFrom(of["0-40"].n, 5))
           y == Decision("insight", "score is strong", "medium")
           c == of["0-40"].n >= 3 /\ of["0-40"].wr < 350
           e == of["80+"].n >= 3 /\ of["80+"].wr > 600
<1>1. x \in Findable(d)
  BY IsFindable, HighFromIs
<1>2. y \in Findable(d) /\ y \notin High
  BY IsFindable
<1>3. _check_score_threshold(d) = When(c, x) \o When(e, y)
  BY DEF _check_score_threshold
<1> HIDE DEF x, y, c, e
<1>4. When(c, x) \in Seq(Findable(d)) /\ Among(When(c, x), High) <= 1
  BY <1>1, WhenIs
<1>5. When(e, y) \in Seq(Findable(d)) /\ Among(When(e, y), High) <= 0
  BY <1>2, WhenIs
<1> QED BY <1>3, <1>4, <1>5, AmongJoined DEF Finds

LEMMA FindsMicro == ASSUME NEW d, TypedTrades(d) PROVE Finds(_check_micro_filter(d), d, 1)
<1> DEFINE of == _micro_value(d)
           x == Decision("warning", "micro hurts", "medium")
           y == Decision("insight", "micro adds", "high")
           list == _check_micro_filter(d)
<1>1. of.high.n \in Nat /\ of.high.wr \in Nat /\ of.low.n \in Nat /\ of.low.wr \in Nat
  BY MicroTypes
<1>2. \/ list = << >>
      \/ list = <<x>> /\ MicroHurts(d)
      \/ list = <<y>> /\ MicroHelps(d)
  <2>1. CASE of.high.n < 3 \/ of.low.n < 3
    BY <2>1 DEF _check_micro_filter
  <2>2. CASE ~(of.high.n < 3 \/ of.low.n < 3) /\ of.low.wr > of.high.wr + 50
    <3>1. list = <<x>>
      BY <2>2 DEF _check_micro_filter
    <3>2. MicroHurts(d)
      BY <2>2 DEF MicroHurts
    <3> QED BY <3>1, <3>2
  <2>3. CASE ~(of.high.n < 3 \/ of.low.n < 3) /\ ~(of.low.wr > of.high.wr + 50)
    <3>1. list = When(of.high.wr > of.low.wr + 150, y)
      BY <2>3 DEF _check_micro_filter
    <3>2. CASE of.high.wr > of.low.wr + 150
      <4>1. list = <<y>>
        <5> HIDE DEF list, of, y
        <5> QED BY <3>1, <3>2 DEF When
      <4>2. of.high.n >= 3 /\ of.low.n >= 3
        <5> HIDE DEF of
        <5> QED BY <1>1, <2>3
      <4>3. MicroHelps(d)
        BY <3>2, <4>2 DEF MicroHelps
      <4> QED BY <4>1, <4>3
    <3>3. CASE ~(of.high.wr > of.low.wr + 150)
      <4> HIDE DEF list, of, y
      <4> QED BY <3>1, <3>3 DEF When
    <3> QED BY <3>2, <3>3
  <2> QED BY <2>1, <2>2, <2>3
<1>3. MicroHurts(d) => x \in Findable(d)
  BY DEF Decision, Decisions, Findable
<1>4. MicroHelps(d) => y \in Findable(d)
  BY DEF Decision, Decisions, Findable
<1> HIDE DEF list, x, y
<1>5. list \in Seq(Findable(d)) /\ Len(list) \in Nat /\ Len(list) <= 1
  <2>1. CASE list = << >>
    BY <2>1
  <2>2. CASE list = <<x>> /\ MicroHurts(d)
    BY <1>3, <2>2
  <2>3. CASE list = <<y>> /\ MicroHelps(d)
    BY <1>4, <2>3
  <2> QED BY <1>2, <2>1, <2>2, <2>3
<1>6. Among(list, High) \in Nat /\ Among(list, High) <= Len(list)
  BY <1>5, AmongType
<1>7. Among(list, High) <= 1
  BY <1>5, <1>6
<1> QED BY <1>5, <1>7 DEF Finds, list

LEMMA FindsTrailing == ASSUME NEW d PROVE Finds(_check_trailing(d), d, 1)
<1> DEFINE x == Decision("warning", "trailing", "high")
<1>1. x \in Findable(d)
  BY IsFindable
<1>2. _check_trailing(d) = When(EfficiencyBelow(d, 30) /\ Size(d) >= 10, x)
  BY DEF _check_trailing
<1> HIDE DEF x
<1> QED BY <1>1, <1>2, WhenIs DEF Finds

LEMMA FindsSizing == ASSUME NEW d, NEW m PROVE Finds(_check_sl_sizing(m), d, 1)
<1> DEFINE x == Decision("recommendation", "stop sizing", "high")
           c == m.loss > 0 /\ m.gain > 0 /\ m.loss * m.wins > 2 * m.gain * m.losses
<1>1. x \in Findable(d)
  BY IsFindable
<1>2. _check_sl_sizing(m) = When(c, x)
  BY DEF _check_sl_sizing
<1> HIDE DEF x, c
<1> QED BY <1>1, <1>2, WhenIs DEF Finds

LEMMA ImageFinite ==
  ASSUME NEW S, IsFiniteSet(S), NEW f, S \subseteq DOMAIN f PROVE IsFiniteSet({f[x] : x \in S})
<1> DEFINE T == {f[x] : x \in S}
           g == [x \in S |-> f[x]]
<1>1. g \in [S -> T] /\ \A t \in T : \E x \in S : g[x] = t
  OBVIOUS
<1>2. g \in Surjection(S, T)
  <2> HIDE DEF g, T
  <2> QED BY <1>1 DEF Surjection
<1> HIDE DEF g, T
<1>3. IsFiniteSet(T)
  BY <1>2, FS_Surjection
<1> QED BY <1>3 DEF T

(* The coins are a list: some order puts the best total first.              *)
LEMMA CoinsAreListed ==
  ASSUME NEW d, TypedTrades(d) PROVE \E V : _coin_analysis(d) \in Seq(V)
<1> DEFINE names == {t.coin : t \in DOMAIN d}
           Of(c) == [coin |-> c, s |-> Stats(Only(d, LAMBDA t : t.coin = c))]
           of == [c \in names |-> Of(c)]
           some == {x \in DOMAIN of : of[x].s.n >= 2}
           coins == {of[c] : c \in some}
           f == [x \in coins |-> x.s.total]
           Ordered(list) == /\ Range(list) = coins
                            /\ \A i, j \in DOMAIN list : i < j => list[i].s.total >= list[j].s.total
<1>1. IsFiniteSet(DOMAIN d)
  BY DEF TypedTrades, IsBag
<1>2. IsFiniteSet(names)
  <2> DEFINE h == [t \in DOMAIN d |-> t.coin]
  <2>1. names = {h[t] : t \in DOMAIN d} /\ DOMAIN h = DOMAIN d
    OBVIOUS
  <2> HIDE DEF h, names
  <2> QED BY <1>1, <2>1, ImageFinite
<1>3. \A c \in names : Of(c).s.total \in Int
  <2> SUFFICES ASSUME NEW c \in names PROVE Of(c).s.total \in Int
    OBVIOUS
  <2> DEFINE S == {t \in DOMAIN d : t.coin = c}
             r == Only(d, LAMBDA t : t.coin = c)
  <2>1. r = [k \in S |-> d[k]] /\ S \in SUBSET DOMAIN d
    BY DEF Only
  <2>2. Of(c).s = Stats(r)
    OBVIOUS
  <2> HIDE DEF r, S, Of
  <2>3. TypedTrades(r)
    BY <2>1, PartTyped
  <2> QED BY <2>2, <2>3, StatsType
<1>4. IsFiniteSet(coins) /\ \A x \in coins : x.s.total \in Int
  <2> HIDE DEF names, Of
  <2>1. some \in SUBSET names
    OBVIOUS
  <2>2. IsFiniteSet(some)
    BY <1>2, <2>1, FS_Subset
  <2>3. \A c \in some : of[c] = Of(c)
    BY <2>1
  <2>4. \A x \in coins : x.s.total \in Int
    BY <1>3, <2>1, <2>3
  <2> HIDE DEF some
  <2>5. IsFiniteSet(coins)
    <3>1. some \subseteq DOMAIN of
      BY <2>1
    <3> HIDE DEF of
    <3> QED BY <2>2, <3>1, ImageFinite
  <2> QED BY <2>4, <2>5
<1>5. _coin_analysis(d) = CHOOSE list \in [1..Cardinality(coins) -> coins] : Ordered(list)
  BY DEF _coin_analysis
<1> HIDE DEF names, of, some, coins
<1>6. \A x \in coins : f[x] \in Int /\ f[x] = x.s.total
  BY <1>4
<1>7. PICK list \in [1..Cardinality(coins) -> coins] :
        /\ Range(list) = coins
        /\ \A i, j \in DOMAIN list : i < j => f[list[i]] >= f[list[j]]
  <2> HIDE DEF f
  <2> QED BY <1>4, <1>6, Listed
<1>8. Ordered(list)
  BY <1>6, <1>7
<1>9. _coin_analysis(d) \in [1..Cardinality(coins) -> coins]
  <2> HIDE DEF Ordered, f
  <2> QED BY <1>5, <1>7, <1>8
<1>10. Cardinality(coins) \in Nat
  BY <1>4, FS_CardinalityType
<1>11. _coin_analysis(d) \in Seq(coins)
  BY <1>9, <1>10, SeqDef
<1> QED BY <1>11

LEMMA FirstIs ==
  ASSUME NEW V, NEW s \in Seq(V), NEW n \in Nat
  PROVE  /\ FirstOf(s, n) \in Seq(V)
         /\ Len(FirstOf(s, n)) <= n /\ Len(FirstOf(s, n)) <= Len(s)
         /\ \A i \in 1..Len(s) : i <= n => i \in 1..Len(FirstOf(s, n))
         /\ \A i \in 1..Len(FirstOf(s, n)) : i \in 1..Len(s) /\ FirstOf(s, n)[i] = s[i]
<1> DEFINE k == Min({n, Len(s)})
<1>1. Len(s) \in Nat
  OBVIOUS
<1>2. k \in Nat /\ k <= n /\ k <= Len(s) /\ (k = n \/ k = Len(s))
  BY <1>1, MinOf
<1>3. FirstOf(s, n) = SubSeq(s, 1, k)
  BY DEF FirstOf
<1> HIDE DEF k
<1>4. /\ SubSeq(s, 1, k) \in Seq(V) /\ Len(SubSeq(s, 1, k)) = k
      /\ \A i \in 1..k : SubSeq(s, 1, k)[i] = s[i]
  BY <1>1, <1>2
<1> QED BY <1>1, <1>2, <1>3, <1>4

LEMMA FindsCoins == ASSUME NEW d, TypedTrades(d) PROVE Finds(_check_coin_blocking(d), d, 3)
<1> DEFINE coins == _coin_analysis(d)
           bad == PoisonCoins(coins, 30)
           poison == FirstOf(bad, 3)
           X(i) == Decision("recommendation", "block coin", HighFrom(poison[i].s.n, 5))
           list == _check_coin_blocking(d)
<1>1. PICK V : coins \in Seq(V)
  BY CoinsAreListed
<1>2. bad \in Seq(V)
  <2> DEFINE S == {c \in Range(coins) : AvgBelow(c.s, -30) /\ c.s.n >= 3}
  <2>1. bad = Filter(coins, S)
    BY DEF PoisonCoins, Selected, Filter
  <2> HIDE DEF bad, S, coins
  <2> QED BY <1>1, <2>1, FilterKeeps
<1>3. poison \in Seq(V) /\ Len(poison) <= 3 /\ Len(poison) \in Nat
  <2> HIDE DEF bad
  <2> QED BY <1>2, FirstIs
<1>4. list = [i \in DOMAIN poison |-> X(i)]
  BY DEF _check_coin_blocking
<1>5. \A i : X(i) \in Findable(d)
  BY IsFindable, HighFromIs
<1> HIDE DEF poison, X, list
<1>6. DOMAIN list = 1..Len(poison) /\ \A i \in 1..Len(poison) : list[i] \in Findable(d)
  BY <1>3, <1>4, <1>5
<1>7. list \in Seq(Findable(d)) /\ Len(list) = Len(poison)
  <2>1. list \in [1..Len(poison) -> Findable(d)]
    BY <1>4, <1>6
  <2>2. list \in Seq(Findable(d))
    BY <1>3, <2>1, SeqDef
  <2> QED BY <1>3, <1>6, <2>2
<1>8. Among(list, High) \in Nat /\ Among(list, High) <= Len(list)
  BY <1>7, AmongType
<1>9. Among(list, High) <= 3
  BY <1>3, <1>7, <1>8
<1> QED BY <1>7, <1>9 DEF Finds, list

LEMMA FindsSide == ASSUME NEW d PROVE Finds(_check_side_bias(d), d, 0)
<1> DEFINE of == _side_analysis(d)
           topic == IF of["LONG"].wr > of["SHORT"].wr THEN "reduce SHORT" ELSE "reduce LONG"
           x == Decision("recommendation", topic, "medium")
           c == /\ of["LONG"].n >= 5 /\ of["SHORT"].n >= 5
                /\ Abs(of["LONG"].wr - of["SHORT"].wr) > 200
<1>1. topic \in {"reduce SHORT", "reduce LONG"}
  OBVIOUS
<1>2. x \in Findable(d) /\ x \notin High
  <2> HIDE DEF topic
  <2> QED BY <1>1, IsFindable
<1>3. _check_side_bias(d) = When(c, x)
  BY DEF _check_side_bias
<1> HIDE DEF x, c
<1>4. Among(When(c, x), High) <= 0
  BY <1>2, WhenIs
<1> QED BY <1>2, <1>3, <1>4, WhenIs DEF Finds

LEMMA FindsHolding == ASSUME NEW d PROVE Finds(_check_holding_time(d), d, 0)
<1> DEFINE of == _holding_time(d)
           x == Decision("warning", "too fast", "medium")
           y == Decision("warning", "too long", "medium")
           c == of["<1m"].n >= 3 /\ of["<1m"].wr < 300
           e == of["30m+"].n >= 3 /\ of["30m+"].wr < 300
<1>1. x \in Findable(d) /\ x \notin High /\ y \in Findable(d) /\ y \notin High
  BY IsFindable
<1>2. _check_holding_time(d) = When(c, x) \o When(e, y)
  BY DEF _check_holding_time
<1> HIDE DEF x, y, c, e
<1>3. /\ When(c, x) \in Seq(Findable(d)) /\ Among(When(c, x), High) <= 0
      /\ When(e, y) \in Seq(Findable(d)) /\ Among(When(e, y), High) <= 0
  BY <1>1, WhenIs
<1> QED BY <1>2, <1>3, AmongJoined DEF Finds

LEMMA FindsFees == ASSUME NEW d PROVE Finds(_check_fee_optimization(d), d, 1)
<1> DEFINE of == _fee_impact(d)
           x == Decision("recommendation", "fees kill", "high")
           y == Decision("warning", "fees weigh", "medium")
           c == of.killedPct > 50
           e == FeesAbove(of, 30)
<1>1. x \in Findable(d) /\ y \in Findable(d) /\ y \notin High
  BY IsFindable
<1>2. _check_fee_optimization(d) = When(c, x) \o When(e, y)
  BY DEF _check_fee_optimization
<1> HIDE DEF x, y, c, e
<1>3. /\ When(c, x) \in Seq(Findable(d)) /\ Among(When(c, x), High) <= 1
      /\ When(e, y) \in Seq(Findable(d)) /\ Among(When(e, y), High) <= 0
  BY <1>1, WhenIs
<1> QED BY <1>2, <1>3, AmongJoined DEF Finds

LEMMA FoundIs ==
  ASSUME NEW d, TypedTrades(d), NEW m PROVE Finds(Found(d, m), d, 8)
<1> DEFINE V == Findable(d)
           s1 == _check_score_threshold(d)
           s2 == _check_micro_filter(d)
           s3 == _check_trailing(d)
           s4 == _check_sl_sizing(m)
           s5 == _check_coin_blocking(d)
           s6 == _check_side_bias(d)
           s7 == _check_holding_time(d)
           s8 == _check_fee_optimization(d)
<1>1. Found(d, m) = s1 \o s2 \o s3 \o s4 \o s5 \o s6 \o s7 \o s8
  BY DEF Found
<1>2. /\ Finds(s1, d, 1) /\ Finds(s2, d, 1) /\ Finds(s3, d, 1) /\ Finds(s4, d, 1)
      /\ Finds(s5, d, 3) /\ Finds(s6, d, 0) /\ Finds(s7, d, 0) /\ Finds(s8, d, 1)
  BY FindsScore, FindsMicro, FindsTrailing, FindsSizing, FindsCoins, FindsSide, FindsHolding, FindsFees
<1> HIDE DEF s1, s2, s3, s4, s5, s6, s7, s8
<1>3. \A a, b : \A i, j \in 0..8 : Finds(a, d, i) /\ Finds(b, d, j) => Finds(a \o b, d, i + j)
  BY AmongJoined DEF Finds
<1>4. Finds(s1 \o s2, d, 2)
  BY <1>2, <1>3
<1>5. Finds(s1 \o s2 \o s3, d, 3)
  BY <1>2, <1>3, <1>4
<1>6. Finds(s1 \o s2 \o s3 \o s4, d, 4)
  BY <1>2, <1>3, <1>5
<1>7. Finds(s1 \o s2 \o s3 \o s4 \o s5, d, 7)
  BY <1>2, <1>3, <1>6
<1>8. Finds(s1 \o s2 \o s3 \o s4 \o s5 \o s6, d, 7)
  BY <1>2, <1>3, <1>7
<1>9. Finds(s1 \o s2 \o s3 \o s4 \o s5 \o s6 \o s7, d, 7)
  BY <1>2, <1>3, <1>8
<1>10. Finds(s1 \o s2 \o s3 \o s4 \o s5 \o s6 \o s7 \o s8, d, 8)
  BY <1>2, <1>3, <1>9
<1> QED BY <1>1, <1>10

(* generate sorts what is found: nothing else is in it, and the decisions   *)
(* of high confidence are among its first eight, whichever kinds are kept.  *)
LEMMA GenerateIs ==
  ASSUME NEW d, TypedTrades(d), NEW m
  PROVE  LET list == Found(d, m)
             g == generate(d, m)
         IN  /\ list \in Seq(Findable(d)) /\ g \in Seq(Findable(d))
             /\ \A i \in DOMAIN list : list[i] \in High =>
                   /\ \E j \in 1..8 : j <= Len(g) /\ g[j] = list[i]
                   /\ \A K : list[i] \in K =>
                         \E j \in 1..8 : j <= Len(Filter(g, K)) /\ Filter(g, K)[j] = list[i]
<1> DEFINE V == Findable(d)
           list == Found(d, m)
           g == generate(d, m)
           h == Filter(list, High)
           r == Filter(list, Decisions \ High)
<1>1. list \in Seq(V) /\ Among(list, High) <= 8
  BY FoundIs DEF Finds
<1>2. g = h \o r
  BY DEF generate, Selected, Filter
<1> HIDE DEF list, g, V
<1>3. h \in Seq(V) /\ r \in Seq(V)
  BY <1>1, FilterKeeps
<1>4. Len(h) = Among(list, High) /\ Len(h) <= 8
  BY <1>1, FilterHas
<1>5. \A i \in DOMAIN list : list[i] \in High => \E j \in DOMAIN h : h[j] = list[i]
  BY <1>1, FilterHas
<1> HIDE DEF h, r
<1>6. g \in Seq(V) /\ Len(g) = Len(h) + Len(r) /\ \A j \in 1..Len(h) : g[j] = h[j]
  BY <1>2, <1>3
<1>7. Len(h) \in Nat /\ Len(r) \in Nat /\ DOMAIN h = 1..Len(h)
  BY <1>3
<1>8. ASSUME NEW i \in DOMAIN list, list[i] \in High
      PROVE  /\ \E j \in 1..8 : j <= Len(g) /\ g[j] = list[i]
             /\ \A K : list[i] \in K =>
                  \E j \in 1..8 : j <= Len(Filter(g, K)) /\ Filter(g, K)[j] = list[i]
  <2>1. PICK j \in 1..Len(h) : h[j] = list[i]
    BY <1>5, <1>7, <1>8
  <2>2. j \in 1..8 /\ j <= Len(g) /\ g[j] = list[i]
    BY <1>4, <1>6, <1>7, <2>1
  <2>3. ASSUME NEW K, list[i] \in K
        PROVE  \E k \in 1..8 : k <= Len(Filter(g, K)) /\ Filter(g, K)[k] = list[i]
    <3> DEFINE a == Filter(h, K)
               b == Filter(g, K)
    <3>1. Begins(a, b)
      BY <1>2, <1>3, FilterBegins
    <3>2. a \in Seq(V) /\ b \in Seq(V)
      BY <1>3, <1>6, FilterKeeps
    <3>3. Len(a) = Among(h, K) /\ Among(h, K) <= Len(h)
      BY <1>3, FilterHas, AmongType
    <3>4. \E k \in DOMAIN a : a[k] = h[j]
      <4>1. \A l \in DOMAIN h : h[l] \in K => \E k \in DOMAIN a : a[k] = h[l]
        BY <1>3, FilterHas
      <4> HIDE DEF a
      <4> QED BY <1>7, <2>1, <2>3, <4>1
    <3> HIDE DEF a, b
    <3>5. PICK k \in 1..Len(a) : a[k] = h[j]
      BY <3>2, <3>4
    <3>6. k \in 1..8 /\ k <= Len(b) /\ b[k] = list[i]
      BY <1>4, <1>7, <2>1, <3>1, <3>2, <3>3, <3>5 DEF Begins
    <3> QED BY <3>6 DEF b
  <2> QED BY <2>2, <2>3
<1> QED BY <1>1, <1>6, <1>8 DEF list, g, V

-----------------------------------------------------------------------------
(* The summary, part by part.                                               *)
LEMMA SummaryIs ==
  ASSUME SummaryInv, at = "built"
  PROVE  \E replay \in Replays :
           LET d == dataset
               m == Metrics(d)
               p == Report(rows[2], rows[3], rows[4], rows[5])
               notes == _generate_insights(d, rows[1])
           IN  /\ summary.edge = _compute_edge_status(m, p.coverage)
               /\ summary.confidence = _compute_confidence(m, p.coverage, replay)
               /\ summary.joint = _compute_joint_conclusions(m, replay, p)
               /\ Size(d) = 0 => /\ summary.works = {} /\ summary.keep = {"fees"}
                                 /\ summary.next = "capture"
                                 /\ summary.top = FirstOf(<< >>, 10)
               /\ Size(d) # 0 => /\ summary.works = _extract_what_works(d, m, notes.insights)
                                 /\ summary.fails = _extract_what_fails(d, m, notes.warnings)
                                 /\ summary.change = _extract_what_to_change(generate(d, m))
                                 /\ summary.keep = _extract_do_not_touch(d)
                                 /\ summary.next = _compute_next_best_action(generate(d, m), m, p.coverage)
                                 /\ summary.top = FirstOf(generate(d, m), 10)
<1>1. PICK replay \in Replays : summary = SummaryOf(dataset, rows, replay)
  BY BuiltFrom
<1> DEFINE d == dataset
           m == Metrics(d)
           p == Report(rows[2], rows[3], rows[4], rows[5])
           notes == _generate_insights(d, rows[1])
<1>2. TypedTrades(d)
  BY BuiltFrom
<1>3. m.trades = Size(d)
  BY <1>2, MetricsType
<1>4. /\ summary.edge = _compute_edge_status(m, p.coverage)
      /\ summary.confidence = _compute_confidence(m, p.coverage, replay)
      /\ summary.joint = _compute_joint_conclusions(m, replay, p)
  BY <1>1 DEF SummaryOf, Summary
<1>5. ASSUME Size(d) = 0
      PROVE  /\ summary.works = {} /\ summary.keep = {"fees"} /\ summary.next = "capture"
             /\ summary.top = FirstOf(<< >>, 10)
  <2>1. summary.works = {} /\ summary.keep = {"fees"} /\ summary.top = FirstOf(<< >>, 10)
    BY <1>1, <1>5 DEF SummaryOf, Summary
  <2>2. summary.next = _compute_next_best_action(<< >>, m, p.coverage)
    BY <1>1, <1>5 DEF SummaryOf, Summary
  <2>3. summary.next = "capture"
    BY <1>3, <1>5, <2>2 DEF _compute_next_best_action
  <2> QED BY <2>1, <2>3
<1>6. ASSUME Size(d) # 0
      PROVE  /\ summary.works = _extract_what_works(d, m, notes.insights)
             /\ summary.fails = _extract_what_fails(d, m, notes.warnings)
             /\ summary.change = _extract_what_to_change(generate(d, m))
             /\ summary.keep = _extract_do_not_touch(d)
             /\ summary.next = _compute_next_best_action(generate(d, m), m, p.coverage)
             /\ summary.top = FirstOf(generate(d, m), 10)
  BY <1>1, <1>6 DEF SummaryOf, Summary
<1> QED BY <1>4, <1>5, <1>6

LEMMA NothingHighCut == SummaryInv => NothingHighIsCut
<1> DEFINE d == dataset
           list == Found(d, Metrics(d))
           g == generate(d, Metrics(d))
           K == {x \in Decisions : x.type \in {"recommendation", "warning"}}
<1> SUFFICES ASSUME SummaryInv, at = "built", Size(d) > 0,
                    NEW i \in DOMAIN list, list[i].confidence = "high"
             PROVE  /\ Contains(summary.top, list[i])
                    /\ list[i].type # "insight" => Contains(summary.change, list[i])
  BY DEF NothingHighIsCut, IsBuilt
<1>1. TypedTrades(d)
  BY BuiltFrom
<1>2. Size(d) # 0
  OBVIOUS
<1>3. summary.top = FirstOf(g, 10) /\ summary.change = _extract_what_to_change(g)
  BY <1>2, SummaryIs
<1>4. summary.change = FirstOf(Filter(g, K), 8)
  BY <1>3 DEF _extract_what_to_change, Selected, Filter
<1>5. list \in Seq(Findable(d)) /\ g \in Seq(Findable(d))
  BY <1>1, GenerateIs
<1>6. list[i] \in Decisions
  <2> HIDE DEF list
  <2>1. i \in DOMAIN list /\ DOMAIN list = 1..Len(list)
    BY <1>5
  <2>2. list[i] \in Findable(d)
    BY <1>5, <2>1
  <2> QED BY <2>2 DEF Findable
<1>7. list[i] \in High /\ (list[i].type # "insight" => list[i] \in K)
  <2> HIDE DEF list
  <2> QED BY <1>6 DEF High, Decisions
<1>8. /\ \E j \in 1..8 : j <= Len(g) /\ g[j] = list[i]
      /\ list[i] \in K => \E j \in 1..8 : j <= Len(Filter(g, K)) /\ Filter(g, K)[j] = list[i]
  BY <1>1, <1>7, GenerateIs
<1> HIDE DEF list, g, K
<1>9. Filter(g, K) \in Seq(Findable(d))
  BY <1>5, FilterKeeps
<1>10. \A V : \A s \in Seq(V) : \A n \in Nat : \A j \in 1..8 : j <= Len(s) /\ 8 <= n =>
          j \in 1..Len(FirstOf(s, n)) /\ FirstOf(s, n)[j] = s[j]
  <2> SUFFICES ASSUME NEW V, NEW s \in Seq(V), NEW n \in Nat, NEW j \in 1..8, j <= Len(s), 8 <= n
               PROVE  j \in 1..Len(FirstOf(s, n)) /\ FirstOf(s, n)[j] = s[j]
    OBVIOUS
  <2>1. j \in 1..Len(s) /\ j <= n
    OBVIOUS
  <2> QED BY <2>1, FirstIs
<1>11. Contains(summary.top, list[i])
  <2>1. PICK j \in 1..8 : j <= Len(g) /\ g[j] = list[i]
    BY <1>8
  <2>2. j \in 1..Len(FirstOf(g, 10)) /\ FirstOf(g, 10)[j] = list[i]
    BY <1>5, <1>10, <2>1
  <2> QED BY <1>3, <2>2 DEF Contains
<1>12. ASSUME list[i].type # "insight" PROVE Contains(summary.change, list[i])
  <2> DEFINE k == Filter(g, K)
  <2>1. PICK j \in 1..8 : j <= Len(k) /\ k[j] = list[i]
    BY <1>7, <1>8, <1>12
  <2> HIDE DEF k
  <2>2. j \in 1..Len(FirstOf(k, 8)) /\ FirstOf(k, 8)[j] = list[i]
    BY <1>9, <1>10, <2>1 DEF k
  <2> QED BY <1>4, <2>2 DEF Contains, k
<1> QED BY <1>11, <1>12

(* However many decisions there are, the lists that are cut to eight and to *)
(* ten keep every decision of high confidence (executive_summary.py): the   *)
(* checks find eight such decisions at most.                                *)
THEOREM HighDecisionsAreKept == SummarySpec => []NothingHighIsCut
  BY SummaryInvariant, NothingHighCut, PTL

-----------------------------------------------------------------------------
LEMMA ReportType ==
  ASSUME NEW tr \in TradeRowTypes, NEW sg \in SignalRowTypes,
         NEW lt \in LabelledRowTypes, NEW ls \in SignalRowTypes
  PROVE  LET p == Report(tr, sg, lt, ls) IN
         p.coverage \in Nat /\ (p.status \in {"OK", "DEGRADED"} => p.coverage >= 500)
<1> DEFINE p == Report(tr, sg, lt, ls)
           critical == Anomalies(tr, sg) \cap Critical # {}
<1>1. p.coverage = Coverage(tr, sg) /\ p.status = StatusOf(Coverage(tr, sg), critical)
  BY DEF Report
<1>2. tr.total \in Nat /\ tr.all \in Nat /\ sg.total \in Nat /\ sg.all \in Nat
  BY DEF TradeRowTypes, SignalRowTypes
<1>3. Coverage(tr, sg) \in Nat
  BY <1>2, CoverageType
<1> HIDE DEF p, critical
<1>4. p.status \in {"OK", "DEGRADED"} => p.coverage >= 500
  BY <1>1, <1>3 DEF StatusOf
<1> QED BY <1>1, <1>3, <1>4 DEF p

LEMMA NextAsks ==
  ASSUME NEW d, NEW s \in Seq(Findable(d)), NEW m, NEW coverage \in Nat, m.trades \in Nat
  PROVE  _compute_next_best_action(s, m, coverage) \in AsksForData
           <=> m.trades < 30 \/ coverage < 500
<1>1. CASE m.trades < 30 \/ coverage < 500
  <2>1. _compute_next_best_action(s, m, coverage) \in AsksForData
    BY <1>1 DEF _compute_next_best_action, AsksForData
  <2> QED BY <1>1, <2>1
<1>2. CASE ~(m.trades < 30 \/ coverage < 500)
  <2>1. m.trades # 0 /\ ~(m.trades < 30) /\ ~(coverage < 500)
    BY <1>2
  <2>2. _compute_next_best_action(s, m, coverage) = IF s # << >> THEN Head(s).topic ELSE "continue"
    BY <2>1 DEF _compute_next_best_action
  <2>3. CASE s # << >>
    <3>1. Head(s) \in Decisions
      <4>1. Head(s) \in Findable(d)
        BY <2>3
      <4> QED BY <4>1 DEF Findable
    <3>2. Head(s).topic \notin AsksForData
      BY <3>1 DEF Decisions, AsksForData
    <3> QED BY <1>2, <2>2, <2>3, <3>2
  <2>4. CASE s = << >>
    BY <1>2, <2>2, <2>4 DEF AsksForData
  <2> QED BY <2>3, <2>4
<1> QED BY <1>1, <1>2

(* The thresholds against each other, for any metrics and any report.       *)
LEMMA Agreement ==
  ASSUME NEW m, m.trades \in Nat, m.gain \in Nat, m.loss \in Nat, m.expectancy = m.gain - m.loss,
         NEW p, p.coverage \in Nat, p.status \in {"OK", "DEGRADED"} => p.coverage >= 500,
         NEW replay
  PROVE  LET edge == _compute_edge_status(m, p.coverage)
             joint == _compute_joint_conclusions(m, replay, p)
         IN  /\ joint = "CONFIRMED" => edge \in {"POSITIVE", "NEUTRAL"}
             /\ edge = "POSITIVE" => joint \in {"CONFIRMED", "LIKELY", "BLOCKED_BY_DATA_QUALITY"}
             /\ m.trades < 30 \/ p.coverage < 500 =>
                  edge = "INCONCLUSIVE" /\ _compute_confidence(m, p.coverage, replay) = "LOW"
             /\ joint \in {"CONFIRMED", "CONFLICTING", "LIKELY"} => m.trades >= 30 /\ p.coverage >= 500
<1> DEFINE edge == _compute_edge_status(m, p.coverage)
           joint == _compute_joint_conclusions(m, replay, p)
           gains == m.expectancy > 0 /\ FactorAbove(m, 100)
<1>1. ASSUME m.trades < 30 \/ p.coverage < 500
      PROVE  edge = "INCONCLUSIVE" /\ _compute_confidence(m, p.coverage, replay) = "LOW"
  BY <1>1 DEF _compute_edge_status, _compute_confidence
<1>2. joint = IF m.trades = 0 THEN "INVALID"
              ELSE IF p.status \notin {"OK", "DEGRADED"} THEN "BLOCKED_BY_DATA_QUALITY"
              ELSE IF m.trades < 30 THEN "WEAK_EVIDENCE"
              ELSE IF replay # "NO_DATA" THEN IF gains THEN "CONFIRMED" ELSE "CONFLICTING"
              ELSE IF gains \/ m.expectancy <= 0 THEN "LIKELY"
              ELSE "WEAK_EVIDENCE"
  BY DEF _compute_joint_conclusions
<1>3. edge = IF m.trades < 30 \/ p.coverage < 500 THEN "INCONCLUSIVE"
             ELSE IF m.expectancy < 0 \/ FactorBelow(m, 50) THEN "NEGATIVE"
             ELSE IF m.expectancy > 0 /\ FactorAbove(m, 120) THEN "POSITIVE"
             ELSE IF m.expectancy > 0 /\ FactorAbove(m, 80) THEN "NEUTRAL"
             ELSE "INCONCLUSIVE"
  BY DEF _compute_edge_status
<1> HIDE DEF edge, joint, gains
<1>4. ASSUME joint \in {"CONFIRMED", "CONFLICTING", "LIKELY"}
      PROVE  m.trades >= 30 /\ p.coverage >= 500
  <2>1. p.status \in {"OK", "DEGRADED"} /\ ~(m.trades < 30)
    BY <1>2, <1>4
  <2> QED BY <2>1
<1>5. gains => /\ m.expectancy > 0 /\ m.trades > 0 /\ FactorAbove(m, 80)
               /\ ~(m.expectancy < 0) /\ ~FactorBelow(m, 50)
  BY DEF gains, FactorAbove, FactorBelow
<1>6. ASSUME joint = "CONFIRMED" PROVE edge \in {"POSITIVE", "NEUTRAL"}
  <2>1. gains
    BY <1>2, <1>6
  <2>2. ~(m.trades < 30 \/ p.coverage < 500)
    BY <1>4, <1>6
  <2> QED BY <1>3, <1>5, <2>1, <2>2
<1>7. m.expectancy > 0 /\ FactorAbove(m, 120) => gains
  BY DEF gains, FactorAbove
<1>8. ASSUME edge = "POSITIVE" PROVE joint \in {"CONFIRMED", "LIKELY", "BLOCKED_BY_DATA_QUALITY"}
  <2>1. ~(m.trades < 30 \/ p.coverage < 500) /\ m.expectancy > 0 /\ FactorAbove(m, 120)
    BY <1>3, <1>8
  <2>2. gains /\ ~(m.trades < 30) /\ m.trades # 0
    BY <1>7, <2>1
  <2> QED BY <1>2, <2>2
<1> QED BY <1>1, <1>4, <1>6, <1>8 DEF edge, joint

LEMMA ConclusionsFollow == SummaryInv => ConclusionsAgree
<1> SUFFICES ASSUME SummaryInv, at = "built" PROVE ConclusionsAgree
  BY DEF ConclusionsAgree, IsBuilt
<1> DEFINE d == dataset
           m == Metrics(d)
           p == Report(rows[2], rows[3], rows[4], rows[5])
<1>1. PICK replay \in Replays :
        /\ summary.edge = _compute_edge_status(m, p.coverage)
        /\ summary.confidence = _compute_confidence(m, p.coverage, replay)
        /\ summary.joint = _compute_joint_conclusions(m, replay, p)
        /\ Size(d) = 0 => summary.next = "capture"
        /\ Size(d) # 0 => summary.next = _compute_next_best_action(generate(d, m), m, p.coverage)
  BY SummaryIs
<1>2. TypedTrades(d)
  BY BuiltFrom
<1>3. /\ m.trades \in Nat /\ m.gain \in Nat /\ m.loss \in Nat /\ m.expectancy = m.gain - m.loss
      /\ m.trades = Size(d)
  BY <1>2, MetricsType
<1>4. p.coverage \in Nat /\ (p.status \in {"OK", "DEGRADED"} => p.coverage >= 500)
  BY BuiltFrom, ReportType
<1>5. generate(d, m) \in Seq(Findable(d))
  BY <1>2, GenerateIs
<1>0. LacksData <=> m.trades < 30 \/ p.coverage < 500
  BY DEF LacksData
<1> HIDE DEF m, p
<1>6. /\ summary.joint = "CONFIRMED" => summary.edge \in {"POSITIVE", "NEUTRAL"}
      /\ summary.edge = "POSITIVE" => summary.joint \in {"CONFIRMED", "LIKELY", "BLOCKED_BY_DATA_QUALITY"}
      /\ m.trades < 30 \/ p.coverage < 500 =>
           summary.edge = "INCONCLUSIVE" /\ summary.confidence = "LOW"
      /\ summary.joint \in {"CONFIRMED", "CONFLICTING", "LIKELY"} => m.trades >= 30 /\ p.coverage >= 500
  BY <1>1, <1>3, <1>4, Agreement
<1>7. summary.next \in AsksForData <=> m.trades < 30 \/ p.coverage < 500
  <2>1. CASE Size(d) = 0
    <3>1. summary.next = "capture" /\ m.trades < 30
      BY <1>1, <1>3, <2>1
    <3> QED BY <3>1 DEF AsksForData
  <2>2. CASE Size(d) # 0
    BY <1>1, <1>3, <1>4, <1>5, <2>2, NextAsks
  <2> QED BY <2>1, <2>2
<1>8. m.trades < 30 \/ p.coverage < 500 =>
        summary.joint \notin {"CONFIRMED", "CONFLICTING", "LIKELY"}
  BY <1>3, <1>4, <1>6
<1> QED BY <1>0, <1>6, <1>7, <1>8 DEF ConclusionsAgree

(* The conclusions of one summary do not contradict each other, although    *)
(* each weighs the trades and the scores with thresholds of its own         *)
(* (executive_summary.py), for any trades and any coverage; the next action *)
(* asks for data exactly when the summary lacks it.                         *)
THEOREM ConclusionsDoAgree == SummarySpec => []ConclusionsAgree
  BY SummaryInvariant, ConclusionsFollow, PTL

LEMMA MicroAdvice ==
  ASSUME NEW d, TypedTrades(d), NEW m, NEW actions
  PROVE  LET notes == _generate_insights(d, actions)
             works == _extract_what_works(d, m, notes.insights)
             fails == _extract_what_fails(d, m, notes.warnings)
             keep == _extract_do_not_touch(d)
         IN  /\ "micro" \in works => ~("micro" \in fails) /\ ~MicroHurts(d)
             /\ "micro" \in keep => ~MicroHurts(d)
             /\ MicroHelps(d) => "micro" \in works /\ "micro" \in keep /\ ~("micro" \in fails)
<1> DEFINE of == _micro_value(d)
           notes == _generate_insights(d, actions)
           works == _extract_what_works(d, m, notes.insights)
           fails == _extract_what_fails(d, m, notes.warnings)
           keep == _extract_do_not_touch(d)
           both == of.high.n > 3 /\ of.low.n > 3
           adds == of.high.wr > of.low.wr + 100
<1>1. of.high.n \in Nat /\ of.high.wr \in Nat /\ of.low.n \in Nat /\ of.low.wr \in Nat
  BY MicroTypes
<1>2. /\ "micro" \in notes.insights <=> both /\ adds
      /\ "micro" \in notes.warnings <=> both /\ ~adds /\ of.low.wr > of.high.wr
  BY DEF _generate_insights
<1>3. "micro" \in works <=> "micro" \in notes.insights \/ MicroAdds(d)
  BY DEF _extract_what_works
<1>4. "micro" \in fails <=> "micro" \in notes.warnings
  BY DEF _extract_what_fails
<1>5. "micro" \in keep <=> MicroAdds(d)
  BY DEF _extract_do_not_touch
<1>6. MicroAdds(d) <=> of.high.n >= 3 /\ adds
  BY DEF MicroAdds
<1>7. MicroHurts(d) <=> of.low.wr > of.high.wr + 50
  BY DEF MicroHurts
<1>8. MicroHelps(d) <=> of.high.n >= 3 /\ of.low.n >= 3 /\ of.high.wr > of.low.wr + 150
  BY DEF MicroHelps
<1>9. MicroHurts(d) => ~adds
  <2> HIDE DEF of
  <2> QED BY <1>1, <1>7
<1>10. MicroHelps(d) => of.high.n >= 3 /\ adds
  <2> HIDE DEF of
  <2> QED BY <1>1, <1>8
<1> HIDE DEF works, fails, keep, notes, adds, both, of
<1>11. "micro" \in works => ~("micro" \in fails) /\ ~MicroHurts(d)
  BY <1>2, <1>3, <1>4, <1>6, <1>9
<1>12. "micro" \in keep => ~MicroHurts(d)
  BY <1>5, <1>6, <1>9
<1>13. MicroHelps(d) => "micro" \in works /\ "micro" \in keep /\ ~("micro" \in fails)
  BY <1>2, <1>3, <1>4, <1>5, <1>6, <1>10
<1> QED BY <1>11, <1>12, <1>13 DEF works, fails, keep, notes

LEMMA RateAdvice ==
  ASSUME NEW d, TypedTrades(d), NEW actions
  PROVE  LET m == Metrics(d)
             notes == _generate_insights(d, actions)
             works == _extract_what_works(d, m, notes.insights)
             fails == _extract_what_fails(d, m, notes.warnings)
         IN  /\ ~("winrate" \in works /\ "winrate" \in fails)
             /\ ~("profit" \in works /\ "profit" \in fails)
<1> DEFINE m == Metrics(d)
           notes == _generate_insights(d, actions)
           works == _extract_what_works(d, m, notes.insights)
           fails == _extract_what_fails(d, m, notes.warnings)
<1>1. m.trades \in Nat /\ m.wins \in Nat /\ m.gain \in Nat /\ m.loss \in Nat
  BY MetricsType
<1>2. /\ "winrate" \notin notes.insights /\ "winrate" \notin notes.warnings
      /\ "profit" \notin notes.insights /\ "profit" \notin notes.warnings
  BY DEF _generate_insights
<1> HIDE DEF m, notes
<1>3. /\ "winrate" \in works => 2 * m.wins > m.trades
      /\ "profit" \in works => FactorAbove(m, 120)
  BY <1>2 DEF _extract_what_works
<1>4. /\ "winrate" \in fails => 10 * m.wins < 4 * m.trades
      /\ "profit" \in fails => FactorBelow(m, 100)
  BY <1>2 DEF _extract_what_fails
<1> HIDE DEF works, fails
<1>5. ~("winrate" \in works /\ "winrate" \in fails)
  BY <1>1, <1>3, <1>4
<1>6. ~(FactorAbove(m, 120) /\ FactorBelow(m, 100))
  BY <1>1 DEF FactorAbove, FactorBelow
<1> QED BY <1>3, <1>4, <1>5, <1>6 DEF works, fails, m, notes

LEMMA AdviceFollows == SummaryInv => AdviceAgrees
<1> SUFFICES ASSUME SummaryInv, at = "built" PROVE AdviceAgrees
  BY DEF AdviceAgrees, IsBuilt
<1> DEFINE d == dataset
           m == Metrics(d)
           g == generate(d, m)
           topics == {summary.top[i].topic : i \in DOMAIN summary.top}
           notes == _generate_insights(d, rows[1])
<1>1. /\ Size(d) = 0 => /\ summary.works = {} /\ summary.keep = {"fees"}
                        /\ summary.top = FirstOf(<< >>, 10)
      /\ Size(d) # 0 => /\ summary.works = _extract_what_works(d, m, notes.insights)
                        /\ summary.fails = _extract_what_fails(d, m, notes.warnings)
                        /\ summary.keep = _extract_do_not_touch(d)
                        /\ summary.top = FirstOf(g, 10)
  BY SummaryIs
<1>2. TypedTrades(d)
  BY BuiltFrom
<1>3. g \in Seq(Findable(d))
  BY <1>2, GenerateIs
<1>4. /\ "micro hurts" \in topics => MicroHurts(d) /\ Size(d) # 0
      /\ "micro adds" \in topics => MicroHelps(d) /\ Size(d) # 0
  <2>1. CASE Size(d) = 0
    <3>1. summary.top \in Seq(Findable(d)) /\ Len(summary.top) <= 0
      <4> DEFINE none == << >>
      <4>1. none \in Seq(Findable(d)) /\ Len(none) = 0
        OBVIOUS
      <4>2. summary.top = FirstOf(none, 10)
        BY <1>1, <2>1
      <4> HIDE DEF none
      <4>3. FirstOf(none, 10) \in Seq(Findable(d)) /\ Len(FirstOf(none, 10)) <= Len(none)
        BY <4>1, FirstIs
      <4> QED BY <4>1, <4>2, <4>3
    <3>2. topics = {}
      BY <3>1
    <3> QED BY <3>2
  <2>2. CASE Size(d) # 0
    <3>1. summary.top \in Seq(Findable(d))
      <4> HIDE DEF g
      <4> QED BY <1>1, <1>3, <2>2, FirstIs
    <3>2. \A i \in DOMAIN summary.top : summary.top[i] \in Findable(d)
      BY <3>1
    <3> QED BY <2>2, <3>2 DEF Findable
  <2> QED BY <2>1, <2>2
<1> HIDE DEF topics, g
<1>5. /\ ~("winrate" \in summary.works /\ "winrate" \in summary.fails)
      /\ ~("profit" \in summary.works /\ "profit" \in summary.fails)
  BY <1>1, <1>2, RateAdvice
<1> HIDE DEF m
<1>6. ASSUME Size(d) # 0
      PROVE  /\ "micro" \in summary.works => ~("micro" \in summary.fails) /\ ~MicroHurts(d)
             /\ "micro" \in summary.keep => ~MicroHurts(d)
             /\ MicroHelps(d) => /\ "micro" \in summary.works /\ "micro" \in summary.keep
                                 /\ ~("micro" \in summary.fails)
  BY <1>1, <1>2, <1>6, MicroAdvice
<1>7. "micro" \in summary.works => ~("micro" \in summary.fails)
  BY <1>1, <1>6
<1>8. summary.works \cap summary.fails \cap {"winrate", "profit", "micro"} = {}
  BY <1>5, <1>7
<1>9. "micro hurts" \in topics => "micro" \notin summary.works \cup summary.keep
  BY <1>4, <1>6
<1>10. "micro adds" \in topics => /\ "micro" \in summary.works \cap summary.keep
                                  /\ "micro" \notin summary.fails
  BY <1>4, <1>6
<1> QED BY <1>8, <1>9, <1>10 DEF AdviceAgrees, topics

(* The three engines and the summary never advise both one thing and its    *)
(* opposite on the microstructure filter, the rate of wins and the profit   *)
(* factor (executive_summary.py, decisions.py), for any trades.             *)
THEOREM AdviceDoesAgree == SummarySpec => []AdviceAgrees
  BY SummaryInvariant, AdviceFollows, PTL

=============================================================================
