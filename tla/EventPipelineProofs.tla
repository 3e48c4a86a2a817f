------------------------- MODULE EventPipelineProofs -------------------------
(***************************************************************************)
(* Proofs about EventPipeline, for any set of events, any assignment of    *)
(* events to buffers and hours, any queue size and any flush size: an      *)
(* event is in one place, none vanishes, and a shutdown leaves nothing of  *)
(* what the writer had buffered when it began.                             *)
(***************************************************************************)
EXTENDS EventPipeline, SequenceTheorems, TLAPS

TypeOK ==
    /\ process \in {"running", "stopping", "exited", "failed", "killed"}
    /\ {producing, busRunning, writerRunning} \subseteq BOOLEAN
    /\ queue \in Seq(Events)
    /\ buffers \in [Keys -> SUBSET Events]
    /\ entries \subseteq Keys
    /\ task \in [Flushers -> {"off", "waiting", "writing", "closing", "dead"}]
    /\ keys \in [Flushers -> SUBSET Keys]
    /\ job \in [Flushers ->
            [state : {"none", "queued", "running", "done", "raised", "cancelled"},
             rows : SUBSET Events]]
    /\ written \in [Events -> Nat]
    /\ dropped \subseteq Events
    /\ failed \subseteq Events
    /\ atStop \subseteq Events

(* A task that is not suspended in a write has no job, and a job that is    *)
(* over holds no rows: FlushBuffer never overwrites rows of its own task.   *)
JobsMatchTasks ==
    \A f \in Flushers :
        /\ job[f].state \in {"none", "done", "raised"} => job[f].rows = {}
        /\ task[f] # "writing" => job[f].state = "none"

(* A buffer holds events of its key, and a key with events has an entry,    *)
(* so that flush_all lists it.                                              *)
BuffersByKey ==
    \A k \in Keys : /\ \A e \in buffers[k] : Key[e] = k
                    /\ buffers[k] # {} => k \in entries

QueueInjective == \A i, j \in DOMAIN queue : queue[i] = queue[j] => i = j
JobsApart == \A f, g \in Flushers : f # g => job[f].rows \cap job[g].rows = {}

(* The six places are pairwise disjoint.                                    *)
Apart(inQueue, inBuffers, inJobs, onDisk, isDropped, isFailed) ==
    /\ inQueue \cap (inBuffers \cup inJobs \cup onDisk \cup isDropped \cup isFailed) = {}
    /\ inBuffers \cap (inJobs \cup onDisk \cup isDropped \cup isFailed) = {}
    /\ inJobs \cap (onDisk \cup isDropped \cup isFailed) = {}
    /\ onDisk \cap (isDropped \cup isFailed) = {}
    /\ isDropped \cap isFailed = {}

PlacesApart == Apart(InQueue, Buffered, InJobs, OnDisk, dropped, failed)

WrittenOnce == \A e \in Events : written[e] <= 1

(* What the writer had buffered when its stop began and is still buffered   *)
(* is under a key its flush_all has yet to visit; when that is through, no  *)
(* key is left, and only then the shutdown ends.                            *)
StopVisits ==
    /\ atStop \subseteq OnDisk \cup failed \cup InJobs
                         \cup UNION {buffers[k] : k \in keys["stop"]}
    /\ task["stop"] # "writing" => keys["stop"] = {}
    /\ process = "exited" => task["stop"] = "closing"

IInv ==
    /\ TypeOK
    /\ JobsMatchTasks
    /\ BuffersByKey
    /\ QueueInjective
    /\ JobsApart
    /\ PlacesApart
    /\ WrittenOnce
    /\ StopVisits

-----------------------------------------------------------------------------
(* put_nowait adds its event to what the queue holds.                       *)
LEMMA AppendToQueue ==
    ASSUME queue \in Seq(Events), QueueInjective,
           NEW e \in Events, e \notin InQueue, queue' = Append(queue, e)
    PROVE  /\ queue' \in Seq(Events)
           /\ QueueInjective'
           /\ InQueue' = InQueue \cup {e}
<1>1. /\ queue' \in Seq(Events)
      /\ DOMAIN queue' = 1..Len(queue) + 1
      /\ DOMAIN queue = 1..Len(queue)
      /\ Len(queue) \in Nat
      /\ \A i \in 1..Len(queue) : queue'[i] = queue[i]
      /\ queue'[Len(queue) + 1] = e
  OBVIOUS
<1>2. InQueue' = InQueue \cup {e}
  BY <1>1 DEF InQueue
<1>3. ASSUME NEW i \in DOMAIN queue', NEW j \in DOMAIN queue', queue'[i] = queue'[j]
      PROVE  i = j
  <2>1. CASE i \in DOMAIN queue /\ j \in DOMAIN queue
    BY <1>1, <1>3, <2>1 DEF QueueInjective
  <2>2. CASE i = Len(queue) + 1 \/ j = Len(queue) + 1
    BY <1>1, <1>3, <2>2 DEF InQueue
  <2> QED
    BY <1>1, <2>1, <2>2
<1> QED
  BY <1>1, <1>2, <1>3 DEF QueueInjective

(* get takes one event out of the queue, which holds it no more.            *)
LEMMA TakeFromQueue ==
    ASSUME queue \in Seq(Events), QueueInjective, queue # << >>, queue' = Tail(queue)
    PROVE  /\ queue' \in Seq(Events)
           /\ QueueInjective'
           /\ Head(queue) \in InQueue
           /\ InQueue' = InQueue \ {Head(queue)}
<1>1. /\ queue' \in Seq(Events)
      /\ Len(queue) \in Nat \ {0}
      /\ DOMAIN queue = 1..Len(queue)
      /\ DOMAIN queue' = 1..Len(queue) - 1
      /\ Head(queue) = queue[1]
  BY EmptySeq, HeadTailProperties
<1>2. \A i \in DOMAIN queue' : queue'[i] = queue[i + 1] /\ i + 1 \in DOMAIN queue
  BY <1>1, HeadTailProperties
<1>3. Head(queue) \in InQueue
  BY <1>1 DEF InQueue
<1>4. QueueInjective'
  BY <1>1, <1>2 DEF QueueInjective
<1>5. ASSUME NEW i \in DOMAIN queue, i # 1
      PROVE  /\ queue[i] \in InQueue'
             /\ queue[i] # Head(queue)
  <2>1. i - 1 \in DOMAIN queue' /\ queue'[i - 1] = queue[i]
    BY <1>1, <1>2, <1>5
  <2> QED
    BY <1>1, <1>5, <2>1 DEF InQueue, QueueInjective
<1>6. ASSUME NEW i \in DOMAIN queue'
      PROVE  queue'[i] \in InQueue /\ queue'[i] # Head(queue)
  BY <1>1, <1>2, <1>5 DEF InQueue
<1>7. InQueue' = InQueue \ {Head(queue)}
  BY <1>1, <1>5, <1>6 DEF InQueue
<1> QED
  BY <1>1, <1>3, <1>4, <1>7

-----------------------------------------------------------------------------
(* A flush moves the rows of one buffer, and what it was given beside them, *)
(* to the job of its task.                                                  *)
LEMMA FlushMoves ==
    ASSUME TypeOK, JobsMatchTasks, BuffersByKey, JobsApart,
           NEW f \in Flushers, job[f].rows = {},
           NEW k \in Keys, NEW full \in SUBSET Events,
           buffers[k] \subseteq full, full \cap InJobs = {},
           FlushBuffer(f, k, full)
    PROVE  /\ buffers' \in [Keys -> SUBSET Events]
           /\ task' \in [Flushers -> {"off", "waiting", "writing", "closing", "dead"}]
           /\ job' \in [Flushers ->
                [state : {"none", "queued", "running", "done", "raised", "cancelled"},
                 rows : SUBSET Events]]
           /\ buffers'[k] = {}
           /\ \A l \in Keys \ {k} : buffers'[l] = buffers[l]
           /\ task'[f] = "writing"
           /\ \A g \in Flushers \ {f} : task'[g] = task[g] /\ job'[g] = job[g]
           /\ Buffered' = Buffered \ buffers[k]
           /\ InJobs' = InJobs \cup full
           /\ JobsMatchTasks'
           /\ JobsApart'
<1> USE DEF TypeOK
<1>1. /\ buffers' \in [Keys -> SUBSET Events]
      /\ buffers'[k] = {}
      /\ \A l \in Keys \ {k} : buffers'[l] = buffers[l]
  BY DEF FlushBuffer
<1>2. /\ task' \in [Flushers -> {"off", "waiting", "writing", "closing", "dead"}]
      /\ task'[f] = "writing"
      /\ \A g \in Flushers \ {f} : task'[g] = task[g]
  BY DEF FlushBuffer
<1>3. /\ job' \in [Flushers ->
                [state : {"none", "queued", "running", "done", "raised", "cancelled"},
                 rows : SUBSET Events]]
      /\ job'[f] = [state |-> "queued", rows |-> full]
      /\ \A g \in Flushers \ {f} : job'[g] = job[g]
  BY DEF FlushBuffer
<1>4. \A l \in Keys \ {k} : buffers[l] \cap buffers[k] = {}
  BY DEF BuffersByKey
<1>5. Buffered' = Buffered \ buffers[k]
  <2>1. ASSUME NEW e PROVE e \in Buffered <=> \E l \in Keys : e \in buffers[l]
    BY DEF Buffered
  <2>2. ASSUME NEW e PROVE e \in Buffered' <=> \E l \in Keys : e \in buffers'[l]
    BY DEF Buffered
  <2> QED
    BY <1>1, <1>4, <2>1, <2>2
<1>6. InJobs' = InJobs \cup full
  <2>1. ASSUME NEW e PROVE e \in InJobs <=> \E g \in Flushers : e \in job[g].rows
    BY DEF InJobs
  <2>2. ASSUME NEW e PROVE e \in InJobs' <=> \E g \in Flushers : e \in job'[g].rows
    BY DEF InJobs
  <2> QED
    BY <1>3, <2>1, <2>2
<1>7. JobsMatchTasks'
  BY <1>2, <1>3 DEF JobsMatchTasks
<1>8. \A g \in Flushers \ {f} : job'[g].rows \cap full = {}
  BY <1>3 DEF InJobs
<1>9. JobsApart'
  BY <1>3, <1>8 DEF JobsApart
<1> QED
  BY <1>1, <1>2, <1>3, <1>5, <1>6, <1>7, <1>9

(* flush_all, up to its next write or its end: what leaves the buffers is   *)
(* in jobs, and of the keys it listed only those it has yet to visit still  *)
(* have events.                                                             *)
LEMMA FlushAllKeeps ==
    ASSUME TypeOK, JobsMatchTasks, BuffersByKey, JobsApart, Buffered \cap InJobs = {},
           NEW f \in Flushers, job[f].rows = {},
           NEW listed \in SUBSET Keys, NEW next \in {"off", "waiting", "closing"},
           FlushAll(f, listed, next)
    PROVE  /\ buffers' \in [Keys -> SUBSET Events]
           /\ entries' \subseteq Keys
           /\ task' \in [Flushers -> {"off", "waiting", "writing", "closing", "dead"}]
           /\ keys' \in [Flushers -> SUBSET Keys]
           /\ job' \in [Flushers ->
                [state : {"none", "queued", "running", "done", "raised", "cancelled"},
                 rows : SUBSET Events]]
           /\ JobsMatchTasks'
           /\ BuffersByKey'
           /\ JobsApart'
           /\ Buffered' \cup InJobs' = Buffered \cup InJobs
           /\ Buffered' \cap InJobs' = {}
           /\ \A g \in Flushers \ {f} : task'[g] = task[g] /\ keys'[g] = keys[g]
           /\ task'[f] = "writing" \/ (task'[f] = next /\ keys'[f] = {})
           /\ \A k \in Keys : buffers[k] \subseteq buffers'[k] \cup InJobs'
           /\ UNION {buffers[k] : k \in listed}
                \subseteq InJobs' \cup UNION {buffers'[k] : k \in keys'[f]}
           /\ InJobs \subseteq InJobs'
<1> DEFINE full == {k \in listed : buffers[k] # {}}
<1>1. ASSUME NEW k \in full, NEW S \in SUBSET (listed \ full),
             FlushBuffer(f, k, buffers[k]),
             keys' = [keys EXCEPT ![f] = listed \ (S \cup {k})],
             entries' = (entries \cup S) \ {k}
      PROVE  /\ buffers' \in [Keys -> SUBSET Events]
             /\ entries' \subseteq Keys
             /\ task' \in [Flushers -> {"off", "waiting", "writing", "closing", "dead"}]
             /\ keys' \in [Flushers -> SUBSET Keys]
             /\ job' \in [Flushers ->
                [state : {"none", "queued", "running", "done", "raised", "cancelled"},
                 rows : SUBSET Events]]
             /\ JobsMatchTasks'
             /\ BuffersByKey'
             /\ JobsApart'
             /\ Buffered' \cup InJobs' = Buffered \cup InJobs
             /\ Buffered' \cap InJobs' = {}
             /\ \A g \in Flushers \ {f} : task'[g] = task[g] /\ keys'[g] = keys[g]
             /\ task'[f] = "writing"
             /\ \A l \in Keys : buffers[l] \subseteq buffers'[l] \cup InJobs'
             /\ UNION {buffers[l] : l \in listed}
                  \subseteq InJobs' \cup UNION {buffers'[l] : l \in keys'[f]}
             /\ InJobs \subseteq InJobs'
  <2>1. k \in Keys /\ buffers[k] \in SUBSET Events
    BY DEF TypeOK
  <2>2. buffers[k] \subseteq Buffered
    BY <2>1 DEF Buffered
  <2>3. /\ buffers' \in [Keys -> SUBSET Events]
        /\ task' \in [Flushers -> {"off", "waiting", "writing", "closing", "dead"}]
        /\ job' \in [Flushers ->
                [state : {"none", "queued", "running", "done", "raised", "cancelled"},
                 rows : SUBSET Events]]
        /\ buffers'[k] = {}
        /\ \A l \in Keys \ {k} : buffers'[l] = buffers[l]
        /\ task'[f] = "writing"
        /\ \A g \in Flushers \ {f} : task'[g] = task[g] /\ job'[g] = job[g]
        /\ Buffered' = Buffered \ buffers[k]
        /\ InJobs' = InJobs \cup buffers[k]
        /\ JobsMatchTasks'
        /\ JobsApart'
    <3>1. buffers[k] \cap InJobs = {}
      BY <2>2
    <3> QED
      BY <1>1, <2>1, <3>1, FlushMoves
  <2>4. /\ entries' \subseteq Keys
        /\ keys' \in [Flushers -> SUBSET Keys]
        /\ keys'[f] = listed \ (S \cup {k})
        /\ \A g \in Flushers \ {f} : keys'[g] = keys[g]
    BY <1>1, <2>1 DEF TypeOK
  <2>5. BuffersByKey'
    BY <1>1, <2>1, <2>3 DEF BuffersByKey
  <2>6. /\ \A l \in Keys : buffers[l] \subseteq buffers'[l] \cup InJobs'
        /\ InJobs \subseteq InJobs'
    BY <2>3
  <2>7. ASSUME NEW l \in listed
        PROVE  buffers[l] \subseteq InJobs' \cup UNION {buffers'[m] : m \in keys'[f]}
    <3>1. CASE l = k
      BY <2>3, <3>1
    <3>2. CASE l \in S
      BY <3>2
    <3>3. CASE l # k /\ l \notin S
      BY <2>3, <2>4, <3>3
    <3> QED
      BY <3>1, <3>2, <3>3
  <2>8. UNION {buffers[l] : l \in listed}
          \subseteq InJobs' \cup UNION {buffers'[l] : l \in keys'[f]}
    BY <2>7
  <2> QED
    BY <2>2, <2>3, <2>4, <2>5, <2>6, <2>8
<1>2. CASE /\ full = {}
           /\ task' = [task EXCEPT ![f] = next]
           /\ keys' = [keys EXCEPT ![f] = {}]
           /\ entries' = entries \cup listed
           /\ job' = [job EXCEPT ![f] = NoJob]
           /\ UNCHANGED buffers
  <2>1. /\ task' \in [Flushers -> {"off", "waiting", "writing", "closing", "dead"}]
        /\ keys' \in [Flushers -> SUBSET Keys]
        /\ entries' \subseteq Keys
        /\ task'[f] = next /\ keys'[f] = {}
        /\ \A g \in Flushers \ {f} : task'[g] = task[g] /\ keys'[g] = keys[g]
    BY <1>2 DEF TypeOK
  <2>2. /\ job' \in [Flushers ->
                [state : {"none", "queued", "running", "done", "raised", "cancelled"},
                 rows : SUBSET Events]]
        /\ job'[f] = [state |-> "none", rows |-> {}]
        /\ \A g \in Flushers \ {f} : job'[g] = job[g]
    BY <1>2 DEF TypeOK, NoJob
  <2>3. \A g \in Flushers : job'[g].rows = job[g].rows
    <3> SUFFICES ASSUME NEW g \in Flushers PROVE job'[g].rows = job[g].rows
      OBVIOUS
    <3>1. CASE g = f
      <4>1. job'[f].rows = {}
        BY <2>2
      <4> QED BY <3>1, <4>1
    <3>2. CASE g # f
      <4>1. job'[g] = job[g]
        BY <2>2, <3>2
      <4> QED BY <4>1
    <3> QED BY <3>1, <3>2
  <2>4. InJobs' = InJobs /\ JobsApart'
    BY <2>3 DEF InJobs, JobsApart
  <2>5. JobsMatchTasks'
    BY <2>1, <2>2 DEF JobsMatchTasks
  <2>6. Buffered' = Buffered /\ BuffersByKey' /\ buffers' \in [Keys -> SUBSET Events]
    BY <1>2 DEF Buffered, BuffersByKey, TypeOK
  <2>7. UNION {buffers[k] : k \in listed} = {}
    BY <1>2
  <2> QED
    BY <1>2, <2>1, <2>2, <2>4, <2>5, <2>6, <2>7
<1> QED
  BY <1>1, <1>2 DEF FlushAll

-----------------------------------------------------------------------------
(* Every step preserves the invariant and loses no event.                   *)
Keeps == IInv' /\ Published \subseteq Published'

(* Steps that move no event: what they do to flags, tasks and the states of *)
(* jobs does not matter to the places.                                      *)
LEMMA SamePlaces ==
    ASSUME IInv, UNCHANGED <<queue, buffers, entries, written, dropped, failed>>,
           \A f \in Flushers : job'[f].rows = job[f].rows
    PROVE  /\ BuffersByKey' /\ QueueInjective' /\ JobsApart'
           /\ PlacesApart' /\ WrittenOnce'
           /\ InJobs' = InJobs /\ OnDisk' = OnDisk
           /\ Published' = Published
<1>1. /\ InJobs' = InJobs /\ OnDisk' = OnDisk
      /\ InQueue' = InQueue /\ Buffered' = Buffered
  BY DEF InJobs, OnDisk, InQueue, Buffered
<1>2. BuffersByKey' /\ QueueInjective' /\ JobsApart' /\ WrittenOnce'
  BY DEF IInv, BuffersByKey, QueueInjective, JobsApart, WrittenOnce
<1> QED
  BY <1>1, <1>2 DEF IInv, PlacesApart, Published

LEMMA QuietSteps ==
    ASSUME IInv,
           \/ BusTimeout \/ BusResume \/ ShutdownRequested \/ StopIngestion
           \/ StopEnds \/ Kill \/ UNCHANGED vars
           \/ \E f \in Flushers : StartJob(f)
           \/ /\ Alive /\ job["periodic"].state = "raised"
              /\ task' = [task EXCEPT !["periodic"] = "dead"]
              /\ job' = [job EXCEPT !["periodic"] = NoJob]
              /\ keys' = [keys EXCEPT !["periodic"] = {}]
              /\ UNCHANGED <<flags, queue, buffers, entries, written, dropped, failed, atStop>>
           \/ /\ process = "stopping" /\ job["stop"].state = "raised"
              /\ Close("failed", job)
              /\ UNCHANGED <<producing, busRunning, writerRunning, queue, buffers, entries,
                             task, keys, written, dropped, failed, atStop>>
    PROVE  Keeps
<1> USE DEF IInv, TypeOK, NoJob, Flushers
<1>1. /\ UNCHANGED <<queue, buffers, entries, written, dropped, failed, atStop>>
      /\ \A k \in Keys : buffers'[k] = buffers[k]
  BY DEF BusTimeout, BusResume, ShutdownRequested, StopIngestion, StopEnds, Kill,
         StartJob, vars, flags, memory
<1>2. /\ process' \in {"running", "stopping", "exited", "failed", "killed"}
      /\ {producing, busRunning, writerRunning}' \subseteq BOOLEAN
  BY DEF BusTimeout, BusResume, ShutdownRequested, StopIngestion, StopEnds, Kill,
         StartJob, vars, flags, Close
<1>3. /\ task' \in [Flushers -> {"off", "waiting", "writing", "closing", "dead"}]
      /\ keys' \in [Flushers -> SUBSET Keys]
      /\ keys'["stop"] = keys["stop"] /\ task'["stop"] = task["stop"]
      /\ \A f \in Flushers : task[f] # "writing" => task'[f] # "writing"
  BY DEF BusTimeout, BusResume, ShutdownRequested, StopIngestion, StopEnds, Kill,
         StartJob, vars, flags, LoopNext
<1>4. /\ job' \in [Flushers ->
            [state : {"none", "queued", "running", "done", "raised", "cancelled"},
             rows : SUBSET Events]]
      /\ \A f \in Flushers : job'[f].rows = job[f].rows
      /\ \A f \in Flushers :
            job'[f].state \in {"done", "raised"} => job[f].state \in {"done", "raised"}
      /\ \A f \in Flushers : job[f].state = "none" => job'[f].state = "none"
      /\ \A f \in Flushers :
            job'[f].state = "none" => job[f].state \in {"none", "done", "raised"}
  <2>1. CASE UNCHANGED job
    BY <2>1
  <2>2. CASE job' = [f \in Flushers |-> IF job[f].state = "queued"
                        THEN [job[f] EXCEPT !.state = "cancelled"] ELSE job[f]]
    BY <2>2
  <2>3. CASE \E f \in Flushers : job[f].state = "queued"
                                 /\ job' = [job EXCEPT ![f].state = "running"]
    <3>1. PICK f \in Flushers : job[f].state = "queued"
                                /\ job' = [job EXCEPT ![f].state = "running"]
      BY <2>3
    <3>2. /\ job'[f] = [state |-> "running", rows |-> job[f].rows]
          /\ \A g \in Flushers \ {f} : job'[g] = job[g]
      BY <3>1
    <3> QED
      BY <3>1, <3>2
  <2>4. CASE \E f \in Flushers : job[f].state \in {"done", "raised"}
                                 /\ job' = [job EXCEPT ![f] = NoJob]
    <3>1. PICK f \in Flushers : job[f].state \in {"done", "raised"}
                                /\ job' = [job EXCEPT ![f] = NoJob]
      BY <2>4
    <3>2. /\ job'[f] = [state |-> "none", rows |-> {}]
          /\ \A g \in Flushers \ {f} : job'[g] = job[g]
      BY <3>1
    <3>3. job[f].rows = {}
      BY <3>1 DEF JobsMatchTasks
    <3> QED
      BY <3>1, <3>2, <3>3
  <2> QED
    BY <2>1, <2>2, <2>3, <2>4 DEF BusTimeout, BusResume, ShutdownRequested, StopIngestion,
         StopEnds, Kill, StartJob, vars, flags, memory, Close
<1>5. \A f \in Flushers : task'[f] # "writing" => job'[f].state = "none"
  BY <1>3, <1>4 DEF JobsMatchTasks,
         BusTimeout, BusResume, ShutdownRequested, StopIngestion, StopEnds, Kill,
         StartJob, vars, flags, memory
<1>6. JobsMatchTasks'
  BY <1>4, <1>5 DEF JobsMatchTasks
<1>7. process' = "exited" => task["stop"] = "closing"
  BY DEF BusTimeout, BusResume, ShutdownRequested, StopIngestion, StopEnds, Kill,
         StartJob, vars, flags, Close, StopVisits
<1>8. /\ BuffersByKey' /\ QueueInjective' /\ JobsApart' /\ PlacesApart' /\ WrittenOnce'
      /\ InJobs' = InJobs /\ OnDisk' = OnDisk
      /\ Published' = Published
  BY <1>1, <1>4, SamePlaces
<1>9. StopVisits'
  BY <1>1, <1>3, <1>7, <1>8 DEF StopVisits
<1> QED
  BY <1>1, <1>2, <1>3, <1>4, <1>6, <1>8, <1>9 DEF Keeps

LEMMA PublishStep ==
    ASSUME IInv, NEW e \in Events, Publish(e)
    PROVE  Keeps
<1> USE DEF IInv
<1>1. /\ e \notin Published
      /\ UNCHANGED <<process, producing, busRunning, writerRunning, buffers, entries, job,
                     task, keys, written, failed, atStop>>
  BY DEF Publish, flags
<1>2. /\ Buffered' = Buffered /\ InJobs' = InJobs /\ OnDisk' = OnDisk
  BY <1>1 DEF Buffered, InJobs, OnDisk
<1>3. /\ TypeOK' /\ QueueInjective'
      /\ \/ InQueue' = InQueue \cup {e} /\ dropped' = dropped
         \/ InQueue' = InQueue /\ dropped' = dropped \cup {e}
  <2>1. CASE queue' = Append(queue, e) /\ UNCHANGED dropped
    <3>1. queue' \in Seq(Events) /\ QueueInjective' /\ InQueue' = InQueue \cup {e}
      BY <1>1, <2>1, AppendToQueue DEF TypeOK, Published
    <3> QED
      BY <1>1, <2>1, <3>1 DEF TypeOK
  <2>2. CASE dropped' = dropped \cup {e} /\ UNCHANGED queue
    BY <1>1, <2>2 DEF TypeOK, QueueInjective, InQueue
  <2> QED
    BY <2>1, <2>2 DEF Publish
<1>4. PlacesApart' /\ Published \subseteq Published'
  BY <1>1, <1>2, <1>3 DEF PlacesApart, Apart, Published
<1>5. JobsMatchTasks' /\ BuffersByKey' /\ JobsApart' /\ WrittenOnce'
  BY <1>1 DEF JobsMatchTasks, BuffersByKey, JobsApart, WrittenOnce
<1>6. StopVisits'
  BY <1>1, <1>2 DEF StopVisits
<1> QED
  BY <1>3, <1>4, <1>5, <1>6 DEF Keeps

LEMMA DispatchStep ==
    ASSUME IInv, BusDispatch
    PROVE  Keeps
<1> USE DEF IInv
<1> DEFINE e == Head(queue)
           k == Key[e]
           full == buffers[k] \cup {e}
<1>1. /\ UNCHANGED <<process, producing, busRunning, writerRunning, keys, written,
                     dropped, failed, atStop>>
      /\ task["bus"] = "waiting" /\ queue # << >> /\ queue' = Tail(queue)
  BY DEF BusDispatch, flags
<1>2. /\ queue' \in Seq(Events) /\ QueueInjective'
      /\ e \in InQueue /\ InQueue' = InQueue \ {e}
  BY <1>1, TakeFromQueue DEF TypeOK
<1>3. e \in Events /\ k \in Keys
  BY <1>1 DEF TypeOK, Keys
<1>4. /\ full \in SUBSET Events /\ buffers[k] \subseteq Buffered
  BY <1>3 DEF TypeOK, Buffered
<1>5. "bus" \in Flushers /\ job["bus"].rows = {}
  BY <1>1 DEF JobsMatchTasks, Flushers
<1>6. OnDisk' = OnDisk /\ WrittenOnce'
  BY <1>1 DEF OnDisk, WrittenOnce
<1>7. CASE FlushBuffer("bus", k, full) /\ entries' = entries \ {k}
  <2>1. full \cap InJobs = {}
    BY <1>2, <1>4 DEF PlacesApart, Apart
  <2>2. /\ buffers' \in [Keys -> SUBSET Events]
        /\ task' \in [Flushers -> {"off", "waiting", "writing", "closing", "dead"}]
        /\ job' \in [Flushers ->
              [state : {"none", "queued", "running", "done", "raised", "cancelled"},
               rows : SUBSET Events]]
        /\ buffers'[k] = {}
        /\ \A l \in Keys \ {k} : buffers'[l] = buffers[l]
        /\ task'["stop"] = task["stop"]
        /\ Buffered' = Buffered \ buffers[k]
        /\ InJobs' = InJobs \cup full
        /\ JobsMatchTasks' /\ JobsApart'
    <3> HIDE DEF k, full
    <3> QED
      BY <1>3, <1>4, <1>5, <1>7, <2>1, FlushMoves DEF full, Flushers
  <2>3. TypeOK' /\ BuffersByKey'
    BY <1>1, <1>2, <1>7, <2>2 DEF TypeOK, BuffersByKey
  <2>4. PlacesApart' /\ Published \subseteq Published'
    BY <1>1, <1>2, <1>4, <1>6, <2>2 DEF PlacesApart, Apart, Published
  <2>5. UNION {buffers[l] : l \in keys["stop"]}
          \subseteq InJobs' \cup UNION {buffers'[l] : l \in keys'["stop"]}
    <3>1. ASSUME NEW l \in keys["stop"] PROVE buffers[l] \subseteq buffers'[l] \cup InJobs'
      <4>1. l \in Keys
        BY DEF TypeOK, Flushers
      <4> QED
        BY <2>2, <4>1
    <3> QED
      BY <1>1, <3>1
  <2>6. StopVisits'
    BY <1>1, <1>6, <2>2, <2>5 DEF StopVisits
  <2> QED
    BY <1>2, <1>6, <2>2, <2>3, <2>4, <2>6 DEF Keeps
<1>8. CASE /\ buffers' = [buffers EXCEPT ![k] = full]
           /\ entries' = entries \cup {k}
           /\ task' = [task EXCEPT !["bus"] = LoopNext("bus")]
           /\ UNCHANGED job
  <2>1. /\ buffers' \in [Keys -> SUBSET Events]
        /\ buffers'[k] = full
        /\ \A l \in Keys \ {k} : buffers'[l] = buffers[l]
    BY <1>3, <1>4, <1>8 DEF TypeOK
  <2>2. /\ task' \in [Flushers -> {"off", "waiting", "writing", "closing", "dead"}]
        /\ task'["bus"] # "writing" /\ \A f \in Flushers \ {"bus"} : task'[f] = task[f]
    BY <1>5, <1>8 DEF TypeOK, LoopNext
  <2>3. InJobs' = InJobs
    BY <1>8 DEF InJobs
  <2>4. Buffered' = Buffered \cup {e}
    <3>1. ASSUME NEW x PROVE x \in Buffered <=> \E l \in Keys : x \in buffers[l]
      BY DEF Buffered
    <3>2. ASSUME NEW x PROVE x \in Buffered' <=> \E l \in Keys : x \in buffers'[l]
      BY DEF Buffered
    <3> QED
      BY <1>3, <2>1, <3>1, <3>2
  <2>5. TypeOK'
    BY <1>1, <1>2, <1>3, <1>8, <2>1, <2>2 DEF TypeOK
  <2>6. BuffersByKey' /\ JobsApart'
    BY <1>3, <1>8, <2>1 DEF BuffersByKey, JobsApart
  <2>7. JobsMatchTasks'
    BY <1>1, <1>5, <1>8, <2>2 DEF JobsMatchTasks
  <2>8. PlacesApart' /\ Published \subseteq Published'
    BY <1>1, <1>2, <1>6, <2>3, <2>4 DEF PlacesApart, Apart, Published
  <2>9. UNION {buffers[l] : l \in keys["stop"]}
          \subseteq UNION {buffers'[l] : l \in keys'["stop"]}
    <3>1. ASSUME NEW l \in keys["stop"] PROVE buffers[l] \subseteq buffers'[l]
      <4>1. l \in Keys
        BY DEF TypeOK, Flushers
      <4> QED
        BY <2>1, <4>1
    <3> QED
      BY <1>1, <3>1
  <2>10. StopVisits'
    BY <1>1, <1>6, <2>2, <2>3, <2>9 DEF StopVisits, Flushers
  <2> QED
    BY <1>2, <1>6, <2>5, <2>6, <2>7, <2>8, <2>10 DEF Keeps
<1> QED
  BY <1>7, <1>8 DEF BusDispatch

(* flush_all by one of its callers: what it adds to the frame is the same.  *)
LEMMA FlushKeeps ==
    ASSUME IInv, NEW f \in Flushers, job[f].rows = {},
           NEW listed \in SUBSET Keys, NEW next \in {"off", "waiting", "closing"},
           FlushAll(f, listed, next),
           UNCHANGED <<queue, written, dropped, failed>>,
           {busRunning, writerRunning, producing}' \subseteq BOOLEAN,
           process' = process, atStop' \subseteq Events,
           StopVisits'
    PROVE  Keeps
<1> USE DEF IInv
<1>1. Buffered \cap InJobs = {}
  BY DEF PlacesApart, Apart
<1>2. /\ buffers' \in [Keys -> SUBSET Events]
      /\ entries' \subseteq Keys
      /\ task' \in [Flushers -> {"off", "waiting", "writing", "closing", "dead"}]
      /\ keys' \in [Flushers -> SUBSET Keys]
      /\ job' \in [Flushers ->
            [state : {"none", "queued", "running", "done", "raised", "cancelled"},
             rows : SUBSET Events]]
      /\ JobsMatchTasks' /\ BuffersByKey' /\ JobsApart'
      /\ Buffered' \cup InJobs' = Buffered \cup InJobs
      /\ Buffered' \cap InJobs' = {}
  BY <1>1, FlushAllKeeps
<1>3. TypeOK'
  BY <1>2 DEF TypeOK
<1>4. /\ InQueue' = InQueue /\ OnDisk' = OnDisk
      /\ QueueInjective' /\ WrittenOnce'
  BY DEF InQueue, OnDisk, QueueInjective, WrittenOnce
<1>5. PlacesApart' /\ Published' = Published
  BY <1>2, <1>4 DEF PlacesApart, Apart, Published
<1> QED
  BY <1>2, <1>3, <1>4, <1>5 DEF Keeps

LEMMA PeriodicStep ==
    ASSUME IInv, PeriodicFlush \/ PeriodicResume
    PROVE  Keeps
<1> USE DEF IInv, Flushers
<1>1. CASE /\ Alive /\ job["periodic"].state = "raised"
           /\ task' = [task EXCEPT !["periodic"] = "dead"]
           /\ job' = [job EXCEPT !["periodic"] = NoJob]
           /\ keys' = [keys EXCEPT !["periodic"] = {}]
           /\ UNCHANGED <<flags, queue, buffers, entries, written, dropped, failed, atStop>>
  BY <1>1, QuietSteps
<1>2. ASSUME NEW listed \in SUBSET Keys, job["periodic"].rows = {},
             FlushAll("periodic", listed, LoopNext("periodic")),
             UNCHANGED <<flags, queue, written, dropped, failed, atStop>>
      PROVE  Keeps
  <2>1. LoopNext("periodic") \in {"off", "waiting", "closing"}
    BY DEF LoopNext
  <2>2. UNCHANGED <<process, producing, busRunning, writerRunning, queue, written,
                    dropped, failed, atStop>>
    BY <1>2 DEF flags
  <2>3. Buffered \cap InJobs = {} /\ OnDisk' = OnDisk
    BY <2>2 DEF PlacesApart, Apart, OnDisk
  <2>4. /\ task'["stop"] = task["stop"] /\ keys'["stop"] = keys["stop"]
        /\ \A k \in Keys : buffers[k] \subseteq buffers'[k] \cup InJobs'
        /\ InJobs \subseteq InJobs'
    <3> HIDE DEF Flushers
    <3>1. /\ \A g \in Flushers \ {"periodic"} : task'[g] = task[g] /\ keys'[g] = keys[g]
          /\ \A k \in Keys : buffers[k] \subseteq buffers'[k] \cup InJobs'
          /\ InJobs \subseteq InJobs'
      <4>1. "periodic" \in Flushers
        BY DEF Flushers
      <4> QED
        BY <1>2, <2>1, <2>3, <4>1, FlushAllKeeps
    <3> QED
      BY <3>1 DEF Flushers
  <2>5. UNION {buffers[l] : l \in keys["stop"]}
          \subseteq InJobs' \cup UNION {buffers'[l] : l \in keys'["stop"]}
    <3>1. keys["stop"] \subseteq Keys
      BY DEF TypeOK
    <3> QED
      BY <2>4, <3>1
  <2>6. StopVisits'
    BY <2>2, <2>3, <2>4, <2>5 DEF StopVisits
  <2>7. /\ atStop' \subseteq Events
        /\ {busRunning, writerRunning, producing}' \subseteq BOOLEAN
    BY <2>2 DEF TypeOK
  <2> QED
    BY <1>2, <2>1, <2>2, <2>6, <2>7, FlushKeeps
<1>3. CASE PeriodicFlush
  <2>1. job["periodic"].rows = {} /\ Listed \in SUBSET Keys
    BY <1>3 DEF PeriodicFlush, JobsMatchTasks, Listed, TypeOK
  <2> QED
    BY <1>2, <1>3, <2>1 DEF PeriodicFlush
<1>4. CASE /\ job["periodic"].state = "done"
           /\ FlushAll("periodic", keys["periodic"], LoopNext("periodic"))
           /\ UNCHANGED <<flags, queue, written, dropped, failed, atStop>>
  <2>1. job["periodic"].rows = {} /\ keys["periodic"] \in SUBSET Keys
    BY <1>4 DEF JobsMatchTasks, TypeOK
  <2> QED
    BY <1>2, <1>4, <2>1
<1> QED
  BY <1>1, <1>3, <1>4 DEF PeriodicResume

LEMMA StopFlushStep ==
    ASSUME IInv, StopWriter \/ StopResume
    PROVE  Keeps
<1> USE DEF IInv, Flushers
<1>1. CASE /\ process = "stopping" /\ job["stop"].state = "raised"
           /\ Close("failed", job)
           /\ UNCHANGED <<producing, busRunning, writerRunning, queue, buffers, entries,
                          task, keys, written, dropped, failed, atStop>>
  BY <1>1, QuietSteps
<1>2. ASSUME NEW listed \in SUBSET Keys, job["stop"].rows = {},
             process = "stopping", FlushAll("stop", listed, "closing"),
             UNCHANGED <<process, producing, queue, written, dropped, failed>>,
             {busRunning, writerRunning}' \subseteq BOOLEAN,
             atStop' \subseteq OnDisk \cup failed \cup InJobs
                                 \cup UNION {buffers[k] : k \in listed},
             atStop' \subseteq Events
      PROVE  Keeps
  <2>1. Buffered \cap InJobs = {} /\ OnDisk' = OnDisk
    BY <1>2 DEF PlacesApart, Apart, OnDisk
  <2>2. /\ task'["stop"] = "writing" \/ (task'["stop"] = "closing" /\ keys'["stop"] = {})
        /\ InJobs \subseteq InJobs'
        /\ UNION {buffers[k] : k \in listed}
             \subseteq InJobs' \cup UNION {buffers'[k] : k \in keys'["stop"]}
    <3>1. "stop" \in Flushers
      BY DEF Flushers
    <3> HIDE DEF Flushers
    <3> QED
      BY <1>2, <2>1, <3>1, FlushAllKeeps
  <2>3. StopVisits'
    BY <1>2, <2>1, <2>2 DEF StopVisits
  <2>4. {busRunning, writerRunning, producing}' \subseteq BOOLEAN
    BY <1>2 DEF TypeOK
  <2> QED
    BY <1>2, <2>3, <2>4, FlushKeeps
<1>3. CASE StopWriter
  <2>1. /\ job["stop"].rows = {} /\ Listed \in SUBSET Keys /\ process = "stopping"
        /\ atStop' = Buffered /\ Buffered \subseteq Events
    BY <1>3 DEF StopWriter, WriterMayStop, JobsMatchTasks, Listed, TypeOK, Buffered
  <2>2. Buffered \subseteq UNION {buffers[k] : k \in Listed}
    BY DEF BuffersByKey, Buffered, Listed
  <2>3. {busRunning, writerRunning}' \subseteq BOOLEAN
    BY <1>3 DEF StopWriter
  <2> QED
    BY <1>2, <1>3, <2>1, <2>2, <2>3 DEF StopWriter
<1>4. CASE /\ process = "stopping" /\ job["stop"].state = "done"
           /\ FlushAll("stop", keys["stop"], "closing")
           /\ UNCHANGED <<process, producing, busRunning, writerRunning, queue, written,
                          dropped, failed, atStop>>
  <2>1. job["stop"].rows = {} /\ keys["stop"] \in SUBSET Keys
    BY <1>4 DEF JobsMatchTasks, TypeOK
  <2>2. /\ atStop' \subseteq OnDisk \cup failed \cup InJobs
                               \cup UNION {buffers[k] : k \in keys["stop"]}
        /\ atStop' \subseteq Events
        /\ {busRunning, writerRunning}' \subseteq BOOLEAN
    BY <1>4 DEF StopVisits, TypeOK
  <2> QED
    BY <1>2, <1>4, <2>1, <2>2
<1> QED
  BY <1>1, <1>3, <1>4 DEF StopResume

LEMMA WriteParquetStep ==
    ASSUME IInv, NEW f \in Flushers, WriteParquet(f)
    PROVE  Keeps
<1> USE DEF IInv
<1>1. PICK h \in {Hour[e] : e \in job[f].rows} :
          LET chunk == {e \in job[f].rows : Hour[e] = h} IN
          /\ written' = [e \in Events |-> IF e \in chunk THEN written[e] + 1 ELSE written[e]]
          /\ job' = [job EXCEPT ![f] =
                        [state |-> IF chunk = job[f].rows THEN "done" ELSE "running",
                         rows |-> job[f].rows \ chunk]]
  BY DEF WriteParquet
<1> DEFINE chunk == {e \in job[f].rows : Hour[e] = h}
<1>2. /\ job[f].state = "running"
      /\ UNCHANGED <<process, producing, busRunning, writerRunning, queue, buffers, entries,
                     task, keys, dropped, failed, atStop>>
  BY DEF WriteParquet, flags
<1>3. /\ job' \in [Flushers ->
            [state : {"none", "queued", "running", "done", "raised", "cancelled"},
             rows : SUBSET Events]]
      /\ job'[f].rows = job[f].rows \ chunk
      /\ job'[f].state = IF chunk = job[f].rows THEN "done" ELSE "running"
      /\ \A g \in Flushers \ {f} : job'[g] = job[g]
  BY <1>1 DEF TypeOK
<1>4. chunk \subseteq InJobs /\ chunk \subseteq Events
  BY DEF InJobs, TypeOK
<1>5. \A e \in chunk : written[e] = 0
  BY <1>4 DEF PlacesApart, Apart, OnDisk, TypeOK
<1>6. /\ written' \in [Events -> Nat] /\ WrittenOnce'
      /\ OnDisk' = OnDisk \cup chunk
  <2> HIDE DEF chunk
  <2>1. written' = [e \in Events |-> IF e \in chunk THEN written[e] + 1 ELSE written[e]]
    BY <1>1 DEF chunk
  <2> QED
    BY <1>4, <1>5, <2>1 DEF TypeOK, WrittenOnce, OnDisk
<1>7. InJobs' = InJobs \ chunk
  <2>1. ASSUME NEW e PROVE e \in InJobs <=> \E g \in Flushers : e \in job[g].rows
    BY DEF InJobs
  <2>2. ASSUME NEW e PROVE e \in InJobs' <=> \E g \in Flushers : e \in job'[g].rows
    BY DEF InJobs
  <2>3. \A g \in Flushers \ {f} : job[g].rows \cap chunk = {}
    BY DEF JobsApart
  <2> QED
    BY <1>3, <2>1, <2>2, <2>3
<1>8. JobsApart'
  BY <1>3 DEF JobsApart
<1>9. JobsMatchTasks'
  BY <1>2, <1>3 DEF JobsMatchTasks
<1>10. TypeOK' /\ BuffersByKey' /\ QueueInjective'
  BY <1>2, <1>3, <1>6 DEF TypeOK, BuffersByKey, QueueInjective
<1>11. InQueue' = InQueue /\ Buffered' = Buffered
  BY <1>2 DEF InQueue, Buffered
<1>12. PlacesApart' /\ Published \subseteq Published'
  BY <1>2, <1>4, <1>6, <1>7, <1>11 DEF PlacesApart, Apart, Published
<1>13. StopVisits'
  BY <1>2, <1>6, <1>7 DEF StopVisits
<1> QED
  BY <1>6, <1>8, <1>9, <1>10, <1>12, <1>13 DEF Keeps

LEMMA WriteFailsStep ==
    ASSUME IInv, NEW f \in Flushers, WriteFails(f)
    PROVE  Keeps
<1> USE DEF IInv
<1>1. /\ job[f].state = "running"
      /\ failed' = failed \cup job[f].rows
      /\ UNCHANGED <<process, producing, busRunning, writerRunning, queue, buffers, entries,
                     task, keys, written, dropped, atStop>>
  BY DEF WriteFails, flags
<1>2. /\ job' \in [Flushers ->
            [state : {"none", "queued", "running", "done", "raised", "cancelled"},
             rows : SUBSET Events]]
      /\ job'[f] = [state |-> "raised", rows |-> {}]
      /\ \A g \in Flushers \ {f} : job'[g] = job[g]
  BY DEF WriteFails, TypeOK
<1>3. job[f].rows \subseteq InJobs /\ job[f].rows \subseteq Events
  BY DEF InJobs, TypeOK
<1>4. InJobs' = InJobs \ job[f].rows
  <2>1. ASSUME NEW e PROVE e \in InJobs <=> \E g \in Flushers : e \in job[g].rows
    BY DEF InJobs
  <2>2. ASSUME NEW e PROVE e \in InJobs' <=> \E g \in Flushers : e \in job'[g].rows
    BY DEF InJobs
  <2> QED
    BY <1>2, <2>1, <2>2 DEF JobsApart
<1>5. JobsApart' /\ JobsMatchTasks'
  BY <1>1, <1>2 DEF JobsApart, JobsMatchTasks
<1>6. TypeOK' /\ BuffersByKey' /\ QueueInjective' /\ WrittenOnce'
  BY <1>1, <1>2, <1>3 DEF TypeOK, BuffersByKey, QueueInjective, WrittenOnce
<1>7. InQueue' = InQueue /\ Buffered' = Buffered /\ OnDisk' = OnDisk
  BY <1>1 DEF InQueue, Buffered, OnDisk
<1>8. PlacesApart' /\ Published \subseteq Published'
  BY <1>1, <1>3, <1>4, <1>7 DEF PlacesApart, Apart, Published
<1>9. StopVisits'
  BY <1>1, <1>3, <1>4, <1>7 DEF StopVisits
<1> QED
  BY <1>5, <1>6, <1>8, <1>9 DEF Keeps

-----------------------------------------------------------------------------
LEMMA InitHolds == Init => IInv
<1> SUFFICES ASSUME Init PROVE IInv
  OBVIOUS
<1> USE DEF Init, NoJob, Flushers
<1>1. /\ InQueue = {} /\ Buffered = {} /\ InJobs = {} /\ OnDisk = {}
  BY DEF InQueue, Buffered, InJobs, OnDisk
<1>2. TypeOK
  BY DEF TypeOK
<1>3. JobsMatchTasks /\ BuffersByKey /\ QueueInjective /\ JobsApart /\ WrittenOnce
  BY DEF JobsMatchTasks, BuffersByKey, QueueInjective, JobsApart, WrittenOnce
<1>4. PlacesApart
  BY <1>1 DEF PlacesApart, Apart
<1>5. StopVisits
  BY DEF StopVisits
<1> QED
  BY <1>2, <1>3, <1>4, <1>5 DEF IInv

LEMMA StepKeeps == IInv /\ [Next]_vars => Keeps
  BY QuietSteps, PublishStep, DispatchStep, PeriodicStep, StopFlushStep,
     WriteParquetStep, WriteFailsStep
  DEF Next, StopStep

LEMMA Inductive == Spec => []IInv
<1>1. IInv /\ [Next]_vars => IInv'
  BY StepKeeps DEF Keeps
<1> QED
  BY <1>1, InitHolds, PTL DEF Spec

(* An event is in one place: although three tasks flush the same buffers,   *)
(* no row is written twice, and none is both on disk and still waiting.     *)
THEOREM EventsInOnePlace == Spec => []OnePlace
<1>1. IInv => OnePlace
  <2> SUFFICES ASSUME IInv PROVE OnePlace
    OBVIOUS
  <2> DEFINE places == <<InQueue, Buffered, InJobs, OnDisk, dropped, failed>>
  <2>1. \A k, l \in Keys : k # l => buffers[k] \cap buffers[l] = {}
    BY DEF IInv, BuffersByKey
  <2>2. \A i, j \in 1..6 : i # j => places[i] \cap places[j] = {}
    BY DEF IInv, PlacesApart, Apart
  <2>3. DOMAIN places = 1..6
    OBVIOUS
  <2> QED
    BY <2>1, <2>2, <2>3 DEF IInv, OnePlace, WrittenOnce, QueueInjective, JobsApart
<1> QED
  BY <1>1, Inductive, PTL

(* No event vanishes between the queue, the buffers, the pool and the disk, *)
(* unless a full queue dropped it or the write that held it raised.         *)
THEOREM NoEventVanishes == Spec => NothingVanishes
<1>1. IInv /\ [Next]_vars => [Published \subseteq Published']_vars
  BY StepKeeps DEF Keeps
<1> QED
  BY <1>1, Inductive, PTL DEF Spec, NothingVanishes

(* When a shutdown has ended, everything the writer had buffered when it    *)
(* began is on disk, was lost by a write that raised or is still in the     *)
(* hands of the pool.                                                       *)
THEOREM ShutdownFlushes == Spec => []StopFlushes
<1>1. IInv => StopFlushes
  BY DEF IInv, StopVisits, StopFlushes
<1> QED
  BY <1>1, Inductive, PTL

=============================================================================
