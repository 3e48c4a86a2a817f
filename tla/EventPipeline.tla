---------------------------- MODULE EventPipeline ----------------------------
(***************************************************************************)
(* The raw-data path of the platform: the exchange clients publish into    *)
(* the EventBus (src/ingestion/event_bus.py), one loop hands each event to *)
(* the ParquetWriter (src/storage/parquet/writer.py), which buffers per    *)
(* partition key and writes chunk files on executor threads, and           *)
(* PlatformRunner.stop (src/core/runner.py) shuts all of it down.          *)
(*                                                                         *)
(* Three tasks flush buffers and interleave at every await: the bus loop   *)
(* when a buffer is full, the periodic loop, and the shutdown.             *)
(***************************************************************************)
EXTENDS Integers, FiniteSets, Sequences

CONSTANTS
    Events,      \* what the exchanges send; each event is published once
    Key,         \* [Events -> event_type/coin]: the buffer an event goes to
    Hour,        \* [Events -> the hour of its timestamp]: its partition
    MaxQueue,    \* EventBus max_queue_size
    FlushSize    \* ParquetWriter flush_size

Keys == {Key[e] : e \in Events}

ASSUME SizeAssumption ==
    /\ MaxQueue \in Nat \ {0}
    /\ FlushSize \in Nat \ {0}

(* The tasks that flush buffers.                                            *)
Flushers == {"bus", "periodic", "stop"}

VARIABLES
    process,     \* "running", "stopping", "exited", "failed" (stop raised), "killed"
    producing,   \* the exchange clients are running
    busRunning,  \* EventBus._running
    writerRunning, \* ParquetWriter._running
    queue,       \* EventBus._queue
    buffers,     \* [Keys -> set of events]: ParquetWriter._buffers ...
    entries,     \* ... and the keys that dict has, some with no event
    task,        \* [Flushers -> where the task is suspended]
    keys,        \* [Flushers -> keys flush_all has still to visit]
    job,         \* [Flushers -> the write it waits for]
    written,     \* [Events -> Nat]: how many rows on disk hold the event
    dropped,     \* the events publish threw away
    failed,      \* the events of writes that raised
    atStop       \* what the writer had buffered when its stop began

memory == <<queue, buffers, entries, job>>
flags == <<process, producing, busRunning, writerRunning>>
vars == <<flags, memory, task, keys, written, dropped, failed, atStop>>

(* A write job of the thread pool: queued until a thread is free, then      *)
(* running; rows are those not on disk yet.                                 *)
NoJob == [state |-> "none", rows |-> {}]

Init ==
    /\ process = "running"
    /\ producing = TRUE
    /\ busRunning = TRUE
    /\ writerRunning = TRUE
    /\ queue = << >>
    /\ buffers = [k \in Keys |-> {}]
    /\ entries = {}
    /\ task = [f \in Flushers |-> IF f = "stop" THEN "off" ELSE "waiting"]
    /\ keys = [f \in Flushers |-> {}]
    /\ job = [f \in Flushers |-> NoJob]
    /\ written = [e \in Events |-> 0]
    /\ dropped = {}
    /\ failed = {}
    /\ atStop = {}

Alive == process \in {"running", "stopping"}

InQueue == {queue[i] : i \in DOMAIN queue}
Buffered == UNION {buffers[k] : k \in Keys}
InJobs == UNION {job[f].rows : f \in Flushers}
OnDisk == {e \in Events : written[e] > 0}
Published == InQueue \cup Buffered \cup InJobs \cup OnDisk \cup dropped \cup failed

-----------------------------------------------------------------------------
(* EventBus.                                                                *)

Full == Len(queue) >= MaxQueue

(* publish: put_nowait, or drop when the queue is full.                     *)
Publish(e) ==
    /\ Alive /\ producing
    /\ e \notin Published
    /\ \/ ~Full /\ queue' = Append(queue, e) /\ UNCHANGED dropped
       \/ Full /\ dropped' = dropped \cup {e} /\ UNCHANGED queue
    /\ UNCHANGED <<flags, buffers, entries, job, task, keys, written, failed, atStop>>

(* Mutants of FlushBuffer: the buffer is cleared only after the write; the  *)
(* buffer is flushed before the new event is appended.                      *)
KeepBuffer(f, k, full) ==
    /\ buffers' = [buffers EXCEPT ![k] = full]
    /\ job' = [job EXCEPT ![f] = [state |-> "queued", rows |-> full]]
    /\ task' = [task EXCEPT ![f] = "writing"]
FlushBeforeAppend(f, k, full) ==
    /\ buffers' = [buffers EXCEPT ![k] = {}]
    /\ job' = [job EXCEPT ![f] = [state |-> "queued", rows |-> buffers[k]]]
    /\ task' = [task EXCEPT ![f] = "writing"]

(* _flush_buffer: the buffer is popped before its rows go to the pool.      *)
FlushBuffer(f, k, full) ==
    /\ buffers' = [buffers EXCEPT ![k] = {}]
    /\ job' = [job EXCEPT ![f] = [state |-> "queued", rows |-> full]]
    /\ task' = [task EXCEPT ![f] = "writing"]

(* Mutant of LoopNext: start flushes once instead of looping.               *)
FlushOnce(f) == IF f = "bus" /\ busRunning THEN "waiting" ELSE "off"

(* A loop that is through goes on while its flag is set.                    *)
LoopNext(f) ==
    IF (f = "bus" /\ busRunning) \/ (f = "periodic" /\ writerRunning)
    THEN "waiting" ELSE "off"

MustFlush(rows) == Cardinality(rows) >= FlushSize

(* One event leaves the queue and reaches ParquetWriter.handle_event, which *)
(* flushes its buffer when it is full; the loop awaits that write.  A loop  *)
(* that is already in get takes an event although _running is false.        *)
BusDispatch ==
    /\ Alive /\ task["bus"] = "waiting" /\ queue # << >>
    /\ LET k == Key[Head(queue)]
           full == buffers[k] \cup {Head(queue)}
       IN \/ /\ MustFlush(full)
             /\ FlushBuffer("bus", k, full)
             /\ entries' = entries \ {k}
          \/ /\ ~MustFlush(full)
             /\ buffers' = [buffers EXCEPT ![k] = full]
             /\ entries' = entries \cup {k}
             /\ task' = [task EXCEPT !["bus"] = LoopNext("bus")]
             /\ UNCHANGED job
    /\ queue' = Tail(queue)
    /\ UNCHANGED <<flags, keys, written, dropped, failed, atStop>>

(* The 1 s timeout of get: the loop condition is tested again.              *)
BusTimeout ==
    /\ Alive /\ task["bus"] = "waiting" /\ queue = << >>
    /\ ~busRunning
    /\ task' = [task EXCEPT !["bus"] = "off"]
    /\ UNCHANGED <<flags, memory, keys, written, dropped, failed, atStop>>

-----------------------------------------------------------------------------
(* ParquetWriter.                                                           *)

(* flush_all goes through the keys it listed, up to the first that has      *)
(* rows: the S before it are empty (and get an entry by being looked at).   *)
(* It is through, and goes on with the task's next state, when none has.    *)
FlushAll(f, listed, next) ==
    LET full == {k \in listed : buffers[k] # {}} IN
    \/ \E k \in full, S \in SUBSET (listed \ full) :
          /\ FlushBuffer(f, k, buffers[k])
          /\ keys' = [keys EXCEPT ![f] = listed \ (S \cup {k})]
          /\ entries' = (entries \cup S) \ {k}
    \/ /\ full = {}
       /\ task' = [task EXCEPT ![f] = next]
       /\ keys' = [keys EXCEPT ![f] = {}]
       /\ entries' = entries \cup listed
       /\ job' = [job EXCEPT ![f] = NoJob]
       /\ UNCHANGED buffers

(* Mutant of Listed: only the full buffers are flushed.                     *)
FullOnes == {k \in entries : Cardinality(buffers[k]) >= FlushSize}

(* The keys flush_all lists when it starts.                                 *)
Listed == entries

(* The periodic loop wakes up.                                              *)
PeriodicFlush ==
    /\ Alive /\ task["periodic"] = "waiting"
    /\ FlushAll("periodic", Listed, LoopNext("periodic"))
    /\ UNCHANGED <<flags, queue, written, dropped, failed, atStop>>

(* A thread of the pool takes a job.                                        *)
StartJob(f) ==
    /\ Alive /\ job[f].state = "queued"
    /\ job' = [job EXCEPT ![f].state = "running"]
    /\ UNCHANGED <<flags, queue, buffers, entries, task, keys, written, dropped, failed, atStop>>

(* _write_parquet: one new file per hour among the rows.                    *)
WriteParquet(f) ==
    /\ process # "killed" /\ job[f].state = "running"
    /\ \E h \in {Hour[e] : e \in job[f].rows} :
          LET chunk == {e \in job[f].rows : Hour[e] = h} IN
          /\ written' = [e \in Events |-> IF e \in chunk THEN written[e] + 1 ELSE written[e]]
          /\ job' = [job EXCEPT ![f] =
                        [state |-> IF chunk = job[f].rows THEN "done" ELSE "running",
                         rows |-> job[f].rows \ chunk]]
    /\ UNCHANGED <<flags, queue, buffers, entries, task, keys, dropped, failed, atStop>>

(* Writing a file raises: the rows not written yet are gone.                *)
WriteFails(f) ==
    /\ process # "killed" /\ job[f].state = "running"
    /\ failed' = failed \cup job[f].rows
    /\ job' = [job EXCEPT ![f] = [state |-> "raised", rows |-> {}]]
    /\ UNCHANGED <<flags, queue, buffers, entries, task, keys, written, dropped, atStop>>

(* The event loop resumes the bus loop.  _dispatch catches what the handler *)
(* raised.                                                                  *)
BusResume ==
    /\ Alive /\ job["bus"].state \in {"done", "raised"}
    /\ task' = [task EXCEPT !["bus"] = LoopNext("bus")]
    /\ job' = [job EXCEPT !["bus"] = NoJob]
    /\ UNCHANGED <<flags, queue, buffers, entries, keys, written, dropped, failed, atStop>>

(* It resumes the periodic loop, which goes on to its next key; nothing     *)
(* catches an exception there, so a failed write ends that task.            *)
PeriodicResume ==
    /\ Alive
    /\ \/ /\ job["periodic"].state = "done"
          /\ FlushAll("periodic", keys["periodic"], LoopNext("periodic"))
       \/ /\ job["periodic"].state = "raised"
          /\ task' = [task EXCEPT !["periodic"] = "dead"]
          /\ job' = [job EXCEPT !["periodic"] = NoJob]
          /\ keys' = [keys EXCEPT !["periodic"] = {}]
          /\ UNCHANGED <<buffers, entries>>
    /\ UNCHANGED <<flags, queue, written, dropped, failed, atStop>>

-----------------------------------------------------------------------------
(* PlatformRunner.stop.                                                     *)

(* SIGINT or SIGTERM.                                                       *)
ShutdownRequested ==
    /\ process = "running"
    /\ process' = "stopping"
    /\ UNCHANGED <<producing, busRunning, writerRunning, memory, task, keys,
                   written, dropped, failed, atStop>>

(* When the event loop closes, it cancels the futures its tasks await: a    *)
(* job no thread has taken yet never runs, one that runs is waited for.     *)
Close(end, jobs) ==
    /\ process' = end
    /\ job' = [f \in Flushers |-> IF jobs[f].state = "queued"
                                  THEN [jobs[f] EXCEPT !.state = "cancelled"] ELSE jobs[f]]

(* The exchange clients (and the services after them) stop, or one of these *)
(* stops raises and the rest of the shutdown does not happen.               *)
StopIngestion ==
    /\ process = "stopping" /\ producing
    /\ producing' = FALSE
    /\ \/ UNCHANGED <<process, job>>
       \/ Close("failed", job)
    /\ UNCHANGED <<busRunning, writerRunning, queue, buffers, entries, task, keys,
                   written, dropped, failed, atStop>>

(* Mutant of WriterMayStop: stop waits for the bus loop before telling it.  *)
JoinBusFirst ==
    /\ process = "stopping" /\ ~producing /\ task["stop"] = "off"
    /\ task["bus"] = "off"

(* Everything that stops before the bus has stopped.                        *)
WriterMayStop == process = "stopping" /\ ~producing /\ task["stop"] = "off"

(* event_bus.stop and parquet.stop have no await before the first write:    *)
(* the bus only learns that it should end, its queue stays as it is.        *)
StopWriter ==
    /\ WriterMayStop
    /\ busRunning' = FALSE
    /\ writerRunning' = FALSE
    /\ atStop' = Buffered
    /\ FlushAll("stop", Listed, "closing")
    /\ UNCHANGED <<process, producing, queue, written, dropped, failed>>

(* Its write returned: the next key; or it raised, and so does stop.        *)
StopResume ==
    /\ process = "stopping"
    /\ \/ /\ job["stop"].state = "done"
          /\ FlushAll("stop", keys["stop"], "closing")
          /\ UNCHANGED process
       \/ /\ job["stop"].state = "raised"
          /\ Close("failed", job)
          /\ UNCHANGED <<task, keys, buffers, entries>>
    /\ UNCHANGED <<producing, busRunning, writerRunning, queue, written, dropped,
                   failed, atStop>>

(* The database pool is closed, the tasks are cancelled, main returns.      *)
StopEnds ==
    /\ process = "stopping" /\ task["stop"] = "closing"
    /\ Close("exited", job)
    /\ UNCHANGED <<producing, busRunning, writerRunning, queue, buffers, entries,
                   task, keys, written, dropped, failed, atStop>>

Kill ==
    /\ Alive
    /\ process' = "killed"
    /\ UNCHANGED <<producing, busRunning, writerRunning, memory, task, keys,
                   written, dropped, failed, atStop>>

-----------------------------------------------------------------------------
StopStep == StopIngestion \/ StopWriter \/ StopResume \/ StopEnds

Next ==
    \/ \E e \in Events : Publish(e)
    \/ BusDispatch \/ BusTimeout \/ BusResume
    \/ PeriodicFlush \/ PeriodicResume
    \/ \E f \in Flushers : StartJob(f) \/ WriteParquet(f) \/ WriteFails(f)
    \/ ShutdownRequested \/ StopStep \/ Kill

Spec == Init /\ [][Next]_vars

(* The event loop runs every task that can go on, the periodic sleep ends,  *)
(* the pool's threads take and finish their jobs, and a shutdown that was   *)
(* requested goes on.  Publishing, signals and failures are not certain.    *)
Fairness ==
    /\ WF_vars(BusDispatch) /\ WF_vars(BusTimeout) /\ WF_vars(BusResume)
    /\ WF_vars(PeriodicFlush) /\ WF_vars(PeriodicResume)
    /\ \A f \in Flushers : WF_vars(StartJob(f)) /\ WF_vars(WriteParquet(f))
    /\ WF_vars(StopStep)

FairSpec == Spec /\ Fairness

-----------------------------------------------------------------------------
(* Safety.                                                                  *)

(* An event is in one place: although three tasks flush the same buffers,   *)
(* no row is written twice, and none is both on disk and still waiting.     *)
OnePlace ==
    /\ \A e \in Events : written[e] <= 1
    /\ \A i, j \in DOMAIN queue : queue[i] = queue[j] => i = j
    /\ \A f, g \in Flushers : f # g => job[f].rows \cap job[g].rows = {}
    /\ \A k, l \in Keys : k # l => buffers[k] \cap buffers[l] = {}
    /\ LET places == <<InQueue, Buffered, InJobs, OnDisk, dropped, failed>>
       IN \A i, j \in DOMAIN places : i # j => places[i] \cap places[j] = {}

(* No event vanishes between two places: what was published stays in the    *)
(* queue, a buffer or a write until it is on disk, or is counted as dropped *)
(* by a full queue or lost by a write that raised.                          *)
NothingVanishes == [][Published \subseteq Published']_vars

(* What the writer had buffered when its stop began has left the buffers by *)
(* the time stop returns, although the bus loop and the periodic loop still *)
(* run: it is on disk, its write raised, or its write is in the pool's hands*)
(* -- and lost only if no thread had taken that write when the loop closed. *)
StopFlushes ==
    process = "exited" => atStop \subseteq OnDisk \cup failed \cup InJobs

-----------------------------------------------------------------------------
(* Liveness.                                                                *)

(* While the platform runs, an event that was accepted is written or lost   *)
(* by a failed write; the exception is that an earlier failed write ended   *)
(* the periodic loop, after which a buffer that does not fill up stays.     *)
EventsDrain ==
    \A e \in Events :
        e \in InQueue \cup Buffered \cup InJobs
            ~> \/ e \in OnDisk \cup failed
               \/ process # "running"
               \/ task["periodic"] = "dead"

(* A shutdown that was requested comes to an end, whatever is in flight.    *)
ShutdownEnds == process = "stopping" ~> process \notin {"running", "stopping"}

=============================================================================
