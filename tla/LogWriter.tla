------------------------------ MODULE LogWriter ------------------------------
(***************************************************************************)
(* The write path of the logging plugin (plugins/logging): log entries     *)
(* built by PostLLMHook are sent to a bounded queue, directly or, if the   *)
(* request is traced, by Inject once its trace is complete; one batch      *)
(* writer stores them, in batches closed by their size or by a timer; and  *)
(* Cleanup takes the writer's work over, drains and closes the queue.      *)
(*                                                                         *)
(* An entry is in one place at a time.  The order of the queue and of a    *)
(* batch is left out: nothing depends on it.                               *)
(***************************************************************************)
EXTENDS Integers, FiniteSets

CONSTANTS
    Entries,     \* log entries
    Traced,      \* those of one traced request: its attempts and fallbacks
    Deferring,   \* those whose token usage arrives after the response
    Capacity,    \* WriteQueueCapacity
    MaxBatch,    \* MaxBatchSize
    Updaters     \* DeferredUsageConcurrency

ASSUME LogAssumption ==
    /\ IsFiniteSet(Entries)
    /\ Traced \subseteq Entries /\ Deferring \subseteq Entries
    /\ {Capacity, MaxBatch, Updaters} \subseteq Nat \ {0}

VARIABLES
    place,      \* where each entry is
    box,        \* the list under the trace in pendingLogsToInject: its number
    boxOf,      \* the list an entry was put into, or is being appended to
    inject,     \* Inject's progress, with the list it took
    deferred,   \* the deferred usage updaters
    stored,     \* entries in the log store
    counted,    \* entries droppedRequests counts
    writer,     \* the batch writer: in its select, in processBatch, or gone
    timer,      \* its timer's channel
    running,    \* its timerRunning
    closed,     \* the plugin takes no more entries
    cancelled,  \* batchCtx is done
    cleanup     \* Cleanup's progress

logVars == <<place, box, boxOf, inject, deferred, stored, counted, writer, timer, running,
          closed, cancelled, cleanup>>

traceVars == <<box, boxOf, inject, deferred>>
storeVars == <<stored, counted>>
writerVars == <<writer, timer, running>>
stopVars == <<closed, cancelled, cleanup>>

Places == {"new", "append", "held", "ready", "sending", "queued", "batch",
           "recovered", "out", "ignored", "orphan", "reaped"}
Boxes == 0..Cardinality(Entries)

LogTypeOK ==
    /\ place \in [Entries -> Places]
    /\ box \in Boxes
    /\ boxOf \in [Entries -> Boxes]
    /\ inject \in [pc : {"idle", "taken", "over"}, box : Boxes]
    /\ deferred \in [Deferring -> {"none", "waiting", "updating", "over"}]
    /\ stored \subseteq Entries
    /\ counted \subseteq Entries
    /\ writer \in {"select", "process", "gone"}
    /\ timer \in {"off", "armed", "fired"}
    /\ running \in BOOLEAN
    /\ closed \in BOOLEAN
    /\ cancelled \in BOOLEAN
    /\ cleanup \in {"idle", "closed", "wait", "pull", "drain", "join", "over"}

LogInit ==
    /\ place = [e \in Entries |-> "new"]
    /\ box = 0
    /\ boxOf = [e \in Entries |-> 0]
    /\ inject = [pc |-> "idle", box |-> 0]
    /\ deferred = [e \in Deferring |-> "none"]
    /\ stored = {} /\ counted = {}
    /\ writer = "select" /\ timer = "off" /\ running = FALSE
    /\ closed = FALSE /\ cancelled = FALSE
    /\ cleanup = "idle"

In(p) == {e \in Entries : place[e] = p}

Move(E, p) == place' = [e \in Entries |-> IF e \in E THEN p ELSE place[e]]

Count(E) == counted' = counted \cup E

-----------------------------------------------------------------------------
(* The producers: storeOrEnqueueEntry and Inject.                          *)

(* An entry of an untraced request is enqueued at once. *)
Direct(e) ==
    /\ place[e] = "new" /\ e \notin Traced
    /\ Move({e}, "ready")
    /\ UNCHANGED <<traceVars, storeVars, writerVars, stopVars>>

(* LoadOrStore: the trace's first entry makes the list, a later one loads  *)
(* it and has the append before it.                                        *)
Hold(e) ==
    /\ place[e] = "new" /\ e \in Traced
    /\ \/ /\ box = 0
          /\ box' = 1 + Cardinality({boxOf[d] : d \in Entries} \ {0})
          /\ boxOf' = [boxOf EXCEPT ![e] = box']
          /\ Move({e}, "held")
       \/ /\ box # 0
          /\ boxOf' = [boxOf EXCEPT ![e] = box]
          /\ Move({e}, "append")
          /\ UNCHANGED box
    /\ UNCHANGED <<inject, deferred, storeVars, writerVars, stopVars>>

(* The append, under the list's mutex; Inject does not take it.  If Inject *)
(* has been through the list, or the cleanup worker has dropped it, nobody *)
(* reads the entry.                                                        *)
Append(e) ==
    /\ place[e] = "append"
    /\ IF boxOf[e] = box \/ inject = [pc |-> "taken", box |-> boxOf[e]]
       THEN Move({e}, "held") ELSE Move({e}, "orphan")
    /\ UNCHANGED <<traceVars, storeVars, writerVars, stopVars>>

(* The trace is complete: LoadAndDelete. *)
InjectTake ==
    /\ inject.pc = "idle"
    /\ inject' = IF box = 0 THEN [pc |-> "over", box |-> 0] ELSE [pc |-> "taken", box |-> box]
    /\ box' = 0
    /\ UNCHANGED <<place, boxOf, deferred, storeVars, writerVars, stopVars>>

(* The range over the list's entries, each of which is enqueued. *)
InjectRange ==
    /\ inject.pc = "taken"
    /\ Move({e \in In("held") : boxOf[e] = inject.box}, "ready")
    /\ inject' = [pc |-> "over", box |-> 0]
    /\ UNCHANGED <<box, boxOf, deferred, storeVars, writerVars, stopVars>>

(* cleanupStalePendingLogs drops a list older than pendingLogTTL; the      *)
(* cleanup worker is one of the goroutines Cleanup waits for.              *)
Reap ==
    /\ box # 0 /\ cleanup # "over"
    /\ Move({e \in In("held") : boxOf[e] = box}, "reaped")
    /\ box' = 0
    /\ UNCHANGED <<boxOf, inject, deferred, storeVars, writerVars, stopVars>>

(* enqueueLogEntry: the look at closed ... *)
EnqueueLogEntry(e) ==
    /\ place[e] = "ready"
    /\ Move({e}, IF closed THEN "ignored" ELSE "sending")
    /\ UNCHANGED <<traceVars, storeVars, writerVars, stopVars>>

QueueClosed == cleanup \in {"join", "over"}

(* ... and the send, which never blocks: into a queue with room, dropped   *)
(* and counted when it is full, or, recovered, when it has been closed.    *)
Send(e) ==
    /\ place[e] = "sending"
    /\ IF QueueClosed \/ Cardinality(In("queued")) >= Capacity
       THEN Move({e}, "out") /\ Count({e})
       ELSE Move({e}, "queued") /\ UNCHANGED counted
    /\ UNCHANGED <<traceVars, stored, writerVars, stopVars>>

(* scheduleDeferredUsageUpdate: a goroutine of the wait group waits for    *)
(* the usage; when it comes and an updater's slot is free the entry's row  *)
(* is looked up and updated.                                               *)
Defer(e, from, to) ==
    /\ place[e] # "new"
    /\ deferred[e] = from
    /\ deferred' = [deferred EXCEPT ![e] = to]
    /\ UNCHANGED <<place, box, boxOf, inject, storeVars, writerVars, stopVars>>

Schedule(e) == Defer(e, "none", "waiting")

Updating == {e \in Deferring : deferred[e] = "updating"}

Arrives(e) ==
    \/ Defer(e, "waiting", "over")
    \/ Cardinality(Updating) < Updaters /\ Defer(e, "waiting", "updating")

Update(e) == Defer(e, "updating", "over")

-----------------------------------------------------------------------------
(* The batch writer.                                                       *)

(* flush, before the batch is processed: the timer is only stopped, and    *)
(* the flag left as it is (mutant).                                        *)
FlushKeepFlag ==
    /\ writer' = "process"
    /\ timer' = "off"
    /\ UNCHANGED running

(* flush, before the batch is processed: a running timer is stopped and    *)
(* its channel drained.                                                    *)
Flush ==
    /\ writer' = "process"
    /\ timer' = IF running THEN "off" ELSE timer
    /\ running' = FALSE

(* An entry is received.  The batch is full by its number of entries, or   *)
(* by their size; a first entry starts the timer.                          *)
Receive(e) ==
    /\ writer = "select" /\ place[e] = "queued"
    /\ Move({e}, "batch")
    /\ \/ Flush
       \/ /\ Cardinality(In("batch")) + 1 < MaxBatch
          /\ timer' = IF running THEN timer ELSE "armed"
          /\ running' = TRUE
          /\ UNCHANGED writer
    /\ UNCHANGED <<traceVars, storeVars, stopVars>>

TimerFires ==
    /\ timer = "armed"
    /\ timer' = "fired"
    /\ UNCHANGED <<place, traceVars, storeVars, writer, running, stopVars>>

OnTimer ==
    /\ writer = "select" /\ timer = "fired"
    /\ timer' = "off" /\ running' = FALSE
    /\ writer' = IF In("batch") = {} THEN "select" ELSE "process"
    /\ UNCHANGED <<place, traceVars, storeVars, stopVars>>

(* safeProcessBatch of the entries E: one insert for all, or, when that    *)
(* fails, one for each, those that fail being counted; or a panic on the   *)
(* way, after which all are counted.                                       *)
ProcessBatch(E) ==
    /\ Move(E, "out")
    /\ \E ok \in SUBSET E :
          /\ stored' = stored \cup ok
          /\ Count(E \ ok) \/ Count(E)

Process ==
    /\ writer = "process"
    /\ ProcessBatch(In("batch"))
    /\ writer' = "select"
    /\ UNCHANGED <<traceVars, timer, running, stopVars>>

(* The writer leaves its batch behind (mutant). *)
HandOverNothing ==
    /\ writer = "select" /\ cancelled
    /\ writer' = "gone"
    /\ UNCHANGED <<place, traceVars, storeVars, timer, running, stopVars>>

(* batchCtx is done: the batch goes to recoveredBatch, and                 *)
(* batchWriterDone is closed.                                              *)
HandOver ==
    /\ writer = "select" /\ cancelled
    /\ Move(In("batch"), "recovered")
    /\ writer' = "gone"
    /\ UNCHANGED <<traceVars, storeVars, timer, running, stopVars>>

-----------------------------------------------------------------------------
(* Shutdown.                                                               *)

(* The context Init was given ends, and batchCtx with it. *)
HostCancel ==
    /\ ~cancelled
    /\ cancelled' = TRUE
    /\ UNCHANGED <<place, traceVars, storeVars, writerVars, closed, cleanup>>

(* Cleanup ends the cleanup worker and sets closed. *)
Close ==
    /\ cleanup = "idle"
    /\ closed' = TRUE /\ cleanup' = "closed"
    /\ UNCHANGED <<place, traceVars, storeVars, writerVars, cancelled>>

(* Cleanup waits for a writer it did not cancel (mutant). *)
CancelForgotten ==
    /\ cleanup = "closed"
    /\ cleanup' = "wait"
    /\ UNCHANGED <<place, traceVars, storeVars, writerVars, closed, cancelled>>

(* batchCancel. *)
Cancel ==
    /\ cleanup = "closed"
    /\ cancelled' = TRUE /\ cleanup' = "wait"
    /\ UNCHANGED <<place, traceVars, storeVars, writerVars, closed>>

(* The writer is gone: drainPending begins with its batch. *)
TakeOver ==
    /\ cleanup = "wait" /\ writer = "gone"
    /\ cleanup' = "pull"
    /\ UNCHANGED <<place, traceVars, storeVars, writerVars, closed, cancelled>>

(* What the queue holds is received, until it is empty. *)
Pull ==
    /\ cleanup = "pull"
    /\ \/ \E e \in In("queued") : Move({e}, "recovered") /\ UNCHANGED cleanup
       \/ In("queued") = {} /\ cleanup' = "drain" /\ UNCHANGED place
    /\ UNCHANGED <<traceVars, storeVars, writerVars, closed, cancelled>>

(* A chunk is processed, or, past the deadline, the rest is counted. *)
Drain ==
    /\ cleanup = "drain" /\ In("recovered") # {}
    /\ \/ \E E \in SUBSET In("recovered") :
             /\ E = In("recovered") \/ Cardinality(E) = MaxBatch
             /\ Cardinality(E) <= MaxBatch
             /\ ProcessBatch(E)
       \/ Move(In("recovered"), "out") /\ Count(In("recovered")) /\ UNCHANGED stored
    /\ UNCHANGED <<traceVars, writerVars, stopVars>>

(* The queue is closed. *)
CloseQueue ==
    /\ cleanup = "drain" /\ In("recovered") = {}
    /\ cleanup' = "join"
    /\ UNCHANGED <<place, traceVars, storeVars, writerVars, closed, cancelled>>

(* The goroutines of the wait group have ended. *)
AllJoined ==
    /\ cleanup = "join" /\ writer = "gone"
    /\ \A e \in Deferring : deferred[e] \in {"none", "over"}
    /\ cleanup' = "over"
    /\ UNCHANGED <<place, traceVars, storeVars, writerVars, closed, cancelled>>

Produce ==
    \/ \E e \in Entries : Direct(e) \/ Hold(e) \/ Append(e) \/ EnqueueLogEntry(e) \/ Send(e)
    \/ \E e \in Deferring : Schedule(e)
    \/ InjectTake \/ InjectRange \/ Reap

Deferred == \E e \in Deferring : Arrives(e) \/ Update(e)

Writer == OnTimer \/ Process \/ HandOver \/ \E e \in Entries : Receive(e)

CleanupRuns == Cancel \/ TakeOver \/ Pull \/ Drain \/ CloseQueue \/ AllJoined

LogNext == Produce \/ Deferred \/ Writer \/ TimerFires \/ HostCancel \/ Close \/ CleanupRuns

(* The select of Go is fair only to a case that stays ready: the writer    *)
(* moves on, by which case is open, until it is gone.  A timer that is not *)
(* stopped fires, the store answers, a response's trailing usage comes or  *)
(* its channel is closed, and a host that ends the context calls Cleanup   *)
(* in the end.                                                             *)
LogSpec ==
    /\ LogInit /\ [][LogNext]_logVars
    /\ WF_logVars(Writer) /\ WF_logVars(TimerFires)
    /\ WF_logVars(Deferred) /\ WF_logVars(CleanupRuns) /\ WF_logVars(cancelled /\ Close)

-----------------------------------------------------------------------------
(* A batch that is not empty never waits without a timer, whatever the     *)
(* order of receives, expiries and flushes (batchWriter's timerRunning).   *)
PartialBatchTimed ==
    (writer = "select" /\ In("batch") # {}) => (running /\ timer # "off")

(* An entry queued before the plugin closed is stored or counted as        *)
(* dropped in the end, though the store fails, a batch panics, or Cleanup  *)
(* takes over in the middle ("any entries that do not finish within the    *)
(* deadline are dropped").                                                 *)
Settled ==
    \A e \in Entries :
        (place[e] = "queued" /\ ~closed) ~> (e \in stored \cup counted)

(* Cleanup returns: the writer lets go of the queue, the drain ends.       *)
CleanupReturns == closed ~> (cleanup = "over")

==============================================================================
