----------------------- MODULE ProviderQueueInvariant -----------------------
(***************************************************************************)
(* The inductive invariant of ProviderQueue: who holds the provider mutex, *)
(* who holds each message, and what its channels may contain meanwhile.    *)
(***************************************************************************)
EXTENDS ProviderQueue

(* prepareProvider runs under the mutex, for the goroutine that holds it.  *)
PrepareLocked ==
    prep # "none" =>
      \/ mutex \in Requests /\ pc[mutex] = "prepare"
      \/ mutex \in Ops /\ opc[mutex] = "prepare"

(* The queue it makes is the newest one and is published before the rest.  *)
PrepareNewest ==
    /\ prep = "queue" => lastGen < MaxGen
    /\ prep \in {"waitgroup", "create", "workers"} =>
         requestQueues = lastGen /\ lastGen \in Gens

(* An operation past its first store holds the mutex and knows its queue.  *)
RemovalLocked ==
    \A d \in Removals : opc[d] \in {"wait", "drain", "retired"} =>
       mutex = d /\ old[d] \in Gens

UpdateLocked ==
    \A u \in Updates :
      /\ opc[u] \in {"transfer", "cancel", "signal"} =>
           mutex = u /\ old[u] \in Gens /\ requestQueues \in Gens
      /\ hand[u] # NoMsg => opc[u] = "transfer"

ShutdownKnows == \A s \in Shutdowns : opc[s] = "drain" => old[s] \in Gens

(* A request holds a queue from getProviderQueue on, and a message from    *)
(* getChannelMessage until it returns.                                     *)
CallerHolds ==
    \A r \in Requests :
      /\ pc[r] \in {"have", "send", "await"} => pq[r] \in Gens
      /\ msg[r] # NoMsg <=> pc[r] \in {"send", "await"}

(* A worker is busy with a message.                                        *)
WorkerHolds == \A w \in Workers : worker[w] = "busy" => job[w] # NoMsg

Control == /\ PrepareLocked /\ PrepareNewest /\ RemovalLocked /\ UpdateLocked
           /\ ShutdownKnows /\ CallerHolds /\ WorkerHolds

------------------------------------------------------------------------------
(* Messages.                                                               *)

(* A message is in at most one place of one queue ...                      *)
QueuedOnce ==
    \A g, h \in Gens : \A i \in 1..Len(queue[g]), j \in 1..Len(queue[h]) :
       queue[g][i] = queue[h][j] => g = h /\ i = j

(* ... and then no worker and no updater holds it; a worker that holds it  *)
(* executes the request it was filled for.                                 *)
OnePlace ==
    /\ \A w \in Workers : job[w] # NoMsg =>
         /\ ~Queued(job[w])
         /\ task[w] = body[job[w]]
         /\ \A v \in Workers : job[v] = job[w] => v = w
         /\ \A o \in Ops : hand[o] # job[w]
    /\ \A o \in Ops : hand[o] # NoMsg =>
         /\ ~Queued(hand[o])
         /\ \A p \in Ops : hand[p] = hand[o] => p = o

(* A message outside the pool belongs to the request it was filled for.    *)
Mine ==
    \A r \in Requests : msg[r] # NoMsg =>
       /\ msg[r] \notin pool /\ body[msg[r]] = r
       /\ pc[r] = "send" =>
            /\ ~InTransit(msg[r])
            /\ response[msg[r]] = NoReq /\ errs[msg[r]] = NoReq

(* The channels are empty until the message has left every place, then one *)
(* of them holds the answer to the request it was filled for.              *)
Channels ==
    \A m \in Msgs :
      /\ m \in pool \/ InTransit(m) => response[m] = NoReq /\ errs[m] = NoReq
      /\ m \in pool => ~InTransit(m)
      /\ response[m] = NoReq \/ errs[m] = NoReq
      /\ response[m] \in {NoReq, body[m]} /\ errs[m] \in {NoReq, body[m]}

Ownership == QueuedOnce /\ OnePlace /\ Mine /\ Channels /\ NoCrossTalk

------------------------------------------------------------------------------
(* Executions and bills.                                                   *)

(* Outside the pool a request has one message, from the send on.           *)
OneMessage ==
    /\ \A m \in Msgs \ pool :
         /\ body[m] \in Requests
         /\ pc[body[m]] \in {"send", "await", "over"}
    /\ \A m, n \in Msgs \ pool : body[m] = body[n] => m = n

Unstarted(m) == Queued(m) \/ \E o \in Ops : hand[o] = m

Pending(m) == InTransit(m) \/ response[m] # NoReq \/ errs[m] # NoReq

(* A request not yet taken by a worker has not run, one that may still be  *)
(* answered has not been billed.                                           *)
Unspent ==
    /\ \A r \in Requests : pc[r] \notin {"await", "over"} => runs[r] = 0 /\ hooks[r] = 0
    /\ \A m \in Msgs \ pool :
         /\ Unstarted(m) => runs[body[m]] = 0
         /\ Pending(m) => hooks[body[m]] = 0

Accounting == OneMessage /\ Unspent /\ AtMostOnce

(* The inductive invariant of the queue: control of the mutex, ownership   *)
(* of the pooled messages, accounting of executions and post hooks         *)
(* (tryRequest, requestWorker, UpdateProvider, releaseChannelMessage).     *)
IInv == TypeOK /\ Control /\ Ownership /\ Accounting


------------------------------------------------------------------------------
(* Generations and their workers.                                          *)

NoWorkers(g) == \A s \in Slots : worker[<<g, s>>] = "none"

(* A queue not made yet, or made and without workers so far, is untouched. *)
Untouched ==
    /\ \A g \in Gens : g > lastGen => ~closing[g] /\ cleanup[g] = "none" /\ NoWorkers(g)
    /\ prep \in {"waitgroup", "create", "workers"} =>
         cleanup[lastGen] = "none" /\ NoWorkers(lastGen)

(* The two maps and the slice agree but inside prepareProvider, and after  *)
(* it failed; a provider outside the slice has no worker.                  *)
Registered ==
    /\ requestQueues <= lastGen
    /\ prep # "waitgroup" => waitGroups = requestQueues
    /\ prep \in {"queue", "waitgroup", "create"} \/ requestQueues = NoGen => ~providers
    /\ prep = "workers" => providers
    /\ ~providers => Stopped(waitGroups)
    /\ requestQueues # NoGen /\ prep \notin {"waitgroup", "create"} =>
         providers \/ CreateMayFail

(* A worker gives up only a closed queue, and the published one is closed  *)
(* by a removal or a shutdown only.                                        *)
ClosedBySomebody ==
    /\ \A w \in Workers : worker[w] \in {"draining", "exited"} => closing[w[1]]
    /\ requestQueues # NoGen /\ closing[requestQueues] =>
         \/ \E d \in Removals : opc[d] \in {"wait", "drain", "retired"}
         \/ \E s \in Shutdowns : opc[s] \notin {"start", "signal"}
    /\ providers /\ prep # "workers" => \A s \in Slots : worker[<<requestQueues, s>>] # "none"

(* Whoever waits for workers knows them all: a generation with a running   *)
(* worker is the current one, is being replaced, or has its cleanup.       *)
Replacing(u) == opc[u] \in {"transfer", "cancel", "signal"}

Awaited ==
    /\ \A g \in Gens : ~Stopped(g) =>
         \/ g = waitGroups
         \/ cleanup[g] # "none"
         \/ \E u \in Updates : Replacing(u) /\ old[u] = g
    /\ \A g \in Gens : cleanup[g] \in {"drain", "done"} => Stopped(g)
    /\ \A d \in Removals : opc[d] \in {"drain", "retired"} => Stopped(waitGroups)
    /\ \A u \in Updates : Replacing(u) => old[u] < requestQueues

(* The inductive invariant of the generations (prepareProvider,            *)
(* UpdateProvider, RemoveProvider and their wait groups).                  *)
Generations == Untouched /\ Registered /\ ClosedBySomebody /\ Awaited

(* What Shutdown relies on: nobody replaces the queue it has closed, and   *)
(* the wait groups it waited for are all there are.                        *)
ShutdownAlone ==
    /\ prep = "none" /\ providers
    /\ \A s \in Shutdowns :
         /\ opc[s] # "start" => \A u \in Updates : opc[u] \in {"start", "over"}
         /\ opc[s] = "wait" => old[s] = waitGroups
         /\ opc[s] \in {"cleanups", "drain", "over"} => Stopped(waitGroups)
         /\ opc[s] \in {"drain", "over"} => NoCleanupPending

=============================================================================
