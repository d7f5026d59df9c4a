---------------------------- MODULE ProviderQueue ----------------------------
(***************************************************************************)
(* The request queue of one provider in core/bifrost.go: the goroutines    *)
(* that call tryRequest / tryStreamRequest, the requestWorker goroutines    *)
(* that serve them, and the operations that create, replace, remove and    *)
(* shut down the queue while requests are in flight.                       *)
(*                                                                         *)
(* A ProviderQueue value of the code is a generation here: a number that   *)
(* grows with every queue made by prepareProvider or UpdateProvider.       *)
(* A ChannelMessage and the Response and Err channels it carries are one   *)
(* message: the code takes all three from their pools in one function and  *)
(* puts all three back in one function.  ResponseStream plays the part of  *)
(* Response for a streaming request.                                       *)
(***************************************************************************)
EXTENDS Integers, Sequences, FiniteSets, Functions

CONSTANTS
    Requests,      \* calls of tryRequest / tryStreamRequest
    Streams,       \* requests that ask for a stream (tryStreamRequest)
    Leavers,       \* requests whose context may end while they are served
    Msgs,          \* ChannelMessage objects, pooled or not yet allocated
    Slots,         \* worker goroutines of one generation (Concurrency)
    MaxGen,        \* bound: queues made in one behaviour
    Buffer,        \* BufferSize of each generation
    DropExcess,    \* dropExcessRequests
    CreateMayFail, \* createBaseProvider may return an error
    Updates,       \* calls of UpdateProvider
    Removals,      \* calls of RemoveProvider
    Getters,       \* calls of getProviderByKey
    Shutdowns,     \* calls of Shutdown
    InitGens,      \* {1}: Init prepared the provider, {0}: it did not
    NoReq, NoMsg, Free

Gens == 1..MaxGen
NoGen == 0
Ops == Updates \cup Removals \cup Getters \cup Shutdowns
Workers == Gens \X Slots

ASSUME MaxGenAssumption == MaxGen \in Nat \ {0}
ASSUME BufferAssumption == Buffer \in [Gens -> Nat \ {0}]
ASSUME FlagAssumption == DropExcess \in BOOLEAN /\ CreateMayFail \in BOOLEAN
ASSUME RequestAssumption == Streams \subseteq Requests /\ Leavers \subseteq Requests
ASSUME InitGensAssumption == InitGens \subseteq {NoGen, 1}
ASSUME NullAssumption == NoReq \notin Requests /\ NoMsg \notin Msgs
                         /\ Free \notin Requests \cup Ops
ASSUME ActorAssumption ==
    /\ Requests \cap Ops = {}
    /\ Updates \cap (Removals \cup Getters \cup Shutdowns) = {}
    /\ Removals \cap (Getters \cup Shutdowns) = {}
    /\ Getters \cap Shutdowns = {}

VARIABLES
    requestQueues, \* generation published in the requestQueues map
    waitGroups,    \* generation whose wait group is in the waitGroups map
    providers,     \* TRUE iff the provider is in the providers slice
    lastGen,       \* queues made so far
    mutex,         \* holder of the provider's write lock
    prep,          \* step the holder has reached inside prepareProvider
    queue,         \* [Gens -> Seq(Msgs)]: the buffered Go channel
    closing,       \* [Gens -> BOOLEAN]: signalClosing has run
    worker,        \* [Workers -> state]: the requestWorker goroutines
    job,           \* [Workers -> message being served]
    task,          \* [Workers -> request whose content the worker executes]
    cleanup,       \* [Gens -> state]: UpdateProvider's cleanup goroutine
    pc, pq, msg,   \* tryRequest: control, queue held, message held
    ctxDone,       \* requests whose context has ended
    pool,          \* messages that getChannelMessage may hand out
    body,          \* [Msgs -> request the message was filled for]
    response,      \* [Msgs -> request whose result sits in Response]
    errs,          \* [Msgs -> request whose error sits in Err]
    got,           \* [Requests -> request whose answer was received]
    runs,          \* [Requests -> times a worker took the request]
    hooks,         \* [Requests -> times terminal post hooks ran for it]
    early,         \* requests enqueued before their queue was closing
    opc, old, hand \* lifecycle operations: control, queue at hand, message at hand

registry == <<requestQueues, waitGroups, providers, lastGen, mutex, prep>>
workers  == <<worker, job, task, cleanup>>
callers  == <<pc, pq, msg, ctxDone, got, early>>
channels == <<pool, body, response, errs>>
counts   == <<runs, hooks>>
ops      == <<opc, old, hand>>
vars == <<registry, queue, closing, workers, callers, channels, counts, ops>>

------------------------------------------------------------------------------
(* Initial states: bifrost.Init has prepared the provider, or has not (the *)
(* provider is then made by the first call that needs it).                 *)

Init ==
    /\ \E g \in InitGens :
         /\ requestQueues = g /\ waitGroups = g /\ lastGen = g
         /\ providers = (g = 1)
         /\ worker = [w \in Workers |-> IF w[1] = g THEN "idle" ELSE "none"]
    /\ mutex = Free /\ prep = "none"
    /\ queue = [g \in Gens |-> <<>>]
    /\ closing = [g \in Gens |-> FALSE]
    /\ job = [w \in Workers |-> NoMsg]
    /\ task = [w \in Workers |-> NoReq]
    /\ cleanup = [g \in Gens |-> "none"]
    /\ pc = [r \in Requests |-> "start"]
    /\ pq = [r \in Requests |-> NoGen]
    /\ msg = [r \in Requests |-> NoMsg]
    /\ ctxDone = {}
    /\ pool = Msgs
    /\ body = [m \in Msgs |-> NoReq]
    /\ response = [m \in Msgs |-> NoReq]
    /\ errs = [m \in Msgs |-> NoReq]
    /\ got = [r \in Requests |-> NoReq]
    /\ runs = [r \in Requests |-> 0]
    /\ hooks = [r \in Requests |-> 0]
    /\ early = {}
    /\ opc = [o \in Ops |-> "start"]
    /\ old = [o \in Ops |-> NoGen]
    /\ hand = [o \in Ops |-> NoMsg]

------------------------------------------------------------------------------
(* Building blocks.                                                        *)

(* wg.Wait() returns: every goroutine of the generation that was started   *)
(* has exited.                                                             *)
Stopped(g) == \A s \in Slots : g \in Gens => worker[<<g, s>>] \in {"none", "exited"}

(* A wait on the current generation only (mutant).                         *)
CurrentOnly == TRUE

(* retiredWorkerWaits and oldWorkerCleanups are both at zero.              *)
NoCleanupPending == \A g \in Gens : cleanup[g] \in {"none", "done"}

(* signalClosing: done is closed, isClosing() is true from now on.         *)
ForgetToSignal(g) == UNCHANGED closing

signalClosing(g) == closing' = [closing EXCEPT ![g] = TRUE]

(* The start of the requestWorker goroutines of a generation.              *)
StartOldWorkers(g) ==
    worker' = [w \in Workers |-> IF w[1] = g - 1 THEN "idle" ELSE worker[w]]

StartWorkers(g) ==
    worker' = [w \in Workers |-> IF w[1] = g THEN "idle" ELSE worker[w]]

(* A receive from a queue.                                                 *)
Peek(g) == UNCHANGED queue

Dequeue(g) == queue' = [queue EXCEPT ![g] = Tail(@)]

(* The send of an error to a dequeued message's caller:                    *)
(* select { case r.Err <- e: case <-r.Context.Done(): }                    *)
DiscardMsg(m) == UNCHANGED errs

FailMsg(m) ==
    \/ /\ errs[m] = NoReq
       /\ errs' = [errs EXCEPT ![m] = body[m]]
    \/ /\ body[m] \in ctxDone
       /\ errs' = errs

(* Terminal post hooks of a request.  The result of a streaming request is *)
(* a channel: its post hooks run with its chunks, in the provider's        *)
(* goroutine.                                                              *)
RunHooks(r) == hooks' = [hooks EXCEPT ![r] = @ + 1]

RunResultHooks(r) == IF r \in Streams THEN UNCHANGED hooks ELSE RunHooks(r)

(* One step of a loop that empties a closing queue and fails what it finds. *)
DrainOne(g) ==
    /\ queue[g] # <<>>
    /\ FailMsg(Head(queue[g]))
    /\ Dequeue(g)

(* getChannelMessage: both channels are emptied and the message is filled. *)
Fill(r, m) ==
    /\ body' = [body EXCEPT ![m] = r]
    /\ response' = [response EXCEPT ![m] = NoReq]
    /\ errs' = [errs EXCEPT ![m] = NoReq]

(* releaseChannelMessage as the caller returns.                            *)
Release(r) ==
    /\ pool' = pool \cup {msg[r]}
    /\ msg' = [msg EXCEPT ![r] = NoMsg]

(* The caller returns and leaves its message to whoever holds it.          *)
Forget(r) ==
    /\ UNCHANGED pool
    /\ msg' = [msg EXCEPT ![r] = NoMsg]

BeginPrepare(holder) ==
    /\ lastGen < MaxGen
    /\ mutex' = holder
    /\ prep' = "queue"

------------------------------------------------------------------------------
(* prepareProvider, run under the provider's mutex by whoever holds it.    *)

PrepareQueue ==
    /\ prep = "queue"
    /\ lastGen' = lastGen + 1
    /\ requestQueues' = lastGen + 1
    /\ prep' = "waitgroup"
    /\ UNCHANGED <<waitGroups, providers, mutex, queue, closing, workers,
                   callers, channels, counts, ops>>

PrepareWaitGroup ==
    /\ prep = "waitgroup"
    /\ waitGroups' = lastGen
    /\ prep' = "create"
    /\ UNCHANGED <<requestQueues, providers, lastGen, mutex, queue, closing,
                   workers, callers, channels, counts, ops>>

(* createBaseProvider succeeds and the instance is added to the slice.     *)
PrepareCreate ==
    /\ prep = "create"
    /\ providers' = TRUE
    /\ prep' = "workers"
    /\ UNCHANGED <<requestQueues, waitGroups, lastGen, mutex, queue, closing,
                   workers, callers, channels, counts, ops>>

(* The holder leaves prepareProvider and unlocks; callerPc is where a      *)
(* request goes, a lifecycle operation is over.                            *)
PrepareReturn(callerPc) ==
    /\ prep' = "none"
    /\ mutex' = Free
    /\ pc' = [r \in Requests |-> IF r = mutex THEN callerPc ELSE pc[r]]
    /\ opc' = [o \in Ops |-> IF o = mutex THEN "over" ELSE opc[o]]

(* createBaseProvider returns an error: the queue and the wait group that  *)
(* were stored before it stay in the maps.                                 *)
PrepareFail ==
    /\ prep = "create"
    /\ CreateMayFail
    /\ PrepareReturn("over")
    /\ UNCHANGED <<requestQueues, waitGroups, providers, lastGen, queue, closing,
                   workers, pq, msg, ctxDone, got, early, channels, counts,
                   old, hand>>

PrepareWorkers ==
    /\ prep = "workers"
    /\ StartWorkers(lastGen)
    /\ pq' = [r \in Requests |-> IF r = mutex THEN requestQueues ELSE pq[r]]
    /\ PrepareReturn("have")
    /\ UNCHANGED <<requestQueues, waitGroups, providers, lastGen, queue, closing,
                   job, task, cleanup, msg, ctxDone, got, early, channels,
                   counts, old, hand>>

Prepare == PrepareQueue \/ PrepareWaitGroup \/ PrepareCreate \/ PrepareFail
           \/ PrepareWorkers

------------------------------------------------------------------------------
(* tryRequest / tryStreamRequest.                                          *)

(* The context of a request ends: the client left or its deadline passed.  *)
ContextEnds(r) ==
    /\ r \in Leavers \ ctxDone
    /\ pc[r] # "over"
    /\ ctxDone' = ctxDone \cup {r}
    /\ UNCHANGED <<registry, queue, closing, workers, pc, pq, msg, got, early,
                   channels, counts, ops>>

(* getProviderQueue under the read lock.                                   *)
Lookup(r) ==
    /\ pc[r] = "start"
    /\ mutex = Free
    /\ pq' = [pq EXCEPT ![r] = requestQueues]
    /\ pc' = [pc EXCEPT ![r] = IF requestQueues = NoGen THEN "lock" ELSE "have"]
    /\ UNCHANGED <<registry, queue, closing, workers, msg, ctxDone, got, early,
                   channels, counts, ops>>

(* getProviderQueue under the write lock: look again, then create.         *)
LookupLocked(r) ==
    /\ pc[r] = "lock"
    /\ mutex = Free
    /\ \/ /\ requestQueues # NoGen
          /\ pq' = [pq EXCEPT ![r] = requestQueues]
          /\ pc' = [pc EXCEPT ![r] = "have"]
          /\ UNCHANGED <<mutex, prep>>
       \/ /\ requestQueues = NoGen      \* the account has no config
          /\ pc' = [pc EXCEPT ![r] = "over"]
          /\ UNCHANGED <<mutex, prep, pq>>
       \/ /\ requestQueues = NoGen
          /\ BeginPrepare(r)
          /\ pc' = [pc EXCEPT ![r] = "prepare"]
          /\ UNCHANGED pq
    /\ UNCHANGED <<requestQueues, waitGroups, providers, lastGen, queue, closing,
                   workers, msg, ctxDone, got, early, channels, counts, ops>>

(* A plugin answers in its pre hook: post hooks run, nothing is enqueued.  *)
ShortCircuit(r) ==
    /\ pc[r] = "have"
    /\ pc' = [pc EXCEPT ![r] = "over"]
    /\ RunHooks(r)
    /\ UNCHANGED <<registry, queue, closing, workers, pq, msg, ctxDone, got,
                   early, channels, runs, ops>>

(* The queue a producer goes on with after the isClosing check: its own, or *)
(* the one that replaced it.  The empty set means "shutting down".         *)
Target(r) ==
    IF ~closing[pq[r]]
    THEN {pq[r]}
    ELSE {g \in {requestQueues} \ {NoGen, pq[r]} : ~closing[g]}

(* getChannelMessage, then the isClosing check and the re-route.           *)
Enter(r) ==
    /\ pc[r] = "have"
    /\ \E m \in pool :
         /\ Fill(r, m)
         /\ \/ /\ Target(r) = {}
               /\ pc' = [pc EXCEPT ![r] = "over"]
               /\ UNCHANGED <<pq, msg, pool>>
            \/ \E g \in Target(r) :
                 /\ pq' = [pq EXCEPT ![r] = g]
                 /\ msg' = [msg EXCEPT ![r] = m]
                 /\ pool' = pool \ {m}
                 /\ pc' = [pc EXCEPT ![r] = "send"]
    /\ UNCHANGED <<registry, queue, closing, workers, ctxDone, got, early,
                   counts, ops>>

(* The two selects of the send.  Go picks any ready case, so a message may *)
(* enter a queue whose done channel is closed already.                     *)
Send(r) ==
    /\ pc[r] = "send"
    /\ Len(queue[pq[r]]) < Buffer[pq[r]]
    /\ queue' = [queue EXCEPT ![pq[r]] = Append(@, msg[r])]
    /\ pc' = [pc EXCEPT ![r] = "await"]
    /\ early' = IF closing[pq[r]] THEN early ELSE early \cup {r}
    /\ UNCHANGED <<registry, closing, workers, pq, msg, ctxDone, got, channels,
                   counts, ops>>

SendRefused(r) ==
    /\ pc[r] = "send"
    /\ \/ closing[pq[r]]
       \/ r \in ctxDone
       \/ DropExcess /\ Len(queue[pq[r]]) >= Buffer[pq[r]]
    /\ Release(r)
    /\ pc' = [pc EXCEPT ![r] = "over"]
    /\ UNCHANGED <<registry, queue, closing, workers, pq, ctxDone, got, early,
                   body, response, errs, counts, ops>>

(* The caller's last select: an answer is received, post hooks run and the *)
(* message goes back to its pools ...                                      *)
Receive(r) ==
    /\ pc[r] = "await"
    /\ LET m == msg[r] IN
         /\ \/ /\ response[m] # NoReq
               /\ got' = [got EXCEPT ![r] = response[m]]
               /\ response' = [response EXCEPT ![m] = NoReq]
               /\ RunResultHooks(r)
               /\ UNCHANGED errs
            \/ /\ errs[m] # NoReq
               /\ got' = [got EXCEPT ![r] = errs[m]]
               /\ errs' = [errs EXCEPT ![m] = NoReq]
               /\ RunHooks(r)
               /\ UNCHANGED response
    /\ Release(r)
    /\ pc' = [pc EXCEPT ![r] = "over"]
    /\ UNCHANGED <<registry, queue, closing, workers, pq, ctxDone, early, body,
                   runs, ops>>

(* ... or the context ended: the message is left to whoever holds it and   *)
(* never goes back to a pool.                                              *)
Abandon(r) ==
    /\ pc[r] = "await"
    /\ r \in ctxDone
    /\ Forget(r)
    /\ pc' = [pc EXCEPT ![r] = "over"]
    /\ UNCHANGED <<registry, queue, closing, workers, pq, ctxDone, got, early,
                   body, response, errs, counts, ops>>

Caller(r) == Lookup(r) \/ LookupLocked(r) \/ ShortCircuit(r) \/ Enter(r)
             \/ Send(r) \/ SendRefused(r) \/ Receive(r) \/ Abandon(r)

------------------------------------------------------------------------------
(* requestWorker.                                                          *)

Take(w) ==
    /\ worker[w] = "idle"
    /\ queue[w[1]] # <<>>
    /\ LET m == Head(queue[w[1]]) IN
         /\ job' = [job EXCEPT ![w] = m]
         /\ task' = [task EXCEPT ![w] = body[m]]
         /\ runs' = [runs EXCEPT ![body[m]] = @ + 1]
    /\ Dequeue(w[1])
    /\ worker' = [worker EXCEPT ![w] = "busy"]
    /\ UNCHANGED <<registry, closing, cleanup, callers, channels, hooks, ops>>

(* The provider call is over; its result or error goes to the caller.      *)
Deliver(w) ==
    /\ worker[w] = "busy"
    /\ LET m == job[w] IN
         \/ /\ response[m] = NoReq
            /\ response' = [response EXCEPT ![m] = task[w]]
            /\ UNCHANGED errs
         \/ /\ errs[m] = NoReq
            /\ errs' = [errs EXCEPT ![m] = task[w]]
            /\ UNCHANGED response
    /\ job' = [job EXCEPT ![w] = NoMsg]
    /\ task' = [task EXCEPT ![w] = NoReq]
    /\ worker' = [worker EXCEPT ![w] = "idle"]
    /\ UNCHANGED <<registry, queue, closing, cleanup, callers, pool, body,
                   counts, ops>>

(* billAbandonedTerminal: the select took the ctx.Done() case, the worker  *)
(* runs the post hooks in the caller's place.                              *)
BillAbandonedTerminal(w) ==
    /\ worker[w] = "busy"
    /\ body[job[w]] \in ctxDone
    /\ RunResultHooks(task[w])
    /\ job' = [job EXCEPT ![w] = NoMsg]
    /\ task' = [task EXCEPT ![w] = NoReq]
    /\ worker' = [worker EXCEPT ![w] = "idle"]
    /\ UNCHANGED <<registry, queue, closing, cleanup, callers, channels, runs, ops>>

(* pq.done is seen, the rest of the queue is failed, the worker returns.   *)
SeeDone(w) ==
    /\ worker[w] = "idle"
    /\ closing[w[1]]
    /\ worker' = [worker EXCEPT ![w] = "draining"]
    /\ UNCHANGED <<registry, queue, closing, job, task, cleanup, callers,
                   channels, counts, ops>>

WorkerDrain(w) ==
    /\ worker[w] = "draining"
    /\ DrainOne(w[1])
    /\ UNCHANGED <<registry, closing, workers, callers, pool, body, response,
                   counts, ops>>

Exit(w) ==
    /\ worker[w] = "draining"
    /\ queue[w[1]] = <<>>
    /\ worker' = [worker EXCEPT ![w] = "exited"]
    /\ UNCHANGED <<registry, queue, closing, job, task, cleanup, callers,
                   channels, counts, ops>>

Worker(w) == Take(w) \/ Deliver(w) \/ BillAbandonedTerminal(w) \/ SeeDone(w)
             \/ WorkerDrain(w) \/ Exit(w)

------------------------------------------------------------------------------
(* getProviderByKey: it looks at the providers slice, not at the queues.   *)

GetterLook(k) ==
    /\ opc[k] = "start"
    /\ \/ opc' = [opc EXCEPT ![k] = "over"] \* found, or no config
       \/ ~providers /\ opc' = [opc EXCEPT ![k] = "lock"]
    /\ UNCHANGED <<registry, queue, closing, workers, callers, channels, counts,
                   old, hand>>

GetterLocked(k) ==
    /\ opc[k] = "lock"
    /\ mutex = Free
    /\ IF providers
       THEN opc' = [opc EXCEPT ![k] = "over"] /\ UNCHANGED <<mutex, prep>>
       ELSE opc' = [opc EXCEPT ![k] = "prepare"] /\ BeginPrepare(k)
    /\ UNCHANGED <<requestQueues, waitGroups, providers, lastGen, queue, closing,
                   workers, callers, channels, counts, old, hand>>

Getter(k) == GetterLook(k) \/ GetterLocked(k)

------------------------------------------------------------------------------
(* RemoveProvider.                                                         *)

RemoveBegin(d) ==
    /\ opc[d] = "start"
    /\ mutex = Free
    /\ IF requestQueues = NoGen
       THEN /\ opc' = [opc EXCEPT ![d] = "over"]
            /\ UNCHANGED <<mutex, closing, old>>
       ELSE /\ opc' = [opc EXCEPT ![d] = "wait"]
            /\ mutex' = d
            /\ old' = [old EXCEPT ![d] = requestQueues]
            /\ signalClosing(requestQueues)
    /\ UNCHANGED <<requestQueues, waitGroups, providers, lastGen, prep, queue,
                   workers, callers, channels, counts, hand>>

RemoveWait(d) ==
    /\ opc[d] = "wait"
    /\ Stopped(waitGroups)
    /\ opc' = [opc EXCEPT ![d] = "drain"]
    /\ UNCHANGED <<registry, queue, closing, workers, callers, channels, counts,
                   old, hand>>

RemoveDrain(d) ==
    /\ opc[d] = "drain"
    /\ DrainOne(old[d])
    /\ UNCHANGED <<registry, closing, workers, callers, pool, body, response,
                   counts, ops>>

RemoveDrained(d) ==
    /\ opc[d] = "drain"
    /\ queue[old[d]] = <<>>
    /\ opc' = [opc EXCEPT ![d] = "retired"]
    /\ UNCHANGED <<registry, queue, closing, workers, callers, channels, counts,
                   old, hand>>

(* The retired generations are gone too: the map entries and the slice     *)
(* entry are deleted and the mutex is released.                            *)
RemoveFinish(d) ==
    /\ opc[d] = "retired"
    /\ NoCleanupPending
    /\ requestQueues' = NoGen
    /\ waitGroups' = NoGen
    /\ providers' = FALSE
    /\ mutex' = Free
    /\ opc' = [opc EXCEPT ![d] = "over"]
    /\ UNCHANGED <<lastGen, prep, queue, closing, workers, callers, channels,
                   counts, old, hand>>

Removal(d) == RemoveBegin(d) \/ RemoveWait(d) \/ RemoveDrain(d)
              \/ RemoveDrained(d) \/ RemoveFinish(d)

------------------------------------------------------------------------------
(* UpdateProvider.  An operation that is neither at "start" nor "over"     *)
(* holds the lifecycle lock: updates share it, Shutdown has it alone.      *)

Running(S) == \E o \in S : opc[o] \notin {"start", "over"}

UpdateBegin(u) ==
    /\ opc[u] = "start"
    /\ ~Running(Shutdowns)
    /\ \/ opc' = [opc EXCEPT ![u] = "over"] \* shut down, or no config
       \/ /\ \A s \in Shutdowns : opc[s] = "start"
          /\ opc' = [opc EXCEPT ![u] = "lock"]
    /\ UNCHANGED <<registry, queue, closing, workers, callers, channels, counts,
                   old, hand>>

(* The provider is not active: prepareProvider.                            *)
UpdateAbsent(u) ==
    /\ opc[u] = "lock"
    /\ mutex = Free
    /\ requestQueues = NoGen
    /\ BeginPrepare(u)
    /\ opc' = [opc EXCEPT ![u] = "prepare"]
    /\ UNCHANGED <<requestQueues, waitGroups, providers, lastGen, queue, closing,
                   workers, callers, channels, counts, old, hand>>

(* createBaseProvider fails before anything was published.                 *)
UpdateFail(u) ==
    /\ opc[u] = "lock"
    /\ mutex = Free
    /\ requestQueues # NoGen
    /\ CreateMayFail
    /\ opc' = [opc EXCEPT ![u] = "over"]
    /\ UNCHANGED <<registry, queue, closing, workers, callers, channels, counts,
                   old, hand>>

(* Steps 1-4: the new instance, queue, wait group and workers are in place. *)
UpdatePublish(u) ==
    /\ opc[u] = "lock"
    /\ mutex = Free
    /\ requestQueues # NoGen
    /\ lastGen < MaxGen
    /\ mutex' = u
    /\ lastGen' = lastGen + 1
    /\ requestQueues' = lastGen + 1
    /\ waitGroups' = lastGen + 1
    /\ providers' = TRUE
    /\ StartWorkers(lastGen + 1)
    /\ old' = [old EXCEPT ![u] = requestQueues]
    /\ opc' = [opc EXCEPT ![u] = "transfer"]
    /\ UNCHANGED <<prep, queue, closing, job, task, cleanup, callers, channels,
                   counts, hand>>

(* Step 5: one message is received from the old queue ...                  *)
TransferTake(u) ==
    /\ opc[u] = "transfer"
    /\ hand[u] = NoMsg
    /\ queue[old[u]] # <<>>
    /\ hand' = [hand EXCEPT ![u] = Head(queue[old[u]])]
    /\ Dequeue(old[u])
    /\ UNCHANGED <<registry, closing, workers, callers, channels, counts, opc, old>>

(* ... and offered to the new one.                                         *)
TransferPut(u) ==
    /\ opc[u] = "transfer"
    /\ hand[u] # NoMsg
    /\ Len(queue[requestQueues]) < Buffer[requestQueues]
    /\ queue' = [queue EXCEPT ![requestQueues] = Append(@, hand[u])]
    /\ hand' = [hand EXCEPT ![u] = NoMsg]
    /\ UNCHANGED <<registry, closing, workers, callers, channels, counts, opc, old>>

(* The new queue is full: this message and the rest of the old queue fail. *)
TransferCancel(u) ==
    /\ opc[u] = "transfer"
    /\ hand[u] # NoMsg
    /\ Len(queue[requestQueues]) >= Buffer[requestQueues]
    /\ FailMsg(hand[u])
    /\ hand' = [hand EXCEPT ![u] = NoMsg]
    /\ opc' = [opc EXCEPT ![u] = "cancel"]
    /\ UNCHANGED <<registry, queue, closing, workers, callers, pool, body,
                   response, counts, old>>

CancelRest(u) ==
    /\ opc[u] = "cancel"
    /\ DrainOne(old[u])
    /\ UNCHANGED <<registry, closing, workers, callers, pool, body, response,
                   counts, ops>>

TransferEnd(u) ==
    /\ opc[u] \in {"transfer", "cancel"}
    /\ hand[u] = NoMsg
    /\ queue[old[u]] = <<>>
    /\ opc' = [opc EXCEPT ![u] = "signal"]
    /\ UNCHANGED <<registry, queue, closing, workers, callers, channels, counts,
                   old, hand>>

(* Steps 6-8: the cleanup is registered, the old queue is closed, the      *)
(* cleanup goroutine starts and the locks are released.                    *)
UpdateFinish(u) ==
    /\ opc[u] = "signal"
    /\ signalClosing(old[u])
    /\ cleanup' = [cleanup EXCEPT ![old[u]] = "wait"]
    /\ mutex' = Free
    /\ opc' = [opc EXCEPT ![u] = "over"]
    /\ UNCHANGED <<requestQueues, waitGroups, providers, lastGen, prep, queue,
                   worker, job, task, callers, channels, counts, old, hand>>

Update(u) == UpdateBegin(u) \/ UpdateAbsent(u) \/ UpdateFail(u)
             \/ UpdatePublish(u) \/ TransferTake(u) \/ TransferPut(u)
             \/ TransferCancel(u) \/ CancelRest(u) \/ TransferEnd(u)
             \/ UpdateFinish(u)

(* The cleanup goroutine of a replaced generation.                         *)
CleanupWait(g) ==
    /\ cleanup[g] = "wait"
    /\ Stopped(g)
    /\ cleanup' = [cleanup EXCEPT ![g] = "drain"]
    /\ UNCHANGED <<registry, queue, closing, worker, job, task, callers,
                   channels, counts, ops>>

CleanupDrain(g) ==
    /\ cleanup[g] = "drain"
    /\ DrainOne(g)
    /\ UNCHANGED <<registry, closing, workers, callers, pool, body, response,
                   counts, ops>>

CleanupEnd(g) ==
    /\ cleanup[g] = "drain"
    /\ queue[g] = <<>>
    /\ cleanup' = [cleanup EXCEPT ![g] = "done"]
    /\ UNCHANGED <<registry, queue, closing, worker, job, task, callers,
                   channels, counts, ops>>

Cleanup(g) == CleanupWait(g) \/ CleanupDrain(g) \/ CleanupEnd(g)

------------------------------------------------------------------------------
(* Shutdown.  It takes the lifecycle lock, never a provider's mutex.       *)

ShutdownBegin(s) ==
    /\ opc[s] = "start"
    /\ ~Running(Updates \cup Shutdowns)
    /\ opc' = [opc EXCEPT ![s] = "signal"]
    /\ UNCHANGED <<registry, queue, closing, workers, callers, channels, counts,
                   old, hand>>

(* requestQueues.Range: signalClosing on what is published now.            *)
ShutdownSignal(s) ==
    /\ opc[s] = "signal"
    /\ closing' = [g \in Gens |-> closing[g] \/ g = requestQueues]
    /\ opc' = [opc EXCEPT ![s] = "load"]
    /\ UNCHANGED <<registry, queue, workers, callers, channels, counts, old, hand>>

(* waitGroups.Range: Wait on what is registered now.                       *)
ShutdownLoad(s) ==
    /\ opc[s] = "load"
    /\ old' = [old EXCEPT ![s] = waitGroups]
    /\ opc' = [opc EXCEPT ![s] = "wait"]
    /\ UNCHANGED <<registry, queue, closing, workers, callers, channels, counts,
                   hand>>

ShutdownWait(s) ==
    /\ opc[s] = "wait"
    /\ Stopped(old[s])
    /\ opc' = [opc EXCEPT ![s] = "cleanups"]
    /\ UNCHANGED <<registry, queue, closing, workers, callers, channels, counts,
                   old, hand>>

(* oldWorkerCleanups.Wait, then the sweep over the published queue.        *)
ShutdownCleanups(s) ==
    /\ opc[s] = "cleanups"
    /\ NoCleanupPending
    /\ old' = [old EXCEPT ![s] = requestQueues]
    /\ opc' = [opc EXCEPT ![s] = IF requestQueues = NoGen THEN "over" ELSE "drain"]
    /\ UNCHANGED <<registry, queue, closing, workers, callers, channels, counts,
                   hand>>

ShutdownDrain(s) ==
    /\ opc[s] = "drain"
    /\ DrainOne(old[s])
    /\ UNCHANGED <<registry, closing, workers, callers, pool, body, response,
                   counts, ops>>

ShutdownEnd(s) ==
    /\ opc[s] = "drain"
    /\ queue[old[s]] = <<>>
    /\ opc' = [opc EXCEPT ![s] = "over"]
    /\ UNCHANGED <<registry, queue, closing, workers, callers, channels, counts,
                   old, hand>>

Shutdown(s) == ShutdownBegin(s) \/ ShutdownSignal(s) \/ ShutdownLoad(s)
               \/ ShutdownWait(s) \/ ShutdownCleanups(s) \/ ShutdownDrain(s)
               \/ ShutdownEnd(s)

------------------------------------------------------------------------------
Next ==
    \/ Prepare
    \/ \E r \in Requests : Caller(r) \/ ContextEnds(r)
    \/ \E w \in Workers : Worker(w)
    \/ \E g \in Gens : Cleanup(g)
    \/ \E u \in Updates : Update(u)
    \/ \E d \in Removals : Removal(d)
    \/ \E k \in Getters : Getter(k)
    \/ \E s \in Shutdowns : Shutdown(s)

Spec == Init /\ [][Next]_vars

(* Every goroutine of the gateway is scheduled; a provider call returns    *)
(* because providers set a request timeout.  A client need not leave, and  *)
(* nobody has to call an operation.                                        *)
Begun(o) == opc[o] # "start"

Fairness ==
    /\ WF_vars(Prepare)
    /\ \A r \in Requests : WF_vars(Caller(r))
    /\ \A w \in Workers : WF_vars(Worker(w))
    /\ \A g \in Gens : WF_vars(Cleanup(g))
    /\ \A u \in Updates : WF_vars(Begun(u) /\ Update(u))
    /\ \A d \in Removals : WF_vars(Begun(d) /\ Removal(d))
    /\ \A k \in Getters : WF_vars(Begun(k) /\ Getter(k))
    /\ \A s \in Shutdowns : WF_vars(Begun(s) /\ Shutdown(s))

------------------------------------------------------------------------------
(* Properties.                                                             *)

(* Every variable keeps its type. *)
TypeOK ==
    /\ requestQueues \in Gens \cup {NoGen}
    /\ waitGroups \in Gens \cup {NoGen}
    /\ providers \in BOOLEAN
    /\ lastGen \in 0..MaxGen
    /\ mutex \in Requests \cup Ops \cup {Free}
    /\ prep \in {"none", "queue", "waitgroup", "create", "workers"}
    /\ queue \in [Gens -> Seq(Msgs)]
    /\ closing \in [Gens -> BOOLEAN]
    /\ worker \in [Workers -> {"none", "idle", "busy", "draining", "exited"}]
    /\ job \in [Workers -> Msgs \cup {NoMsg}]
    /\ task \in [Workers -> Requests \cup {NoReq}]
    /\ cleanup \in [Gens -> {"none", "wait", "drain", "done"}]
    /\ pc \in [Requests -> {"start", "lock", "prepare", "have", "send", "await", "over"}]
    /\ pq \in [Requests -> Gens \cup {NoGen}]
    /\ msg \in [Requests -> Msgs \cup {NoMsg}]
    /\ ctxDone \subseteq Requests
    /\ pool \subseteq Msgs
    /\ body \in [Msgs -> Requests \cup {NoReq}]
    /\ response \in [Msgs -> Requests \cup {NoReq}]
    /\ errs \in [Msgs -> Requests \cup {NoReq}]
    /\ got \in [Requests -> Requests \cup {NoReq}]
    /\ runs \in [Requests -> Nat]
    /\ hooks \in [Requests -> Nat]
    /\ early \subseteq Requests
    /\ opc \in [Ops -> {"start", "lock", "prepare", "transfer", "cancel", "signal",
                        "wait", "drain", "retired", "load", "cleanups", "over"}]
    /\ old \in [Ops -> Gens \cup {NoGen}]
    /\ hand \in [Ops -> Msgs \cup {NoMsg}]

(* A message that waits in some queue.                                     *)
Queued(m) == \E g \in Gens : m \in Range(queue[g])

(* A message that somebody other than its caller may still write to.       *)
InTransit(m) ==
    \/ Queued(m)
    \/ \E w \in Workers : job[w] = m
    \/ \E o \in Ops : hand[o] = m

(* What a caller receives on its channels is the answer to its own request, *)
(* although channels are pooled and reused across requests (tryRequest's   *)
(* ctx.Done branch, releaseChannelMessage).                                *)
NoCrossTalk == \A r \in Requests : got[r] \in {NoReq, r}

(* A message in the pool is in no queue, no worker and no updater holds it, *)
(* and its channels are empty: the draining in getChannelMessage is never  *)
(* what keeps a stale answer from the next request.                        *)
PooledQuiet ==
    \A m \in pool : ~InTransit(m) /\ response[m] = NoReq /\ errs[m] = NoReq

(* Whoever takes a message from a queue finds room in both channels, so    *)
(* neither the plain send of a key error nor a drain ever blocks           *)
(* (drainQueueWithErrors: "the send always completes immediately").        *)
SendsNeverBlock ==
    \A m \in Msgs : InTransit(m) => response[m] = NoReq /\ errs[m] = NoReq

(* One request costs at most one provider execution and its terminal post  *)
(* hooks run at most once, through transfers, drains and cancellation      *)
(* (billAbandonedTerminal: "post-hooks never run twice for one call").     *)
AtMostOnce == \A r \in Requests : runs[r] <= 1 /\ hooks[r] <= 1

Live(g) == \E s \in Slots : g \in Gens => worker[<<g, s>>] \in {"idle", "busy"}

(* Whenever the provider's mutex is free, the published queue is open and  *)
(* somebody serves it: no update-induced no-worker window (UpdateProvider, *)
(* step 4), and prepareProvider leaves no queue without workers.           *)
ServedWhilePublished ==
    /\ mutex = Free
    /\ requestQueues # NoGen
    /\ \A s \in Shutdowns : opc[s] = "start"
    => ~closing[requestQueues] /\ Live(requestQueues)

(* When RemoveProvider deletes the provider no worker of any generation,   *)
(* current or retired, is still running (RemoveProvider, steps 3 and 3c).  *)
RemoveQuiesces ==
    [][(\E d \in Removals : opc[d] = "retired" /\ opc'[d] = "over")
       => \A g \in Gens : Stopped(g)]_vars

(* When Shutdown returns every worker has exited ("It closes all request   *)
(* channels and waits for workers to exit").                               *)
ShutdownStopsWorkers ==
    (\E s \in Shutdowns : opc[s] = "over") => \A g \in Gens : Stopped(g)

(* A request that entered its queue before the queue was signalled is      *)
(* answered, whatever happens to the provider and though no client gives   *)
(* up (drain contract: "No client should be left hanging").  A request is  *)
(* made once: that from some time on none waits says it of each.           *)
EarlyAnswered ==
    <>[](\A r \in early : pc[r] # "await")

(* A provider's result is billed and logged once the call is over: by the  *)
(* caller, or by the worker if the caller left (billAbandonedTerminal).    *)
ExecutedIsBilled ==
    \A r \in Requests :
      (/\ pc[r] = "over" /\ runs[r] > 0 /\ r \notin Streams
       /\ ~\E w \in Workers : worker[w] = "busy" /\ task[w] = r)
      => hooks[r] > 0

(* Every lifecycle call that begins returns: the provider mutex, the       *)
(* lifecycle lock, the wait groups and the queues never wait on each other *)
(* for good.  A call is made once.                                         *)
OpsReturn == <>[](\A o \in Ops : opc[o] \in {"start", "over"})

==============================================================================
